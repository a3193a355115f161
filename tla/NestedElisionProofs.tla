------------------------ MODULE NestedElisionProofs -------------------------
(***************************************************************************)
(* Proofs about nested mutexes in the HLE builds (NestedElision), for any  *)
(* threads and any latch paths.  The types hold in both builds; a mutex    *)
(* entered with a real xchg excludes everybody else in the build that      *)
(* elides nested mutexes, not in smartall.                                 *)
(***************************************************************************)
EXTENDS NestedElision, SharedLemmas, SequenceTheorems

-----------------------------------------------------------------------------
(* The inductive invariant *)

\* Up to where the path has been looked at: a thread that spins has seen the
\* lock word of the mutex it wants.
Reach(t) == IF pc[t] = "spin" THEN depth[t] + 1 ELSE depth[t]

\* The mutexes whose release the processor waits for.
Nesting(t) == IF SmartAll THEN {path[t][base[t] + 1]}
              ELSE Positions(t, base[t], Reach(t))

\* How far a thread is on its path, and where its transaction began.
StackInv(t) ==
    /\ depth[t] <= Len(path[t])
    /\ tx[t] = "none" => base[t] = 0 /\ elided[t] = {} /\ wset[t] = {}
    /\ tx[t] # "none" => base[t] < Reach(t) /\ elided[t] = Nesting(t)
    /\ pc[t] = "idle" => tx[t] = "none" /\ path[t] = <<>>
    /\ pc[t] # "idle" => path[t] # <<>>
    /\ pc[t] = "retake" => tx[t] = "none"
    /\ pc[t] \in {"enter", "spin", "retake"} => depth[t] < Len(path[t])
    /\ pc[t] \in {"load", "store", "exit"} => depth[t] > 0

\* A transaction writes no lock word and has read each one that it entered
\* as free.
ReadsInv(t) ==
    /\ wset[t] \subseteq {Word}
    /\ \A m \in InTx(t) : m \in rset[t] /\ mem[m] = 0

NestInv ==
    /\ TypeOK
    /\ \A t \in Threads : StackInv(t)

ExclusionInv ==
    /\ \A t \in Threads : ReadsInv(t)
    /\ HeldIsMarked
    /\ \A t, u \in Threads : t # u => Held(t) \cap Held(u) = {}

-----------------------------------------------------------------------------
(* Paths *)

\* The types of the variables of the program proper.
ProgramTypeOK ==
    /\ pc \in [Threads -> Labels]
    /\ path \in [Threads -> Paths \cup {<<>>}]
    /\ depth \in [Threads -> Nat]
    /\ base \in [Threads -> Nat]
    /\ elided \in [Threads -> SUBSET Mutexes]
    /\ reg \in [Threads -> Int]
    /\ ops \in [Threads -> 0 .. MaxOps]

\* A latch path is a sequence of different mutexes.
LEMMA PathFacts ==
    ASSUME TypeOK, NEW t \in Threads
    PROVE  /\ Len(path[t]) \in Nat
           /\ \A i \in 1 .. Len(path[t]) : path[t][i] \in Mutexes
           /\ \A i, j \in 1 .. Len(path[t]) : path[t][i] = path[t][j] => i = j
           /\ depth[t] \in Nat /\ base[t] \in Nat
           /\ path[t] # <<>> => path[t] \in Paths
           /\ Len(path[t]) = 0 <=> path[t] = <<>>
           /\ Mutexes \subseteq Loc /\ Word \in Loc
<1>1. path[t] \in Seq(Mutexes) /\ depth[t] \in Nat /\ base[t] \in Nat
  <2>1. <<>> \in Seq(Mutexes)
    BY EmptySeq
  <2> QED
    BY <2>1, NestedAssumption DEF TypeOK
<1>2. /\ Len(path[t]) \in Nat /\ DOMAIN path[t] = 1 .. Len(path[t])
      /\ \A i \in 1 .. Len(path[t]) : path[t][i] \in Mutexes
      /\ Len(path[t]) = 0 <=> path[t] = <<>>
  BY <1>1, LenProperties, ElementOfSeq, EmptySeq
<1>3. path[t] # <<>> => path[t] \in Paths
  BY DEF TypeOK
<1>4. \A i, j \in 1 .. Len(path[t]) : path[t][i] = path[t][j] => i = j
  <2>1. CASE path[t] = <<>>
    BY <1>2, <2>1
  <2>2. CASE path[t] \in Paths
    BY <1>2, <2>2, NestedAssumption
  <2> QED
    BY <1>3, <2>1, <2>2
<1> QED
  BY <1>1, <1>2, <1>3, <1>4, NestedAssumption

\* The mutex to enter and the one to exit are mutexes.
LEMMA MutexToUse ==
    ASSUME NestInv, NEW t \in Threads
    PROVE  /\ pc[t] \in {"enter", "spin", "retake"} =>
                Wanted(t) \in Mutexes /\ Wanted(t) \in Loc
           /\ pc[t] = "exit" => Innermost(t) \in Mutexes /\ Innermost(t) \in Loc
<1>1. StackInv(t) /\ TypeOK
  BY DEF NestInv
<1>2. pc[t] \in {"enter", "spin", "retake"} => depth[t] + 1 \in 1 .. Len(path[t])
  BY <1>1, PathFacts DEF StackInv
<1>3. pc[t] = "exit" => depth[t] \in 1 .. Len(path[t])
  BY <1>1, PathFacts DEF StackInv
<1> QED
  BY <1>1, <1>2, <1>3, PathFacts DEF Wanted, Innermost

\* A step of t touches no other thread's place on its path.
OwnStep(t) ==
    /\ OthersKept(t)
    /\ \A u \in Threads \ {t} :
         /\ pc'[u] = pc[u] /\ path'[u] = path[u] /\ depth'[u] = depth[u]
         /\ base'[u] = base[u] /\ elided'[u] = elided[u]

LEMMA StackOfOthers ==
    ASSUME NestInv, NEW t \in Threads, OwnStep(t), TypeOK', StackInv(t)'
    PROVE  NestInv'
<1> SUFFICES ASSUME NEW u \in Threads, u # t PROVE StackInv(u)'
  BY DEF NestInv
<1>1. StackInv(u)
  BY DEF NestInv
<1>2. /\ pc'[u] = pc[u] /\ path'[u] = path[u] /\ depth'[u] = depth[u]
      /\ base'[u] = base[u] /\ elided'[u] = elided[u]
  BY DEF OwnStep
<1>3. Reach(u)' = Reach(u)
  BY <1>2 DEF Reach
<1>4. Nesting(u)' = Nesting(u)
  <2>1. Positions(u, base[u], Reach(u))' = Positions(u, base[u], Reach(u))
    BY <1>2, <1>3 DEF Positions
  <2> QED
    BY <1>2, <2>1 DEF Nesting
<1> QED
  BY <1>1, <1>2, <1>3, <1>4 DEF OwnStep, OthersKept, StackInv

\* One more, and one less, position.
LEMMA PositionsUp ==
    ASSUME TypeOK, NEW t \in Threads, NEW lo \in Nat, NEW hi \in Nat, lo <= hi
    PROVE  Positions(t, lo, hi + 1) = Positions(t, lo, hi) \cup {path[t][hi + 1]}
<1>1. lo + 1 .. hi + 1 = (lo + 1 .. hi) \cup {hi + 1}
  OBVIOUS
<1> QED
  BY <1>1 DEF Positions

LEMMA PositionsDown ==
    ASSUME TypeOK, NEW t \in Threads, NEW lo \in Nat, NEW hi \in Nat,
           lo < hi, hi <= Len(path[t])
    PROVE  /\ path[t][hi] \in Positions(t, lo, hi)
           /\ Positions(t, lo, hi - 1) = Positions(t, lo, hi) \ {path[t][hi]}
           /\ Positions(t, lo, hi) = {path[t][hi]} => hi = lo + 1
<1>1. /\ hi \in 1 .. Len(path[t]) /\ hi \in lo + 1 .. hi
      /\ \A k \in lo + 1 .. hi : k \in 1 .. Len(path[t])
      /\ lo + 1 .. hi - 1 = (lo + 1 .. hi) \ {hi}
  BY PathFacts
<1>2. \A k \in lo + 1 .. hi : path[t][k] = path[t][hi] => k = hi
  BY <1>1, PathFacts
<1>3. Positions(t, lo, hi) = {path[t][hi]} => lo + 1 = hi
  <2>1. path[t][lo + 1] \in Positions(t, lo, hi)
    <3>1. lo + 1 \in lo + 1 .. hi
      OBVIOUS
    <3> QED
      BY <3>1 DEF Positions
  <2>2. lo + 1 \in lo + 1 .. hi
    OBVIOUS
  <2> QED
    BY <1>2, <2>1, <2>2
<1> QED
  BY <1>1, <1>2, <1>3 DEF Positions

LEMMA NestInit == Init => NestInv
<1> SUFFICES ASSUME Init PROVE NestInv
  OBVIOUS
<1>1. TypeOK
  BY NestedAssumption DEF Init, TsxInit, TypeOK, TsxTypeOK, AbortCodes, Labels
<1>2. Len(<<>>) = 0
  OBVIOUS
<1> QED
  BY <1>1, <1>2 DEF Init, TsxInit, NestInv, StackInv

-----------------------------------------------------------------------------
(* Steps on a path *)

\* The outcome of a test-and-set.
LEMMA EnterEffect ==
    ASSUME NestInv, NEW t \in Threads, NEW v, Enter(t, v),
           pc[t] \in {"enter", "retake"}
    PROVE  /\ \A u \in Threads \ {t} : pc'[u] = pc[u] /\ depth'[u] = depth[u]
           /\ pc' \in [Threads -> Labels] /\ depth' \in [Threads -> Nat]
           /\ depth[t] + 1 <= Len(path[t])
           /\ IF v = 0
              THEN /\ depth'[t] = depth[t] + 1
                   /\ \/ pc'[t] = "load"
                      \/ pc'[t] = "enter" /\ depth[t] + 1 < Len(path[t])
              ELSE pc'[t] = "spin" /\ depth'[t] = depth[t]
<1>1. /\ pc \in [Threads -> Labels] /\ depth \in [Threads -> Nat]
      /\ depth[t] < Len(path[t]) /\ Len(path[t]) \in Nat
  BY PathFacts DEF NestInv, StackInv, TypeOK
<1> QED
  BY <1>1 DEF Enter, Goto, Labels

\* A step that keeps or starts the transaction of an acquire.
LEMMA AcquireStack ==
    ASSUME NestInv, NEW t \in Threads, ib_mutex_test_and_set(t)
    PROVE  NestInv' /\ OwnStep(t)
<1>t. /\ TypeOK /\ TsxTypeOK /\ ProgramTypeOK /\ StackInv(t)
      /\ tx[t] \in {"none", "active", "aborted"}
      /\ Len(path[t]) \in Nat /\ depth[t] \in Nat /\ base[t] \in Nat
  BY PathFacts DEF NestInv, TypeOK, TsxTypeOK, ProgramTypeOK
<1>1. CASE elide(t)
  <2>1. /\ pc[t] = "enter" /\ tx[t] = "none"
        /\ Begin(t, {Wanted(t)}) /\ Enter(t, mem[Wanted(t)])
        /\ base' = [base EXCEPT ![t] = depth[t]]
        /\ elided' = [elided EXCEPT ![t] = {Wanted(t)}]
        /\ path' = path /\ reg' = reg /\ ops' = ops
    BY <1>1, <1>t DEF elide, At, xtest
  <2>2. Wanted(t) \in Mutexes /\ {Wanted(t)} \in SUBSET Loc
    BY <2>1, MutexToUse
  <2>3. TsxTypeOK' /\ OthersKept(t) /\ tx'[t] = "active"
    BY <1>t, <2>1, <2>2, BeginType, BeginEffect
  <2>4. /\ \A u \in Threads \ {t} : pc'[u] = pc[u] /\ depth'[u] = depth[u]
        /\ pc' \in [Threads -> Labels] /\ depth' \in [Threads -> Nat]
        /\ depth[t] + 1 <= Len(path[t])
        /\ \/ /\ depth'[t] = depth[t] + 1
              /\ \/ pc'[t] = "load"
                 \/ pc'[t] = "enter" /\ depth[t] + 1 < Len(path[t])
           \/ pc'[t] = "spin" /\ depth'[t] = depth[t]
    BY <2>1, EnterEffect
  <2>5. TypeOK'
    BY <1>t, <2>1, <2>2, <2>3, <2>4 DEF TypeOK, ProgramTypeOK
  <2>6. base'[t] = depth[t] /\ elided'[t] = {Wanted(t)} /\ Reach(t)' = depth[t] + 1
    BY <1>t, <2>1, <2>4 DEF ProgramTypeOK, Reach
  <2>7. Nesting(t)' = {path[t][depth[t] + 1]}
    <3>1. base'[t] + 1 .. Reach(t)' = {depth[t] + 1}
      BY <1>t, <2>6
    <3> QED
      BY <2>1, <2>6, <3>1 DEF Nesting, Positions
  <2>8. StackInv(t)'
    BY <1>t, <2>1, <2>3, <2>4, <2>6, <2>7 DEF StackInv, Wanted
  <2>9. OwnStep(t)
    BY <1>t, <2>1, <2>3, <2>4 DEF OwnStep, ProgramTypeOK
  <2> QED
    BY <2>5, <2>8, <2>9, StackOfOthers
<1>2. CASE take(t)
  <2>1. /\ pc[t] \in {"enter", "retake"} /\ tx[t] = "none"
        /\ Store(t, Wanted(t), 1) /\ Enter(t, mem[Wanted(t)])
        /\ path' = path /\ base' = base /\ elided' = elided
        /\ reg' = reg /\ ops' = ops
    BY <1>2, <1>t DEF take, At, xtest
  <2>2. Wanted(t) \in Loc
    BY <2>1, MutexToUse
  <2>3. TsxTypeOK' /\ OthersKept(t) /\ tx'[t] = "none" /\ wset' = wset
    BY <1>t, <2>1, <2>2, StoreType, StoreEffect, AccessKeepsOthers DEF xtest
  <2>4. /\ \A u \in Threads \ {t} : pc'[u] = pc[u] /\ depth'[u] = depth[u]
        /\ pc' \in [Threads -> Labels] /\ depth' \in [Threads -> Nat]
        /\ depth[t] + 1 <= Len(path[t])
        /\ \/ /\ depth'[t] = depth[t] + 1
              /\ \/ pc'[t] = "load"
                 \/ pc'[t] = "enter" /\ depth[t] + 1 < Len(path[t])
           \/ pc'[t] = "spin" /\ depth'[t] = depth[t]
    BY <2>1, EnterEffect
  <2>5. TypeOK'
    BY <1>t, <2>1, <2>3, <2>4 DEF TypeOK, ProgramTypeOK
  <2>8. StackInv(t)'
    BY <1>t, <2>1, <2>3, <2>4 DEF StackInv
  <2>9. OwnStep(t)
    BY <1>t, <2>1, <2>3, <2>4 DEF OwnStep
  <2> QED
    BY <2>5, <2>8, <2>9, StackOfOthers
<1>3. CASE nested(t)
  <2>1. /\ pc[t] = "enter" /\ tx[t] = "active"
        /\ Load(t, Wanted(t)) /\ Enter(t, Reported(t))
        /\ elided' = IF SmartAll THEN elided
                     ELSE [elided EXCEPT ![t] = @ \cup {Wanted(t)}]
        /\ path' = path /\ base' = base /\ reg' = reg /\ ops' = ops
    BY <1>3 DEF nested, At, xtest
  <2>2. Wanted(t) \in Loc /\ Wanted(t) \in Mutexes
    BY <2>1, MutexToUse
  <2>3. TsxTypeOK' /\ OthersKept(t) /\ tx'[t] = "active"
    BY <1>t, <2>1, <2>2, LoadType, AccessKeepsOthers
  <2>4. /\ \A u \in Threads \ {t} : pc'[u] = pc[u] /\ depth'[u] = depth[u]
        /\ pc' \in [Threads -> Labels] /\ depth' \in [Threads -> Nat]
        /\ depth[t] + 1 <= Len(path[t])
        /\ \/ /\ depth'[t] = depth[t] + 1
              /\ \/ pc'[t] = "load"
                 \/ pc'[t] = "enter" /\ depth[t] + 1 < Len(path[t])
           \/ pc'[t] = "spin" /\ depth'[t] = depth[t]
    BY <2>1, EnterEffect
  <2>e. /\ elided' \in [Threads -> SUBSET Mutexes]
        /\ \A u \in Threads \ {t} : elided'[u] = elided[u]
        /\ elided'[t] = IF SmartAll THEN elided[t]
                        ELSE elided[t] \cup {Wanted(t)}
    BY <1>t, <2>1, <2>2 DEF ProgramTypeOK
  <2>5. TypeOK'
    BY <1>t, <2>1, <2>3, <2>4, <2>e DEF TypeOK, ProgramTypeOK
  <2>6. Reach(t) = depth[t] /\ Reach(t)' = depth[t] + 1
        /\ base[t] < depth[t] /\ elided[t] = Nesting(t)
    BY <1>t, <2>1, <2>4 DEF Reach, StackInv
  <2>7. elided'[t] = Nesting(t)'
    <3>1. CASE SmartAll
      BY <2>1, <2>6, <2>e, <3>1 DEF Nesting
    <3>2. CASE ~SmartAll
      <4>1. Positions(t, base[t], depth[t] + 1)
              = Positions(t, base[t], depth[t]) \cup {Wanted(t)}
        <5>1. base[t] \in Nat /\ depth[t] \in Nat /\ base[t] <= depth[t]
          BY <1>t, <2>6
        <5>2. TypeOK
          BY <1>t
        <5> QED
          BY <5>1, <5>2, PositionsUp DEF Wanted
      <4>2. Nesting(t)' = Positions(t, base[t], depth[t] + 1)
        <5>1. base'[t] + 1 .. Reach(t)' = base[t] + 1 .. depth[t] + 1
          BY <2>1, <2>6
        <5>2. Nesting(t)' = {path'[t][k] : k \in base'[t] + 1 .. Reach(t)'}
          BY <3>2 DEF Nesting, Positions
        <5> QED
          BY <2>1, <5>1, <5>2 DEF Positions
      <4> QED
        BY <2>6, <2>e, <3>2, <4>1, <4>2 DEF Nesting
    <3> QED
      BY <3>1, <3>2
  <2>8. StackInv(t)'
    BY <1>t, <2>1, <2>3, <2>4, <2>6, <2>7 DEF StackInv
  <2>9. OwnStep(t)
    BY <1>t, <2>1, <2>3, <2>4, <2>e DEF OwnStep
  <2> QED
    BY <2>5, <2>8, <2>9, StackOfOthers
<1> QED
  BY <1>1, <1>2, <1>3 DEF ib_mutex_test_and_set

\* The pause of the spin loop, the section of the last mutex, the start of an
\* operation, aborts and rollbacks.
LEMMA OtherStack ==
    ASSUME NestInv, NEW t \in Threads,
           \/ begin_op(t) \/ mutex_spin_wait(t) \/ load(t) \/ store(t)
           \/ rollback(t) \/ ProcessorAbort(t)
    PROVE  NestInv' /\ OwnStep(t)
<1>t. /\ TypeOK /\ TsxTypeOK /\ ProgramTypeOK /\ StackInv(t)
      /\ tx[t] \in {"none", "active", "aborted"}
      /\ Len(path[t]) \in Nat /\ depth[t] \in Nat /\ base[t] \in Nat
      /\ Word \in Loc
  BY PathFacts DEF NestInv, TypeOK, TsxTypeOK, ProgramTypeOK
<1>1. CASE begin_op(t)
  <2>1. PICK p \in Paths : path' = [path EXCEPT ![t] = p]
    BY <1>1 DEF begin_op
  <2>2. /\ pc[t] = "idle" /\ ops[t] < MaxOps
        /\ ops' = [ops EXCEPT ![t] = @ + 1]
        /\ pc' = [pc EXCEPT ![t] = "enter"]
        /\ depth' = depth /\ base' = base /\ elided' = elided /\ reg' = reg
        /\ mem' = mem /\ tx' = tx /\ code' = code /\ rset' = rset
        /\ wset' = wset /\ wbuf' = wbuf
    BY <1>1 DEF begin_op, At, Goto, txVars
  <2>3. TypeOK'
    <3>1. ops[t] + 1 \in 0 .. MaxOps
      BY <1>t, <2>2, NestedAssumption DEF ProgramTypeOK
    <3> QED
      BY <1>t, <2>1, <2>2, <3>1 DEF TypeOK, TsxTypeOK, ProgramTypeOK, Labels
  <2>4. path'[t] = p /\ pc'[t] = "enter"
    BY <1>t, <2>1, <2>2 DEF ProgramTypeOK
  <2>5. p # <<>> /\ Len(p) > 0
    <3>1. Len(path'[t]) \in Nat /\ (Len(path'[t]) = 0 <=> path'[t] = <<>>)
      <4>1. p \in Seq(Mutexes) /\ p # <<>>
        BY NestedAssumption
      <4> QED
        BY <2>4, <4>1, LenProperties, EmptySeq
    <3> QED
      BY <2>4, <3>1, NestedAssumption
  <2>6. depth[t] = 0 /\ tx[t] = "none"
    <3>1. Len(path[t]) = 0
      BY <1>t, <2>2, PathFacts DEF StackInv
    <3> QED
      BY <1>t, <2>2, <3>1 DEF StackInv
  <2>7. StackInv(t)'
    BY <1>t, <2>2, <2>4, <2>5, <2>6 DEF StackInv
  <2>8. OwnStep(t)
    BY <1>t, <2>1, <2>2 DEF OwnStep, OthersKept, ProgramTypeOK
  <2> QED
    BY <2>3, <2>7, <2>8, StackOfOthers
<1>2. ASSUME tx[t] = "active", Abort({t}, NOBITS) \/ Abort({t}, CONFLICT),
             UNCHANGED <<mem, rset, wset, wbuf, pc, progVars>>
      PROVE  NestInv' /\ OwnStep(t)
  <2>1. /\ path' = path /\ depth' = depth /\ base' = base /\ elided' = elided
        /\ reg' = reg /\ ops' = ops /\ pc' = pc /\ wset' = wset
    BY <1>2 DEF progVars
  <2>2. TsxTypeOK' /\ OthersKept(t) /\ tx'[t] = "aborted"
    BY <1>t, <1>2, SelfAbortType, SelfAbortEffect DEF AbortCodes
  <2>3. TypeOK'
    BY <1>t, <2>1, <2>2 DEF TypeOK, ProgramTypeOK
  <2>4. Reach(t)' = Reach(t) /\ Nesting(t)' = Nesting(t)
    BY <2>1 DEF Reach, Nesting, Positions
  <2>5. StackInv(t)'
    BY <1>t, <1>2, <2>1, <2>2, <2>4 DEF StackInv
  <2> QED
    BY <2>1, <2>2, <2>3, <2>5, StackOfOthers DEF OwnStep
<1>3. ASSUME tx[t] # "aborted",
             Load(t, Word) \/ \E v \in Int : Store(t, Word, v),
             NEW label \in {"store", "exit"}, Goto(t, label),
             pc[t] \in {"load", "store"},
             UNCHANGED <<path, depth, base, elided, ops>>,
             reg' \in [Threads -> Int]
      PROVE  NestInv' /\ OwnStep(t)
  <2>1. TsxTypeOK' /\ OthersKept(t) /\ tx'[t] = tx[t]
    BY <1>t, <1>3, LoadType, StoreType, AccessKeepsOthers
  <2>2. tx[t] = "none" => wset'[t] = wset[t]
    BY <1>t, <1>3, LoadEffect, StoreEffect DEF xtest
  <2>3. /\ pc' \in [Threads -> Labels] /\ pc'[t] = label
        /\ \A u \in Threads \ {t} : pc'[u] = pc[u]
    BY <1>t, <1>3 DEF Goto, ProgramTypeOK, Labels
  <2>4. TypeOK'
    BY <1>t, <1>3, <2>1, <2>3 DEF TypeOK, ProgramTypeOK
  <2>5. Reach(t)' = Reach(t) /\ Nesting(t)' = Nesting(t)
    BY <1>3, <2>3 DEF Reach, Nesting, Positions
  <2>6. StackInv(t)'
    BY <1>t, <1>3, <2>1, <2>2, <2>3, <2>5 DEF StackInv
  <2> QED
    BY <1>3, <2>1, <2>3, <2>4, <2>6, StackOfOthers DEF OwnStep
<1>4. CASE load(t)
  <2>1. Sees(t, Word) \in Int
    BY <1>t, <1>4, LoadType DEF load
  <2>2. reg' \in [Threads -> Int]
    BY <1>t, <1>4, <2>1 DEF load, ProgramTypeOK
  <2> QED
    BY <1>3, <1>4, <2>2 DEF load, At
<1>5. CASE store(t)
  <2>1. reg[t] + 1 \in Int /\ reg' = reg
    BY <1>t, <1>5 DEF store, ProgramTypeOK, progVars
  <2>2. UNCHANGED <<path, depth, base, elided, ops>>
    BY <1>5 DEF store, progVars
  <2> QED
    BY <1>t, <1>3, <1>5, <2>1, <2>2 DEF store, At, ProgramTypeOK
<1>6. CASE mutex_spin_wait(t)
  <2>1. CASE xtest(t)
    BY <1>2, <1>6, <2>1 DEF mutex_spin_wait, xtest
  <2>2. CASE ~xtest(t)
    <3>1. /\ pc[t] = "spin" /\ tx[t] = "none" /\ Load(t, Wanted(t))
          /\ pc' = [pc EXCEPT ![t] = "enter"]
          /\ path' = path /\ depth' = depth /\ base' = base
          /\ elided' = elided /\ reg' = reg /\ ops' = ops
      BY <1>6, <1>t, <2>2 DEF mutex_spin_wait, At, Goto, xtest, progVars
    <3>2. Wanted(t) \in Loc
      BY <3>1, MutexToUse
    <3>3. TsxTypeOK' /\ OthersKept(t) /\ tx'[t] = tx[t] /\ wset' = wset
      BY <1>t, <3>1, <3>2, LoadType, LoadEffect, AccessKeepsOthers
    <3>4. TypeOK'
      BY <1>t, <3>1, <3>3 DEF TypeOK, ProgramTypeOK, Labels
    <3>5. StackInv(t)'
      BY <1>t, <3>1, <3>3 DEF StackInv, ProgramTypeOK
    <3>6. OwnStep(t)
      BY <1>t, <3>1, <3>3 DEF OwnStep, ProgramTypeOK
    <3> QED
      BY <3>4, <3>5, <3>6, StackOfOthers
  <2> QED
    BY <2>1, <2>2
<1>7. CASE rollback(t)
  <2>1. /\ tx[t] = "aborted" /\ Rollback(t) /\ Discard(t)
        /\ depth' = [depth EXCEPT ![t] = base[t]]
        /\ base' = [base EXCEPT ![t] = 0]
        /\ elided' = [elided EXCEPT ![t] = {}]
        /\ reg' = [reg EXCEPT ![t] = 0]
        /\ pc' = [pc EXCEPT ![t] = "retake"]
        /\ path' = path /\ ops' = ops
    BY <1>7 DEF rollback, Rollback, ResumeDepth, Goto
  <2>2. TsxTypeOK' /\ OthersKept(t) /\ tx'[t] = "none" /\ wset'[t] = {}
    BY <1>t, <2>1, RollbackType, DiscardEffect
  <2>3. TypeOK'
    BY <1>t, <2>1, <2>2 DEF TypeOK, ProgramTypeOK, Labels
  <2>4. /\ depth'[t] = base[t] /\ base'[t] = 0 /\ elided'[t] = {}
        /\ pc'[t] = "retake"
    BY <1>t, <2>1 DEF ProgramTypeOK
  <2>5. base[t] < Len(path[t])
    BY <1>t, <2>1 DEF StackInv, Reach
  <2>6. StackInv(t)'
    BY <1>t, <2>1, <2>2, <2>4, <2>5 DEF StackInv
  <2>7. OwnStep(t)
    BY <1>t, <2>1, <2>2 DEF OwnStep, ProgramTypeOK
  <2> QED
    BY <2>3, <2>6, <2>7, StackOfOthers
<1>8. CASE ProcessorAbort(t)
  BY <1>2, <1>8 DEF ProcessorAbort, HardwareAbort, xtest
<1> QED
  BY <1>1, <1>4, <1>5, <1>6, <1>7, <1>8

\* mutex_exit_func: the processor waits for the releases of exactly the
\* mutexes that the transaction entered, so that it commits with the first.
LEMMA ExitFacts ==
    ASSUME NestInv, NEW t \in Threads, mutex_exit_func(t)
    PROVE  LET m == Innermost(t) IN
           \/ /\ tx[t] = "active" /\ base[t] + 1 = depth[t] /\ Commit(t)
              /\ elided[t] = {m} /\ elided'[t] = {}
           \/ /\ tx[t] = "active" /\ base[t] + 1 < depth[t] /\ UNCHANGED txVars
              /\ ~SmartAll
              /\ elided'[t] = Positions(t, base[t], depth[t] - 1)
           \/ /\ tx[t] = "active" /\ base[t] + 1 < depth[t] /\ Store(t, m, 0)
              /\ SmartAll /\ elided' = elided
           \/ tx[t] = "none" /\ Store(t, m, 0) /\ elided' = elided
<1> DEFINE m == Innermost(t)
<1>t. /\ TypeOK /\ StackInv(t) /\ tx[t] \in {"none", "active", "aborted"}
      /\ elided \in [Threads -> SUBSET Mutexes]
      /\ Len(path[t]) \in Nat /\ depth[t] \in Nat /\ base[t] \in Nat
      /\ \A i, j \in 1 .. Len(path[t]) : path[t][i] = path[t][j] => i = j
  BY PathFacts DEF NestInv, TypeOK, TsxTypeOK
<1>1. /\ pc[t] = "exit" /\ tx[t] \in {"none", "active"}
      /\ mutex_reset_lock_word(t)
      /\ depth[t] > 0 /\ depth[t] <= Len(path[t])
  BY <1>t DEF mutex_exit_func, At, StackInv
<1>2. CASE tx[t] = "none"
  BY <1>1, <1>2 DEF mutex_reset_lock_word, xtest
<1>3. CASE tx[t] = "active"
  <2>1. base[t] < depth[t] /\ elided[t] = Nesting(t) /\ Reach(t) = depth[t]
    BY <1>t, <1>1, <1>3 DEF StackInv, Reach
  <2>2. CASE SmartAll
    <3>1. elided[t] = {path[t][base[t] + 1]}
      BY <2>1, <2>2 DEF Nesting
    <3>2. m \in elided[t] <=> base[t] + 1 = depth[t]
      <4>1. base[t] + 1 \in 1 .. Len(path[t]) /\ depth[t] \in 1 .. Len(path[t])
        BY <1>t, <1>1, <2>1
      <4> QED
        BY <1>t, <3>1, <4>1 DEF Innermost
    <3>3. CASE m \in elided[t]
      <4>1. elided[t] = {m} /\ base[t] + 1 = depth[t]
        BY <3>1, <3>2, <3>3
      <4>2. Commit(t) /\ elided' = [elided EXCEPT ![t] = @ \ {m}]
        BY <1>1, <1>3, <3>3, <4>1 DEF mutex_reset_lock_word, xtest
      <4>3. elided'[t] = {}
        BY <1>t, <4>1, <4>2
      <4> QED
        BY <1>3, <4>1, <4>2, <4>3
    <3>4. CASE m \notin elided[t]
      <4>1. base[t] + 1 < depth[t]
        BY <1>t, <2>1, <3>2, <3>4
      <4>2. Store(t, m, 0) /\ elided' = elided
        BY <1>1, <1>3, <3>4 DEF mutex_reset_lock_word, xtest
      <4> QED
        BY <1>3, <2>2, <4>1, <4>2
    <3> QED
      BY <3>3, <3>4
  <2>3. CASE ~SmartAll
    <3>1. elided[t] = Positions(t, base[t], depth[t])
      BY <2>1, <2>3 DEF Nesting
    <3>2. /\ m \in elided[t]
          /\ Positions(t, base[t], depth[t] - 1) = elided[t] \ {m}
          /\ elided[t] = {m} => depth[t] = base[t] + 1
      <4>1. base[t] \in Nat /\ depth[t] \in Nat /\ base[t] < depth[t]
            /\ depth[t] <= Len(path[t]) /\ TypeOK
        BY <1>t, <1>1, <2>1
      <4> QED
        BY <3>1, <4>1, PositionsDown DEF Innermost
    <3>3. /\ elided' = [elided EXCEPT ![t] = @ \ {m}]
          /\ IF elided[t] = {m} THEN Commit(t) ELSE UNCHANGED txVars
      BY <1>1, <1>3, <3>2 DEF mutex_reset_lock_word, xtest
    <3>4. elided'[t] = elided[t] \ {m}
      BY <1>t, <3>3
    <3>5. CASE elided[t] = {m}
      <4>1. elided'[t] = {} /\ Commit(t) /\ base[t] + 1 = depth[t]
        BY <3>2, <3>3, <3>4, <3>5
      <4> QED
        BY <1>3, <3>5, <4>1
    <3>6. CASE elided[t] # {m}
      <4>1. base[t] + 1 # depth[t]
        <5>1. ASSUME base[t] + 1 = depth[t] PROVE elided[t] = {m}
          <6>1. base[t] + 1 .. depth[t] = {depth[t]}
            BY <1>t, <5>1
          <6> QED
            BY <3>1, <6>1 DEF Positions, Innermost
        <5> QED
          BY <3>6, <5>1
      <4>2. base[t] + 1 < depth[t]
        BY <1>t, <2>1, <4>1
      <4> QED
        BY <1>3, <2>3, <3>2, <3>3, <3>4, <3>6, <4>2
    <3> QED
      BY <3>5, <3>6
  <2> QED
    BY <2>2, <2>3
<1> QED
  BY <1>1, <1>2, <1>3

LEMMA ExitStack ==
    ASSUME NestInv, NEW t \in Threads, mutex_exit_func(t)
    PROVE  NestInv' /\ OwnStep(t)
<1> DEFINE m == Innermost(t)
<1>t. /\ TypeOK /\ TsxTypeOK /\ ProgramTypeOK /\ StackInv(t)
      /\ Len(path[t]) \in Nat /\ depth[t] \in Nat /\ base[t] \in Nat
  BY PathFacts DEF NestInv, TypeOK, ProgramTypeOK
<1>1. /\ pc[t] = "exit" /\ mutex_reset_lock_word(t)
      /\ depth' = [depth EXCEPT ![t] = @ - 1]
      /\ base' = IF tx'[t] = "none" THEN [base EXCEPT ![t] = 0] ELSE base
      /\ ops' = ops
      /\ depth[t] = 1 => /\ pc' = [pc EXCEPT ![t] = "idle"]
                         /\ path' = [path EXCEPT ![t] = <<>>]
                         /\ reg' = [reg EXCEPT ![t] = 0]
      /\ depth[t] # 1 => pc' = pc /\ path' = path /\ reg' = reg
      /\ depth[t] > 0 /\ depth[t] <= Len(path[t])
  BY <1>t DEF mutex_exit_func, At, Goto, StackInv
<1>m. m \in Mutexes /\ m \in Loc /\ 0 \in Int
  BY <1>1, MutexToUse
<1>2. \/ /\ tx[t] = "active" /\ base[t] + 1 = depth[t] /\ Commit(t)
         /\ elided'[t] = {}
      \/ /\ tx[t] = "active" /\ base[t] + 1 < depth[t] /\ UNCHANGED txVars
         /\ ~SmartAll
         /\ elided'[t] = Positions(t, base[t], depth[t] - 1)
      \/ /\ tx[t] = "active" /\ base[t] + 1 < depth[t] /\ Store(t, m, 0)
         /\ SmartAll /\ elided' = elided
      \/ tx[t] = "none" /\ Store(t, m, 0) /\ elided' = elided
  BY ExitFacts
<1>e. /\ elided' \in [Threads -> SUBSET Mutexes]
      /\ \A u \in Threads \ {t} : elided'[u] = elided[u]
  BY <1>t, <1>1 DEF mutex_reset_lock_word, ProgramTypeOK
<1>h. pc[t] # "spin" /\ Reach(t) = depth[t]
  BY <1>1 DEF Reach
<1> HIDE DEF m
<1>3. TsxTypeOK' /\ OthersKept(t)
  <2>1. CASE Commit(t)
    BY <1>t, <2>1, CommitType, DiscardEffect DEF Commit
  <2>2. CASE UNCHANGED txVars
    BY <1>t, <2>2 DEF txVars, TsxTypeOK, OthersKept
  <2>3. CASE Store(t, m, 0)
    BY <1>t, <1>m, <2>3, StoreType, AccessKeepsOthers
  <2> QED
    BY <1>2, <2>1, <2>2, <2>3
<1>4. TypeOK'
  <2>1. depth[t] - 1 \in Nat
    BY <1>t, <1>1
  <2>2. depth' \in [Threads -> Nat] /\ base' \in [Threads -> Nat]
    BY <1>t, <1>1, <2>1 DEF ProgramTypeOK
  <2>3. /\ pc' \in [Threads -> Labels] /\ path' \in [Threads -> Paths \cup {<<>>}]
        /\ reg' \in [Threads -> Int]
    <3>1. CASE depth[t] = 1
      <4>1. pc' \in [Threads -> Labels]
        BY <1>t, <1>1, <3>1 DEF ProgramTypeOK, Labels
      <4>2. path' \in [Threads -> Paths \cup {<<>>}]
        BY <1>t, <1>1, <3>1 DEF ProgramTypeOK
      <4>3. reg' \in [Threads -> Int]
        BY <1>t, <1>1, <3>1 DEF ProgramTypeOK
      <4> QED
        BY <4>1, <4>2, <4>3
    <3>2. CASE depth[t] # 1
      BY <1>t, <1>1, <3>2 DEF ProgramTypeOK
    <3> QED
      BY <3>1, <3>2
  <2> QED
    BY <1>t, <1>1, <1>3, <1>e, <2>2, <2>3 DEF TypeOK, ProgramTypeOK
<1>5. OwnStep(t)
  BY <1>t, <1>1, <1>3, <1>e DEF OwnStep, ProgramTypeOK
<1>6. /\ depth'[t] = depth[t] - 1
      /\ tx'[t] = "none" => base'[t] = 0
      /\ tx'[t] # "none" => base'[t] = base[t]
      /\ depth[t] = 1 => pc'[t] = "idle" /\ path'[t] = <<>>
      /\ depth[t] # 1 => pc'[t] = "exit" /\ path'[t] = path[t] /\ depth'[t] > 0
  BY <1>t, <1>1 DEF ProgramTypeOK
<1>7. CASE tx'[t] = "none" /\ elided'[t] = {} /\ wset'[t] = {}
  <2>1. CASE depth[t] = 1
    <3>1. Len(path'[t]) = 0 /\ depth'[t] = 0
      BY <1>6, <2>1
    <3>2. StackInv(t)'
      BY <1>6, <1>7, <2>1, <3>1 DEF StackInv
    <3> QED
      BY <1>4, <1>5, <3>2, StackOfOthers
  <2>2. CASE depth[t] # 1
    <3>1. depth'[t] <= Len(path'[t])
      BY <1>t, <1>1, <1>6, <2>2
    <3>2. path[t] # <<>>
      BY <1>t, <1>1 DEF StackInv
    <3>3. StackInv(t)'
      BY <1>6, <1>7, <2>2, <3>1, <3>2 DEF StackInv
    <3> QED
      BY <1>4, <1>5, <3>3, StackOfOthers
  <2> QED
    BY <2>1, <2>2
<1>8. CASE /\ tx'[t] = "active" /\ base[t] + 1 < depth[t]
           /\ elided'[t] = IF SmartAll THEN {path[t][base[t] + 1]}
                           ELSE Positions(t, base[t], depth[t] - 1)
  <2>1. depth[t] # 1
    BY <1>t, <1>8
  <2>2. /\ pc'[t] = "exit" /\ path'[t] = path[t] /\ base'[t] = base[t]
        /\ Reach(t)' = depth[t] - 1 /\ depth'[t] = depth[t] - 1
        /\ base[t] < depth[t] - 1 /\ depth[t] - 1 > 0
        /\ depth[t] - 1 <= Len(path[t])
    BY <1>t, <1>1, <1>6, <1>8, <2>1 DEF Reach
  <2>3. Nesting(t)' = elided'[t]
    <3>1. CASE SmartAll
      BY <1>8, <2>2, <3>1 DEF Nesting
    <3>2. CASE ~SmartAll
      <4>1. base'[t] + 1 .. Reach(t)' = base[t] + 1 .. depth[t] - 1
        BY <2>2
      <4>2. Nesting(t)' = {path'[t][k] : k \in base'[t] + 1 .. Reach(t)'}
        BY <3>2 DEF Nesting, Positions
      <4> QED
        BY <1>8, <2>2, <3>2, <4>1, <4>2 DEF Positions
    <3> QED
      BY <3>1, <3>2
  <2>4. path[t] # <<>>
    BY <1>t, <1>1 DEF StackInv
  <2>5. StackInv(t)'
    BY <1>8, <2>2, <2>3, <2>4 DEF StackInv
  <2> QED
    BY <1>4, <1>5, <2>5, StackOfOthers
<1>9. \/ tx'[t] = "none" /\ elided'[t] = {} /\ wset'[t] = {}
      \/ /\ tx'[t] = "active" /\ base[t] + 1 < depth[t]
         /\ elided'[t] = IF SmartAll THEN {path[t][base[t] + 1]}
                         ELSE Positions(t, base[t], depth[t] - 1)
  <2>1. CASE Commit(t) /\ elided'[t] = {}
    BY <1>t, <2>1, DiscardEffect DEF Commit
  <2>2. CASE /\ tx[t] = "active" /\ base[t] + 1 < depth[t] /\ UNCHANGED txVars
             /\ ~SmartAll
             /\ elided'[t] = Positions(t, base[t], depth[t] - 1)
    BY <2>2 DEF txVars
  <2>3. CASE /\ tx[t] = "active" /\ base[t] + 1 < depth[t] /\ Store(t, m, 0)
             /\ SmartAll /\ elided' = elided
    <3>1. tx'[t] = "active"
      BY <1>t, <1>m, <2>3, AccessKeepsOthers
    <3>2. elided[t] = {path[t][base[t] + 1]}
      BY <1>t, <2>3 DEF StackInv, Nesting
    <3> QED
      BY <2>3, <3>1, <3>2
  <2>4. CASE tx[t] = "none" /\ Store(t, m, 0) /\ elided' = elided
    <3>1. tx'[t] = "none" /\ wset'[t] = wset[t]
      BY <1>t, <1>m, <2>4, AccessKeepsOthers, StoreEffect DEF xtest
    <3> QED
      BY <1>t, <2>4, <3>1 DEF StackInv
  <2> QED
    BY <1>2, <2>1, <2>2, <2>3, <2>4
<1> QED
  BY <1>7, <1>8, <1>9

LEMMA NestNext == NestInv /\ [Next]_vars => NestInv'
<1> SUFFICES ASSUME NestInv, [Next]_vars PROVE NestInv'
  OBVIOUS
<1>1. CASE UNCHANGED vars
  <2>1. /\ mem' = mem /\ tx' = tx /\ code' = code /\ rset' = rset
        /\ wset' = wset /\ wbuf' = wbuf /\ pc' = pc /\ path' = path
        /\ depth' = depth /\ base' = base /\ elided' = elided
        /\ reg' = reg /\ ops' = ops
    BY <1>1 DEF vars, txVars, progVars
  <2>2. TypeOK'
    BY <2>1 DEF NestInv, TypeOK, TsxTypeOK
  <2>3. ASSUME NEW t \in Threads PROVE StackInv(t)'
    <3>1. Reach(t)' = Reach(t)
      BY <2>1 DEF Reach
    <3>2. Nesting(t)' = Nesting(t)
      BY <2>1, <3>1 DEF Nesting, Positions
    <3>3. StackInv(t)
      BY DEF NestInv
    <3> QED
      BY <2>1, <3>1, <3>2, <3>3 DEF StackInv
  <2> QED
    BY <2>2, <2>3 DEF NestInv
<1> QED
  BY <1>1, AcquireStack, OtherStack, ExitStack DEF Next, Work

LEMMA NestInvariant == Spec => []NestInv
BY NestInit, NestNext, PTL DEF Spec

\* Types of nested mutexes, in both builds: depth counts no mutex that is not
\* on the path, and a release never takes it below zero.
THEOREM TypeCorrect == Spec => []TypeOK
<1>1. NestInv => TypeOK
  BY DEF NestInv
<1> QED
  BY <1>1, NestInvariant, PTL

-----------------------------------------------------------------------------
(* Exclusion *)

LEMMA HeldMutexes ==
    ASSUME NestInv, NEW t \in Threads
    PROVE  Held(t) \subseteq Mutexes /\ InTx(t) \subseteq Mutexes
<1>1. /\ StackInv(t) /\ TypeOK /\ Len(path[t]) \in Nat
      /\ depth[t] \in Nat /\ base[t] \in Nat
      /\ \A i \in 1 .. Len(path[t]) : path[t][i] \in Mutexes
  BY PathFacts DEF NestInv
<1>2. Reach(t) \in Nat /\ Reach(t) <= Len(path[t]) /\ depth[t] <= Reach(t)
  BY <1>1 DEF StackInv, Reach
<1>3. /\ base[t] <= Len(path[t]) /\ depth[t] <= Len(path[t])
  BY <1>1, <1>2 DEF StackInv, TypeOK, TsxTypeOK
<1>4. ASSUME NEW lo \in Nat, NEW hi \in Nat, hi <= Len(path[t])
      PROVE  Positions(t, lo, hi) \subseteq Mutexes
  BY <1>1, <1>4 DEF Positions
<1> QED
  BY <1>1, <1>3, <1>4 DEF Held, InTx

\* What the others have entered, after a step of t.
LEMMA HeldOfOthers ==
    ASSUME NEW t \in Threads, OwnStep(t), NEW u \in Threads, u # t
    PROVE  /\ Held(u)' = Held(u)
           /\ InTx(u)' \subseteq InTx(u)
           /\ InTx(u)' # {} => tx'[u] = "active"
           /\ rset'[u] = rset[u] /\ wset'[u] = wset[u]
BY DEF OwnStep, OthersKept, Held, InTx, Positions, xtest

\* A step that changes no lock word and enters nothing with an xchg.
LEMMA KeepsLockWords ==
    ASSUME NestInv, ExclusionInv, NEW t \in Threads, OwnStep(t),
           \A m \in Mutexes : mem'[m] = mem[m],
           Held(t)' \subseteq Held(t), ReadsInv(t)'
    PROVE  ExclusionInv'
<1>1. ASSUME NEW u \in Threads PROVE Held(u)' \subseteq Held(u)
  BY HeldOfOthers
<1>2. ASSUME NEW u \in Threads PROVE ReadsInv(u)'
  <2>1. CASE u # t
    <3>1. InTx(u) \subseteq Mutexes /\ ReadsInv(u)
      BY HeldMutexes DEF ExclusionInv
    <3> QED
      BY <2>1, <3>1, HeldOfOthers DEF ReadsInv
  <2> QED
    BY <2>1
<1>3. HeldIsMarked'
  BY <1>1, HeldMutexes DEF ExclusionInv, HeldIsMarked
<1>4. \A u, v \in Threads : u # v => Held(u)' \cap Held(v)' = {}
  BY <1>1 DEF ExclusionInv
<1> QED
  BY <1>2, <1>3, <1>4 DEF ExclusionInv

\* The places of a thread whose transaction does not end or begin.
LEMMA SamePlaces ==
    ASSUME NEW t \in Threads, path'[t] = path[t], depth'[t] = depth[t],
           base'[t] = base[t],
           \/ tx'[t] = tx[t]
           \/ tx[t] = "active" /\ tx'[t] = "aborted"
    PROVE  /\ Held(t)' = Held(t)
           /\ InTx(t)' \subseteq InTx(t)
BY DEF Held, InTx, Positions, xtest

\* An xchg sets the lock word: the transactions that read it are aborted, and
\* if it was free nobody holds the mutex.
LEMMA TakeExcludes ==
    ASSUME NestInv, ExclusionInv, NEW t \in Threads, OwnStep(t),
           tx[t] = "none", tx'[t] = "none",
           NEW w \in Mutexes, Store(t, w, 1),
           \/ Held(t)' \subseteq Held(t)
           \/ mem[w] = 0 /\ Held(t)' \subseteq Held(t) \cup {w}
    PROVE  ExclusionInv'
<1>t. TsxTypeOK /\ w \in Loc
  BY NestedAssumption DEF NestInv, TypeOK
<1>1. /\ mem'[w] = 1 /\ wset' = wset
      /\ \A k \in Loc \ {w} : mem'[k] = mem[k]
      /\ \A u \in Threads \ {t} : w \in rset[u] => tx'[u] # "active"
  BY <1>t, StoreEffect DEF xtest
<1>m. \A u \in Threads : Held(u) \subseteq Loc /\ InTx(u) \subseteq Loc
  BY HeldMutexes, NestedAssumption
<1>2. ASSUME NEW u \in Threads PROVE ReadsInv(u)'
  <2>1. CASE u = t
    BY <1>1, <2>1 DEF ExclusionInv, ReadsInv, InTx, xtest
  <2>2. CASE u # t
    <3>1. ReadsInv(u)
      BY DEF ExclusionInv
    <3>2. ASSUME NEW k \in InTx(u)' PROVE k \in rset'[u] /\ mem'[k] = 0
      <4>1. k \in InTx(u) /\ tx'[u] = "active" /\ rset'[u] = rset[u]
        BY <2>2, <3>2, HeldOfOthers
      <4>2. k \in rset[u] /\ mem[k] = 0
        BY <3>1, <4>1 DEF ReadsInv
      <4>3. k # w
        BY <1>1, <2>2, <4>1, <4>2
      <4> QED
        BY <1>1, <1>m, <4>1, <4>2, <4>3
    <3> QED
      BY <1>1, <3>1, <3>2 DEF ReadsInv
  <2> QED
    BY <2>1, <2>2
<1>3. \A u \in Threads \ {t} : Held(u)' = Held(u)
  BY HeldOfOthers
<1>4. ASSUME NEW u \in Threads, NEW k \in Held(u)' PROVE mem'[k] = 1
  <2>1. k = w \/ k \in Held(u)
    BY <1>3
  <2> QED
    BY <1>1, <1>m, <2>1 DEF ExclusionInv, HeldIsMarked
<1>5. ASSUME NEW u \in Threads, u # t PROVE Held(t)' \cap Held(u) = {}
  <2>1. Held(t) \cap Held(u) = {}
    BY <1>5 DEF ExclusionInv
  <2>2. mem[w] = 0 => w \notin Held(u)
    BY DEF ExclusionInv, HeldIsMarked
  <2> QED
    BY <2>1, <2>2
<1>6. \A u, v \in Threads : u # v => Held(u)' \cap Held(v)' = {}
  BY <1>3, <1>5 DEF ExclusionInv
<1> QED
  BY <1>2, <1>4, <1>6 DEF ExclusionInv, HeldIsMarked

\* A release clears the lock word of a mutex that only t held.
LEMMA ReleaseExcludes ==
    ASSUME NestInv, ExclusionInv, NEW t \in Threads, OwnStep(t),
           tx[t] = "none", tx'[t] = "none",
           NEW w \in Held(t), Store(t, w, 0),
           Held(t)' \subseteq Held(t) \ {w}
    PROVE  ExclusionInv'
<1>t. TsxTypeOK /\ w \in Loc
  BY HeldMutexes, NestedAssumption DEF NestInv, TypeOK
<1>1. /\ mem'[w] = 0 /\ wset' = wset
      /\ \A k \in Loc \ {w} : mem'[k] = mem[k]
  BY <1>t, StoreEffect DEF xtest
<1>m. \A u \in Threads : Held(u) \subseteq Loc /\ InTx(u) \subseteq Loc
  BY HeldMutexes, NestedAssumption
<1>2. ASSUME NEW u \in Threads PROVE ReadsInv(u)'
  <2>1. CASE u = t
    BY <1>1, <2>1 DEF ExclusionInv, ReadsInv, InTx, xtest
  <2>2. CASE u # t
    <3>1. ReadsInv(u)
      BY DEF ExclusionInv
    <3> QED
      BY <1>1, <1>m, <2>2, <3>1, HeldOfOthers DEF ReadsInv
  <2> QED
    BY <2>1, <2>2
<1>3. ASSUME NEW u \in Threads PROVE Held(u)' \subseteq Held(u) \ {w}
  <2>1. CASE u # t
    <3>1. w \notin Held(u)
      BY <2>1 DEF ExclusionInv
    <3> QED
      BY <2>1, <3>1, HeldOfOthers
  <2> QED
    BY <2>1
<1>4. HeldIsMarked'
  BY <1>1, <1>m, <1>3 DEF ExclusionInv, HeldIsMarked
<1>5. \A u, v \in Threads : u # v => Held(u)' \cap Held(v)' = {}
  BY <1>3 DEF ExclusionInv
<1> QED
  BY <1>2, <1>4, <1>5 DEF ExclusionInv

\* Acquires keep the exclusion if a nested one reports what it read.
LEMMA AcquireExcludes ==
    ASSUME ~SmartAll, NestInv, ExclusionInv, NEW t \in Threads,
           ib_mutex_test_and_set(t)
    PROVE  ExclusionInv'
<1> DEFINE w == Wanted(t)
<1>t. /\ TypeOK /\ TsxTypeOK /\ ProgramTypeOK /\ StackInv(t)
      /\ tx[t] \in {"none", "active", "aborted"}
      /\ Len(path[t]) \in Nat /\ depth[t] \in Nat /\ base[t] \in Nat
  BY PathFacts DEF NestInv, TypeOK, TsxTypeOK, ProgramTypeOK
<1>o. OwnStep(t)
  BY AcquireStack
<1>w. pc[t] \in {"enter", "retake"} => w \in Mutexes /\ w \in Loc /\ w # Word
  BY MutexToUse, NestedAssumption
<1>r. ReadsInv(t)
  BY DEF ExclusionInv
<1>1. CASE elide(t)
  <2>1. /\ pc[t] = "enter" /\ tx[t] = "none" /\ path' = path
        /\ Begin(t, {w}) /\ Enter(t, mem[w])
        /\ base' = [base EXCEPT ![t] = depth[t]]
    BY <1>1, <1>t DEF elide, At, xtest
  <2>2. /\ mem' = mem /\ tx'[t] = "active" /\ rset'[t] = {w} /\ wset' = wset
    <3>1. {w} \in SUBSET Loc
      BY <1>w, <2>1
    <3> QED
      BY <1>t, <2>1, <3>1, BeginEffect
  <2>3. base'[t] = depth[t]
    BY <1>t, <2>1 DEF ProgramTypeOK
  <2>4. depth'[t] = IF mem[w] = 0 THEN depth[t] + 1 ELSE depth[t]
    BY <2>1, EnterEffect
  <2>5. Held(t)' = Held(t)
    BY <2>1, <2>2, <2>3 DEF Held, Positions
  <2>6. InTx(t)' = IF mem[w] = 0 THEN {w} ELSE {}
    <3>1. base'[t] + 1 .. depth'[t] = IF mem[w] = 0 THEN {depth[t] + 1} ELSE {}
      <4>1. CASE mem[w] = 0
        BY <1>t, <2>3, <2>4, <4>1
      <4>2. CASE mem[w] # 0
        BY <1>t, <2>3, <2>4, <4>2
      <4> QED
        BY <4>1, <4>2
    <3>2. InTx(t)' = {path[t][k] : k \in base'[t] + 1 .. depth'[t]}
      BY <2>1, <2>2 DEF InTx, Positions, xtest
    <3> QED
      BY <3>1, <3>2 DEF Wanted
  <2> HIDE DEF w
  <2>7. ReadsInv(t)'
    BY <1>r, <2>2, <2>6 DEF ReadsInv
  <2> QED
    BY <1>o, <2>2, <2>5, <2>7, KeepsLockWords
<1>2. CASE take(t)
  <2>1. /\ pc[t] \in {"enter", "retake"} /\ tx[t] = "none" /\ path' = path
        /\ Store(t, w, 1) /\ Enter(t, mem[w])
    BY <1>2, <1>t DEF take, At, xtest
  <2>2. tx'[t] = "none"
    BY <1>t, <1>w, <2>1, AccessKeepsOthers
  <2>3. depth'[t] = IF mem[w] = 0 THEN depth[t] + 1 ELSE depth[t]
    BY <2>1, EnterEffect
  <2>4. Held(t) = Positions(t, 0, depth[t])
    BY <2>1 DEF Held
  <2>5. CASE mem[w] = 0
    <3>1. Positions(t, 0, depth[t] + 1) = Held(t) \cup {w}
      <4>1. 0 \in Nat /\ depth[t] \in Nat /\ 0 <= depth[t] /\ TypeOK
        BY <1>t
      <4> QED
        BY <2>4, <4>1, PositionsUp DEF Wanted
    <3>2. Held(t)' = Positions(t, 0, depth[t] + 1)
      BY <2>1, <2>2, <2>3, <2>5 DEF Held, Positions
    <3> QED
      BY <1>o, <1>w, <2>1, <2>2, <2>5, <3>1, <3>2, TakeExcludes
  <2>6. CASE mem[w] # 0
    <3>1. Held(t)' = Held(t)
      BY <2>1, <2>2, <2>3, <2>6 DEF Held, Positions
    <3> QED
      BY <1>o, <1>w, <2>1, <2>2, <3>1, TakeExcludes
  <2> QED
    BY <2>5, <2>6
<1>3. CASE nested(t)
  <2>1. /\ pc[t] = "enter" /\ tx[t] = "active" /\ path' = path /\ base' = base
        /\ Load(t, w) /\ Enter(t, Reported(t))
    BY <1>3 DEF nested, At, xtest
  <2>2. Reported(t) = mem[w]
    BY <1>r, <1>w, <2>1 DEF Reported, Sees, ReadsInv
  <2>3. /\ mem' = mem /\ wset' = wset /\ rset[t] \subseteq rset'[t]
        /\ w \in rset'[t] /\ tx'[t] = "active"
    BY <1>t, <1>w, <2>1, LoadEffect, AccessKeepsOthers DEF xtest
  <2>4. depth'[t] = IF mem[w] = 0 THEN depth[t] + 1 ELSE depth[t]
    BY <2>1, <2>2, EnterEffect
  <2>5. Held(t)' = Held(t)
    BY <2>1, <2>3 DEF Held, Positions
  <2>6. InTx(t)' = IF mem[w] = 0 THEN InTx(t) \cup {w} ELSE InTx(t)
    <3>1. InTx(t) = Positions(t, base[t], depth[t])
      BY <2>1 DEF InTx, xtest
    <3>2. InTx(t)' = {path[t][k] : k \in base[t] + 1 .. depth'[t]}
      BY <2>1, <2>3 DEF InTx, Positions, xtest
    <3>3. CASE mem[w] = 0
      <4>1. base[t] \in Nat /\ depth[t] \in Nat /\ base[t] <= depth[t] /\ TypeOK
        BY <1>t, <2>1 DEF StackInv, Reach
      <4>2. Positions(t, base[t], depth[t] + 1) = InTx(t) \cup {w}
        BY <3>1, <4>1, PositionsUp DEF Wanted
      <4> QED
        BY <2>4, <3>2, <3>3, <4>2 DEF Positions
    <3>4. CASE mem[w] # 0
      BY <2>4, <3>1, <3>2, <3>4 DEF Positions
    <3> QED
      BY <3>3, <3>4
  <2> HIDE DEF w
  <2>7. ReadsInv(t)'
    BY <1>r, <2>3, <2>6 DEF ReadsInv
  <2> QED
    BY <1>o, <2>3, <2>5, <2>7, KeepsLockWords
<1> QED
  BY <1>1, <1>2, <1>3 DEF ib_mutex_test_and_set

\* The steps between the acquires and the releases write no lock word.
LEMMA OtherExcludes ==
    ASSUME ~SmartAll, NestInv, ExclusionInv, NEW t \in Threads,
           \/ begin_op(t) \/ mutex_spin_wait(t) \/ load(t) \/ store(t)
           \/ rollback(t) \/ ProcessorAbort(t)
    PROVE  ExclusionInv'
<1>t. /\ TypeOK /\ TsxTypeOK /\ ProgramTypeOK /\ StackInv(t)
      /\ tx[t] \in {"none", "active", "aborted"}
      /\ Len(path[t]) \in Nat /\ depth[t] \in Nat /\ base[t] \in Nat
      /\ Word \in Loc /\ \A m \in Mutexes : m \in Loc /\ m # Word
  BY PathFacts, NestedAssumption DEF NestInv, TypeOK, TsxTypeOK, ProgramTypeOK
<1>o. OwnStep(t)
  BY OtherStack
<1>r. ReadsInv(t)
  BY DEF ExclusionInv
<1>a. ASSUME tx[t] = "active", NEW status, Abort({t}, status),
             UNCHANGED <<mem, rset, wset, wbuf, pc, progVars>>
      PROVE  ExclusionInv'
  <2>1. tx'[t] = "aborted" /\ wset' = wset /\ mem' = mem
    BY <1>t, <1>a, SelfAbortEffect
  <2>2. Held(t)' = Held(t)
    BY <1>a, <2>1, SamePlaces DEF progVars
  <2>3. ReadsInv(t)'
    BY <1>r, <2>1 DEF ReadsInv, InTx, xtest
  <2> QED
    BY <1>o, <2>1, <2>2, <2>3, KeepsLockWords
<1>1. CASE begin_op(t)
  <2>1. pc[t] = "idle" /\ depth' = depth /\ UNCHANGED txVars
    BY <1>1 DEF begin_op, At
  <2>2. tx[t] = "none" /\ depth[t] = 0
    <3>1. Len(path[t]) = 0
      BY <1>t, <2>1, PathFacts DEF StackInv
    <3> QED
      BY <1>t, <2>1, <3>1 DEF StackInv
  <2>3. mem' = mem /\ tx'[t] = "none" /\ wset' = wset
    BY <2>1, <2>2 DEF txVars
  <2>4. Held(t)' = {}
    BY <2>1, <2>2, <2>3 DEF Held, Positions
  <2>5. ReadsInv(t)'
    BY <1>r, <2>3 DEF ReadsInv, InTx, xtest
  <2> QED
    BY <1>o, <2>3, <2>4, <2>5, KeepsLockWords
<1>2. ASSUME tx[t] # "aborted", NEW l \in Loc,
             Load(t, l) \/ \E v \in Int : l = Word /\ Store(t, l, v),
             UNCHANGED <<path, depth, base>>
      PROVE  ExclusionInv'
  <2>1. /\ tx'[t] = tx[t] /\ \A m \in Mutexes : mem'[m] = mem[m]
        /\ rset[t] \subseteq rset'[t] /\ wset'[t] \subseteq wset[t] \cup {Word}
    <3>1. CASE Load(t, l)
      BY <1>t, <1>2, <3>1, LoadEffect, AccessKeepsOthers
    <3>2. ASSUME NEW v \in Int, Store(t, Word, v)
          PROVE  /\ tx'[t] = tx[t] /\ \A m \in Mutexes : mem'[m] = mem[m]
                 /\ rset[t] \subseteq rset'[t]
                 /\ wset'[t] \subseteq wset[t] \cup {Word}
      BY <1>t, <3>2, StoreEffect, AccessKeepsOthers
    <3> QED
      BY <1>2, <3>1, <3>2
  <2>2. Held(t)' = Held(t) /\ InTx(t)' \subseteq InTx(t)
    BY <1>2, <2>1, SamePlaces
  <2>3. ReadsInv(t)'
    BY <1>r, <2>1, <2>2, HeldMutexes DEF ReadsInv
  <2> QED
    BY <1>o, <2>1, <2>2, <2>3, KeepsLockWords
<1>3. CASE mutex_spin_wait(t)
  <2>1. CASE xtest(t)
    BY <1>3, <1>a, <2>1 DEF mutex_spin_wait, xtest
  <2>2. CASE ~xtest(t)
    <3>1. /\ tx[t] # "aborted" /\ pc[t] = "spin" /\ Load(t, Wanted(t))
          /\ UNCHANGED <<path, depth, base>>
      BY <1>3, <2>2 DEF mutex_spin_wait, At, progVars
    <3>2. Wanted(t) \in Loc
      BY <3>1, MutexToUse
    <3> QED
      BY <1>2, <3>1, <3>2
  <2> QED
    BY <2>1, <2>2
<1>4. CASE load(t)
  BY <1>t, <1>2, <1>4 DEF load, At
<1>5. CASE store(t)
  <2>1. reg[t] + 1 \in Int /\ UNCHANGED <<path, depth, base>>
    BY <1>t, <1>5 DEF store, progVars, ProgramTypeOK
  <2> QED
    BY <1>t, <1>2, <1>5, <2>1 DEF store, At
<1>6. CASE rollback(t)
  <2>1. /\ tx[t] = "aborted" /\ Discard(t) /\ mem' = mem /\ path' = path
        /\ depth' = [depth EXCEPT ![t] = base[t]]
    BY <1>6 DEF rollback, Rollback, ResumeDepth
  <2>2. tx'[t] = "none" /\ wset'[t] = {} /\ depth'[t] = base[t]
    BY <1>t, <2>1, DiscardEffect DEF ProgramTypeOK
  <2>3. Held(t)' = Held(t)
    BY <2>1, <2>2 DEF Held, Positions
  <2>4. ReadsInv(t)'
    BY <2>2 DEF ReadsInv, InTx, xtest
  <2> QED
    BY <1>o, <2>1, <2>3, <2>4, KeepsLockWords
<1>7. CASE ProcessorAbort(t)
  BY <1>a, <1>7 DEF ProcessorAbort, HardwareAbort, xtest
<1> QED
  BY <1>1, <1>3, <1>4, <1>5, <1>6, <1>7

\* A commit writes no lock word, and a store releases a mutex t held.
LEMMA ExitExcludes ==
    ASSUME ~SmartAll, NestInv, ExclusionInv, NEW t \in Threads,
           mutex_exit_func(t)
    PROVE  ExclusionInv'
<1> DEFINE m == Innermost(t)
<1>t. /\ TypeOK /\ TsxTypeOK /\ ProgramTypeOK /\ StackInv(t)
      /\ Len(path[t]) \in Nat /\ depth[t] \in Nat /\ base[t] \in Nat
      /\ \A k \in Mutexes : k \in Loc /\ k # Word
  BY PathFacts, NestedAssumption DEF NestInv, TypeOK, ProgramTypeOK
<1>o. OwnStep(t)
  BY ExitStack
<1>r. ReadsInv(t)
  BY DEF ExclusionInv
<1>1. /\ pc[t] = "exit"
      /\ depth'[t] = depth[t] - 1
      /\ tx'[t] # "none" => base'[t] = base[t]
      /\ depth[t] # 1 => path'[t] = path[t]
      /\ depth[t] > 0 /\ depth[t] <= Len(path[t])
  BY <1>t DEF mutex_exit_func, At, StackInv, ProgramTypeOK
<1>m. m \in Mutexes /\ m \in Loc /\ 0 \in Int
  BY <1>1, MutexToUse
<1>p. {path'[t][k] : k \in 0 + 1 .. depth[t] - 1} = Positions(t, 0, depth[t] - 1)
  <2>1. CASE depth[t] = 1
    <3>1. 0 + 1 .. depth[t] - 1 = {}
      BY <2>1
    <3> QED
      BY <3>1 DEF Positions
  <2>2. CASE depth[t] # 1
    BY <1>1, <2>2 DEF Positions
  <2> QED
    BY <2>1, <2>2
<1>q. tx'[t] = "none" => Held(t)' = Positions(t, 0, depth[t] - 1)
  BY <1>1, <1>p DEF Held, Positions
<1>2. CASE tx[t] = "active" /\ base[t] + 1 = depth[t] /\ Commit(t)
  <2>1. tx'[t] = "none" /\ wset'[t] = {}
    BY <1>t, <1>2, DiscardEffect DEF Commit
  <2>2. \A k \in Mutexes : mem'[k] = mem[k]
    BY <1>t, <1>r, <1>2 DEF Commit, ReadsInv
  <2>3. Held(t)' = Held(t)
    <3>1. depth[t] - 1 = base[t]
      BY <1>t, <1>2
    <3> QED
      BY <1>q, <1>2, <2>1, <3>1 DEF Held
  <2>4. ReadsInv(t)'
    BY <2>1 DEF ReadsInv, InTx, xtest
  <2> QED
    BY <1>o, <2>2, <2>3, <2>4, KeepsLockWords
<1>3. CASE tx[t] = "active" /\ base[t] + 1 < depth[t] /\ UNCHANGED txVars
  <2>1. /\ mem' = mem /\ tx' = tx /\ rset' = rset /\ wset' = wset
        /\ base'[t] = base[t] /\ path'[t] = path[t]
    BY <1>t, <1>1, <1>3 DEF txVars
  <2>2. Held(t)' = Held(t)
    BY <1>3, <2>1 DEF Held, Positions
  <2>3. InTx(t)' \subseteq InTx(t)
    <3>1. base[t] + 1 .. depth[t] - 1 \subseteq base[t] + 1 .. depth[t]
      BY <1>t
    <3> QED
      BY <1>1, <1>3, <2>1, <3>1 DEF InTx, Positions, xtest
  <2>4. ReadsInv(t)'
    BY <1>r, <2>1, <2>3 DEF ReadsInv
  <2> QED
    BY <1>o, <2>1, <2>2, <2>4, KeepsLockWords
<1>4. CASE tx[t] = "none" /\ Store(t, m, 0)
  <2>1. tx'[t] = "none"
    BY <1>t, <1>m, <1>4, AccessKeepsOthers
  <2>2. /\ m \in Positions(t, 0, depth[t])
        /\ Positions(t, 0, depth[t] - 1) = Positions(t, 0, depth[t]) \ {m}
    <3>1. 0 \in Nat /\ depth[t] \in Nat /\ 0 < depth[t]
          /\ depth[t] <= Len(path[t]) /\ TypeOK
      BY <1>t, <1>1
    <3> QED
      BY <3>1, PositionsDown DEF Innermost
  <2>3. Held(t) = Positions(t, 0, depth[t])
    BY <1>4 DEF Held
  <2> QED
    BY <1>o, <1>q, <1>4, <2>1, <2>2, <2>3, ReleaseExcludes
<1> QED
  BY <1>2, <1>3, <1>4, ExitFacts

LEMMA ExclusionInvariant == ASSUME ~SmartAll PROVE Spec => []ExclusionInv
<1>1. Init => ExclusionInv
  <2> SUFFICES ASSUME Init PROVE ExclusionInv
    OBVIOUS
  <2>0. 0 + 1 .. 0 = {}
    OBVIOUS
  <2>1. \A t \in Threads : Held(t) = {} /\ InTx(t) = {} /\ wset[t] = {}
    BY <2>0 DEF Init, TsxInit, Held, InTx, Positions, xtest
  <2> QED
    BY <2>1 DEF ExclusionInv, ReadsInv, HeldIsMarked
<1>2. NestInv /\ ExclusionInv /\ [Next]_vars => ExclusionInv'
  <2> SUFFICES ASSUME NestInv, ExclusionInv, [Next]_vars PROVE ExclusionInv'
    OBVIOUS
  <2>1. CASE UNCHANGED vars
    <3>1. /\ mem' = mem /\ tx' = tx /\ rset' = rset /\ wset' = wset
          /\ path' = path /\ depth' = depth /\ base' = base
      BY <2>1 DEF vars, txVars, progVars
    <3>2. \A t \in Threads : Held(t)' = Held(t) /\ InTx(t)' = InTx(t)
      BY <3>1 DEF Held, InTx, Positions, xtest
    <3> QED
      BY <3>1, <3>2 DEF ExclusionInv, ReadsInv, HeldIsMarked
  <2> QED
    BY <2>1, AcquireExcludes, OtherExcludes, ExitExcludes DEF Next, Work
<1> QED
  BY <1>1, <1>2, NestInvariant, PTL DEF Spec

\* In the build that elides nested mutexes, a mutex entered with a real xchg
\* by ib_mutex_test_and_set is entered by nobody else, elided or not, until
\* its mutex_exit_func.
THEOREM HolderIsAlone == ASSUME ~SmartAll PROVE Spec => []HolderExcludes
<1>1. ExclusionInv => HolderExcludes
  <2> SUFFICES ASSUME ExclusionInv, NEW t \in Threads, NEW u \in Threads, t # u
               PROVE  Held(t) \cap (Held(u) \cup InTx(u)) = {}
    BY DEF HolderExcludes
  <2>1. Held(t) \cap Held(u) = {}
    BY DEF ExclusionInv
  <2>2. ASSUME NEW k \in Held(t), k \in InTx(u) PROVE FALSE
    BY <2>2 DEF ExclusionInv, HeldIsMarked, ReadsInv
  <2> QED
    BY <2>1, <2>2
<1> QED
  BY <1>1, ExclusionInvariant, PTL

\* In that build the lock word of a held mutex stays set until its holder
\* exits it: neither the commit of a transaction nor a release by another
\* thread clears it.
THEOREM HolderIsMarked == ASSUME ~SmartAll PROVE Spec => []HeldIsMarked
<1>1. ExclusionInv => HeldIsMarked
  BY DEF ExclusionInv
<1> QED
  BY <1>1, ExclusionInvariant, PTL

-----------------------------------------------------------------------------
(* The updates of Word *)

Last(t) == path[t][Len(path[t])]

\* What a thread in the section of the last mutex knows is still so.
UpdateInv(t) ==
    /\ pc[t] \in {"load", "store"} => depth[t] = Len(path[t])
    /\ pc[t] \in {"load", "store", "exit"} /\ xtest(t)
         => Last(t) \in rset[t] /\ mem[Last(t)] = 0
    /\ pc[t] # "exit" /\ xtest(t) => wset[t] = {}
    /\ pc[t] = "store" /\ tx[t] # "aborted" => reg[t] = mem[Word]
    /\ pc[t] \in {"store", "exit"} /\ xtest(t) => Word \in rset[t]
    /\ pc[t] = "exit" /\ xtest(t)
         => wset[t] = {Word} /\ wbuf[t][Word] = mem[Word] + 1

\* The updates of a thread that are in memory: all but the one under way.
Shown == [t \in Threads |->
            IF pc[t] = "idle" \/ (pc[t] = "exit" /\ tx[t] = "none")
            THEN ops[t] ELSE ops[t] - 1]

CountInv ==
    /\ NoConflict
    /\ \A t \in Threads : UpdateInv(t)
    /\ mem[Word] = SumOver(Shown, Threads)

\* All paths end in the same mutex.
LEMMA SameLast ==
    ASSUME TypeOK, NEW t \in Threads, NEW u \in Threads, path[t] # <<>>, path[u] # <<>>
    PROVE  Last(t) = Last(u) /\ Last(t) \in Mutexes /\ Len(path[t]) \in Nat \ {0}
<1>1. path[t] \in Paths /\ path[u] \in Paths /\ Len(path[t]) \in 1 .. Len(path[t])
      /\ Len(path[t]) \in Nat \ {0}
  BY PathFacts
<1> QED
  BY <1>1, PathFacts, NestedAssumption DEF Last

\* A thread about to store without a transaction holds the last mutex, so that
\* no other thread is about to store and no transaction has stored.
LEMMA AloneAtWord ==
    ASSUME NestInv, ExclusionInv, CountInv, NEW t \in Threads, NEW u \in Threads,
           t # u, pc[t] = "store", tx[t] = "none"
    PROVE  /\ ~(pc[u] = "store" /\ tx[u] = "none")
           /\ ~(pc[u] \in {"load", "store", "exit"} /\ xtest(u))
<1>1. /\ TypeOK /\ path[t] # <<>>
      /\ depth[t] = Len(path[t]) /\ Len(path[t]) \in Nat \ {0}
  BY SameLast DEF NestInv, StackInv, CountInv, UpdateInv
<1>2. Last(t) \in Held(t)
  BY <1>1 DEF Held, Positions, Last
<1>3. mem[Last(t)] = 1
  BY <1>2 DEF ExclusionInv, HeldIsMarked
<1>4. ASSUME pc[u] = "store", tx[u] = "none" PROVE FALSE
  <2>1. /\ path[u] # <<>>
        /\ depth[u] = Len(path[u]) /\ Len(path[u]) \in Nat \ {0}
    BY <1>1, <1>4, SameLast DEF NestInv, StackInv, CountInv, UpdateInv
  <2>2. Last(u) \in Held(u)
    BY <1>4, <2>1 DEF Held, Positions, Last
  <2> QED
    BY <1>1, <1>2, <2>1, <2>2, SameLast DEF ExclusionInv
<1>5. ASSUME pc[u] \in {"load", "store", "exit"}, xtest(u) PROVE FALSE
  <2>1. path[u] # <<>> /\ mem[Last(u)] = 0
    BY <1>5 DEF NestInv, StackInv, CountInv, UpdateInv
  <2> QED
    BY <1>1, <1>3, <2>1, SameLast
<1> QED
  BY <1>4, <1>5

\* What a step of t leaves of the rest.
LEMMA CountFrame ==
    ASSUME NestInv, ExclusionInv, CountInv, TypeOK', NEW t \in Threads, OwnStep(t),
           \A u \in Threads \ {t} : reg'[u] = reg[u] /\ ops'[u] = ops[u],
           NoConflict', ReadsKept(t), UpdateInv(t)',
           \/ mem'[Word] = mem[Word] /\ Shown'[t] = Shown[t]
           \/ /\ mem'[Word] = mem[Word] + 1 /\ Shown'[t] = Shown[t] + 1
              /\ \A u \in Threads \ {t} : ~(pc[u] = "store" /\ tx[u] = "none")
    PROVE  CountInv'
<1>1. ASSUME NEW u \in Threads \ {t} PROVE UpdateInv(u)'
  <2>1. /\ UpdateInv(u) /\ tx[u] \in {"none", "active", "aborted"}
    BY DEF CountInv, NestInv, TypeOK, TsxTypeOK
  <2>2. /\ pc'[u] = pc[u] /\ path'[u] = path[u] /\ depth'[u] = depth[u]
        /\ reg'[u] = reg[u] /\ rset'[u] = rset[u] /\ wset'[u] = wset[u]
        /\ wbuf'[u] = wbuf[u]
        /\ tx'[u] = tx[u] \/ tx'[u] = "aborted"
        /\ Last(u)' = Last(u)
    BY DEF OwnStep, OthersKept, Last
  <2>3. xtest(u)' => xtest(u) /\ \A w \in rset[u] : mem'[w] = mem[w]
    BY <2>2 DEF ReadsKept, xtest
  <2>4. pc[u] = "store" /\ tx[u] = "none" => mem'[Word] = mem[Word]
    OBVIOUS
  <2>5. pc[u] = "store" /\ tx'[u] # "aborted" => reg'[u] = mem'[Word]
    BY <2>1, <2>2, <2>3, <2>4 DEF UpdateInv, xtest
  <2> QED
    BY <2>1, <2>2, <2>3, <2>5 DEF UpdateInv
<1>2. \A u \in Threads \ {t} : Shown'[u] = Shown[u]
  BY DEF Shown, OwnStep, OthersKept
<1>f. IsFiniteSet(Threads)
  BY NestedAssumption
<1>o. \A u \in Threads : ops[u] \in Int
  BY DEF CountInv, NestInv, TypeOK
<1>i. \A u \in Threads : Shown[u] \in Int
  BY <1>o DEF Shown
<1>3. IsFiniteSet(Threads) /\ \A u \in Threads : Shown[u] \in Int
  BY <1>f, <1>i
<1>4. mem'[Word] = SumOver(Shown', Threads)
  <2>1. CASE mem'[Word] = mem[Word] /\ Shown'[t] = Shown[t]
    <3>1. SumOver(Shown', Threads) = SumOver(Shown, Threads)
      BY <1>2, <1>3, <2>1, SumSame
    <3> QED
      BY <2>1, <3>1 DEF CountInv
  <2>2. CASE mem'[Word] = mem[Word] + 1 /\ Shown'[t] = Shown[t] + 1
    <3>1. \A u \in Threads : Shown'[u] = IF u = t THEN Shown[u] + 1 ELSE Shown[u]
      BY <1>2, <2>2
    <3>2. SumOver(Shown', Threads) = SumOver(Shown, Threads) + 1
      BY <1>3, <3>1, SumGrows
    <3> QED
      BY <2>2, <3>2 DEF CountInv
  <2> QED
    BY <2>1, <2>2
<1> QED
  BY <1>1, <1>4 DEF CountInv

\* Memory as it was: nobody loses what it has read.
LEMMA SameMemory ==
    ASSUME NEW t \in Threads, mem' = mem
    PROVE  ReadsKept(t) /\ mem'[Word] = mem[Word]
BY DEF ReadsKept

\* A test-and-set: in a transaction the last mutex is then in the read set.
LEMMA AcquireCount ==
    ASSUME ~SmartAll, NestInv, ExclusionInv, CountInv, NEW t \in Threads,
           ib_mutex_test_and_set(t)
    PROVE  CountInv'
<1> DEFINE w == Wanted(t)
<1>t. /\ TypeOK /\ TsxTypeOK /\ ProgramTypeOK /\ StackInv(t) /\ NoConflict
      /\ UpdateInv(t) /\ tx[t] \in {"none", "active", "aborted"}
      /\ Word \in Loc /\ \A m \in Mutexes : m \in Loc /\ m # Word
  BY PathFacts, NestedAssumption
     DEF NestInv, TypeOK, TsxTypeOK, ProgramTypeOK, CountInv
<1>1. /\ NestInv' /\ OwnStep(t) /\ ExclusionInv'
      /\ TypeOK' /\ StackInv(t)' /\ ReadsInv(t)'
  BY AcquireStack, AcquireExcludes DEF NestInv, ExclusionInv
<1>2. /\ pc[t] \in {"enter", "retake"} /\ tx[t] # "aborted"
      /\ ops' = ops /\ reg' = reg /\ path' = path
  BY DEF ib_mutex_test_and_set, elide, take, nested, At
<1>3. w \in Mutexes /\ w \in Loc
  BY <1>2, MutexToUse
<1>4. PICK v : Enter(t, v)
  BY DEF ib_mutex_test_and_set, elide, take, nested
<1>5. /\ pc'[t] \in {"load", "enter", "spin"}
      /\ pc'[t] = "load" => depth'[t] = Len(path'[t])
  BY <1>t, <1>2, <1>4 DEF Enter, Goto, ProgramTypeOK
<1>6. Shown'[t] = Shown[t]
  BY <1>2, <1>5 DEF Shown
<1>7. pc'[t] = "load" /\ xtest(t)' => Last(t)' \in rset'[t] /\ mem'[Last(t)'] = 0
  <2> SUFFICES ASSUME pc'[t] = "load", xtest(t)'
               PROVE  Last(t)' \in rset'[t] /\ mem'[Last(t)'] = 0
    OBVIOUS
  <2>1. base'[t] < depth'[t] /\ depth'[t] = Len(path'[t])
    BY <1>1, <1>5 DEF StackInv, Reach, xtest
  <2>2. base'[t] \in Nat /\ depth'[t] \in Nat
    BY <1>1 DEF TypeOK
  <2>3. depth'[t] \in base'[t] + 1 .. depth'[t]
    BY <2>1, <2>2
  <2>4. path'[t][depth'[t]] \in InTx(t)'
    BY <2>3 DEF InTx, Positions
  <2> QED
    BY <1>1, <2>1, <2>4 DEF ReadsInv, Last
<1>8. /\ NoConflict' /\ ReadsKept(t) /\ mem'[Word] = mem[Word]
      /\ xtest(t)' => wset'[t] = {}
  <2>1. CASE elide(t)
    <3>1. Begin(t, {w}) /\ tx[t] = "none" /\ wset[t] = {} /\ {w} \in SUBSET Loc
      BY <1>t, <1>2, <1>3, <2>1 DEF elide, xtest, StackInv
    <3> HIDE DEF w
    <3> QED
      BY <1>t, <3>1, BeginEffect, BeginConflict, SameMemory
  <2>2. CASE take(t)
    <3>1. Store(t, w, 1) /\ tx[t] = "none" /\ wset[t] = {}
      BY <1>t, <1>2, <2>2 DEF take, xtest, StackInv
    <3> HIDE DEF w
    <3>2. wset' = wset /\ mem'[Word] = mem[Word]
      BY <1>t, <1>3, <3>1, StoreEffect DEF xtest
    <3> QED
      BY <1>t, <1>3, <3>1, <3>2, StoreConflict, StoreKeepsReads
  <2>3. CASE nested(t)
    <3>1. Load(t, w) /\ xtest(t) /\ wset[t] = {}
      BY <1>t, <1>2, <2>3 DEF nested, UpdateInv
    <3> HIDE DEF w
    <3> QED
      BY <1>t, <1>3, <3>1, LoadEffect, LoadConflict, SameMemory
  <2> QED
    BY <2>1, <2>2, <2>3 DEF ib_mutex_test_and_set
<1>9. UpdateInv(t)'
  BY <1>5, <1>7, <1>8 DEF UpdateInv
<1> QED
  BY <1>1, <1>2, <1>6, <1>8, <1>9, CountFrame

\* Steps that do not touch Word or end a transaction before it is committed.
LEMMA QuietCount ==
    ASSUME ~SmartAll, NestInv, ExclusionInv, CountInv, NEW t \in Threads,
           begin_op(t) \/ mutex_spin_wait(t) \/ rollback(t) \/ ProcessorAbort(t)
    PROVE  CountInv'
<1>t. /\ TypeOK /\ TsxTypeOK /\ ProgramTypeOK /\ StackInv(t) /\ NoConflict
      /\ UpdateInv(t) /\ tx[t] \in {"none", "active", "aborted"} /\ Word \in Loc
  BY PathFacts DEF NestInv, TypeOK, TsxTypeOK, ProgramTypeOK, CountInv
<1>1. OwnStep(t) /\ TypeOK'
  BY OtherStack DEF NestInv
<1>2. CASE begin_op(t)
  <2>1. /\ pc[t] = "idle" /\ tx[t] = "none" /\ pc'[t] = "enter"
        /\ UNCHANGED <<mem, tx, rset, wset>> /\ reg' = reg
        /\ ops'[t] = ops[t] + 1 /\ ops[t] \in Nat
        /\ \A u \in Threads \ {t} : ops'[u] = ops[u]
    BY <1>t, <1>2 DEF begin_op, At, Goto, txVars, StackInv, ProgramTypeOK
  <2>2. Shown'[t] = Shown[t]
    BY <2>1 DEF Shown
  <2>3. NoConflict'
    BY <1>t, <2>1 DEF NoConflict, xtest
  <2>4. UpdateInv(t)'
    BY <2>1 DEF UpdateInv, xtest
  <2> QED
    BY <1>1, <2>1, <2>2, <2>3, <2>4, SameMemory, CountFrame
<1>a. ASSUME tx[t] = "active", NEW status, Abort({t}, status),
             UNCHANGED <<mem, rset, wset, wbuf, pc, progVars>>
      PROVE  CountInv'
  <2>1. OthersKept(t) /\ tx'[t] = "aborted" /\ reg' = reg /\ ops' = ops /\ depth' = depth
        /\ path' = path
    BY <1>t, <1>a, SelfAbortEffect DEF progVars
  <2>2. Shown'[t] = Shown[t]
    BY <1>a, <1>t, <2>1 DEF Shown, StackInv
  <2>3. NoConflict'
    BY <1>t, <2>1, EndConflict
  <2>4. UpdateInv(t)'
    BY <1>t, <1>a, <2>1 DEF UpdateInv, xtest
  <2> QED
    BY <1>1, <1>a, <2>1, <2>2, <2>3, <2>4, SameMemory, CountFrame
<1>3. CASE ProcessorAbort(t)
  BY <1>3, <1>a DEF ProcessorAbort, HardwareAbort, xtest
<1>4. CASE mutex_spin_wait(t) /\ xtest(t)
  BY <1>4, <1>a DEF mutex_spin_wait, xtest
<1>5. CASE mutex_spin_wait(t) /\ ~xtest(t)
  <2>1. /\ pc[t] = "spin" /\ tx[t] = "none" /\ Load(t, Wanted(t))
        /\ pc'[t] = "enter" /\ reg' = reg /\ ops' = ops
    BY <1>t, <1>5 DEF mutex_spin_wait, At, Goto, progVars, xtest, ProgramTypeOK
  <2>2. Wanted(t) \in Loc
    BY <2>1, MutexToUse
  <2>3. mem' = mem /\ tx'[t] = "none" /\ NoConflict'
    BY <1>t, <2>1, <2>2, LoadEffect, LoadConflict, AccessKeepsOthers
  <2>4. Shown'[t] = Shown[t]
    BY <2>1 DEF Shown
  <2>5. UpdateInv(t)'
    BY <2>1, <2>3 DEF UpdateInv, xtest
  <2> QED
    BY <1>1, <2>1, <2>3, <2>4, <2>5, SameMemory, CountFrame
<1>6. CASE rollback(t)
  <2>1. /\ tx[t] = "aborted" /\ Discard(t) /\ mem' = mem /\ pc'[t] = "retake"
        /\ ops' = ops /\ \A u \in Threads \ {t} : reg'[u] = reg[u]
    BY <1>t, <1>6 DEF rollback, Rollback, Goto, ProgramTypeOK
  <2>2. OthersKept(t) /\ tx'[t] = "none"
    BY <1>t, <2>1, DiscardEffect
  <2>3. Shown'[t] = Shown[t]
    BY <1>t, <2>1 DEF Shown, StackInv
  <2>4. NoConflict'
    BY <1>t, <2>2, EndConflict
  <2>5. UpdateInv(t)'
    BY <2>1, <2>2 DEF UpdateInv, xtest
  <2> QED
    BY <1>1, <2>1, <2>3, <2>4, <2>5, SameMemory, CountFrame
<1> QED
  BY <1>2, <1>3, <1>4, <1>5, <1>6

\* The load and the store of Word.
LEMMA WordCount ==
    ASSUME ~SmartAll, NestInv, ExclusionInv, CountInv, NEW t \in Threads,
           load(t) \/ store(t)
    PROVE  CountInv'
<1>t. /\ TypeOK /\ TsxTypeOK /\ ProgramTypeOK /\ StackInv(t) /\ NoConflict
      /\ UpdateInv(t) /\ tx[t] \in {"none", "active", "aborted"} /\ Word \in Loc
  BY PathFacts DEF NestInv, TypeOK, TsxTypeOK, ProgramTypeOK, CountInv
<1>1. OwnStep(t) /\ TypeOK'
  BY OtherStack DEF NestInv
<1>p. /\ path' = path /\ depth' = depth /\ ops' = ops
      /\ \A u \in Threads \ {t} : reg'[u] = reg[u]
  BY <1>t DEF load, store, progVars, ProgramTypeOK
<1>l. Last(t)' = Last(t) /\ Last(t) # Word /\ Last(t) \in Loc /\ mem[Word] \in Int
  <2>1. path[t] # <<>>
    BY <1>t DEF load, store, At, StackInv
  <2> QED
    BY <1>t, <1>p, <2>1, SameLast, NestedAssumption DEF Last, TsxTypeOK
<1>2. CASE load(t)
  <2>1. /\ pc[t] = "load" /\ tx[t] # "aborted" /\ pc'[t] = "store" /\ Load(t, Word)
        /\ reg'[t] = Sees(t, Word)
    BY <1>t, <1>2 DEF load, At, Goto, ProgramTypeOK
  <2>2. /\ mem' = mem /\ tx'[t] = tx[t] /\ NoConflict' /\ wset' = wset
        /\ rset[t] \subseteq rset'[t]
        /\ xtest(t) => Word \in rset'[t]
    BY <1>t, <2>1, LoadEffect, LoadConflict, AccessKeepsOthers
  <2>3. Sees(t, Word) = mem[Word]
    BY <1>t, <2>1 DEF UpdateInv, Sees
  <2>4. UpdateInv(t)'
    BY <1>t, <1>p, <1>l, <2>1, <2>2, <2>3 DEF UpdateInv, xtest
  <2>5. Shown'[t] = Shown[t]
    BY <1>p, <2>1 DEF Shown
  <2> QED
    BY <1>1, <1>p, <2>2, <2>4, <2>5, SameMemory, CountFrame
<1>3. CASE store(t)
  <2>1. /\ pc[t] = "store" /\ tx[t] # "aborted" /\ pc'[t] = "exit"
        /\ Store(t, Word, mem[Word] + 1) /\ mem[Word] + 1 \in Int
    BY <1>t, <1>l, <1>3 DEF store, At, Goto, ProgramTypeOK, UpdateInv
  <2>2. /\ NoConflict' /\ ReadsKept(t) /\ tx'[t] = tx[t] /\ rset' = rset
        /\ \A k \in Loc \ {Word} : mem'[k] = mem[k]
        /\ ~xtest(t) => mem'[Word] = mem[Word] + 1
    BY <1>t, <2>1, StoreEffect, StoreConflict, StoreKeepsReads, AccessKeepsOthers
  <2>3. CASE xtest(t)
    <3>1. mem' = mem /\ wset'[t] = {Word} /\ wbuf'[t][Word] = mem[Word] + 1
      BY <1>t, <2>1, <2>3 DEF Store, UpdateInv, TsxTypeOK
    <3>2. UpdateInv(t)'
      BY <1>t, <1>l, <2>1, <2>2, <2>3, <3>1 DEF UpdateInv
    <3>3. Shown'[t] = Shown[t]
      BY <1>p, <2>1, <2>2, <2>3 DEF Shown, xtest
    <3> QED
      BY <1>1, <1>p, <2>2, <3>1, <3>2, <3>3, CountFrame
  <2>4. CASE ~xtest(t)
    <3>1. tx[t] = "none"
      BY <1>t, <2>1, <2>4 DEF xtest
    <3>2. UpdateInv(t)'
      BY <2>1, <2>2, <3>1 DEF UpdateInv, xtest
    <3>3. Shown'[t] = Shown[t] + 1
      <4>1. ops[t] \in Int
        BY <1>t DEF ProgramTypeOK
      <4> QED
        BY <1>p, <2>1, <2>2, <3>1, <4>1 DEF Shown
    <3>4. \A u \in Threads \ {t} : ~(pc[u] = "store" /\ tx[u] = "none")
      BY <2>1, <3>1, AloneAtWord
    <3> QED
      BY <1>1, <1>p, <2>2, <2>4, <3>2, <3>3, <3>4, CountFrame
  <2> QED
    BY <2>3, <2>4
<1> QED
  BY <1>2, <1>3

\* mutex_exit_func: the commit brings the update into memory.
LEMMA ExitCount ==
    ASSUME ~SmartAll, NestInv, ExclusionInv, CountInv, NEW t \in Threads,
           mutex_exit_func(t)
    PROVE  CountInv'
<1> DEFINE m == Innermost(t)
<1>t. /\ TypeOK /\ TsxTypeOK /\ ProgramTypeOK /\ StackInv(t) /\ NoConflict
      /\ UpdateInv(t) /\ Word \in Loc
      /\ base[t] \in Nat /\ depth[t] \in Nat
  BY PathFacts DEF NestInv, TypeOK, ProgramTypeOK, CountInv
<1>1. OwnStep(t) /\ TypeOK'
  BY ExitStack DEF NestInv
<1>2. /\ pc[t] = "exit" /\ ops' = ops /\ pc'[t] \in {"exit", "idle"}
      /\ depth[t] # 1 => pc' = pc /\ path' = path
      /\ \A u \in Threads \ {t} : reg'[u] = reg[u]
  BY <1>t DEF mutex_exit_func, At, Goto, ProgramTypeOK
<1>m. m \in Mutexes /\ m \in Loc /\ m # Word
  BY <1>2, MutexToUse, NestedAssumption
<1>i. ops[t] \in Int /\ mem[Word] \in Int
  BY <1>t DEF ProgramTypeOK, TsxTypeOK
<1>3. CASE tx[t] = "active" /\ Commit(t)
  <2>1. OthersKept(t) /\ tx'[t] = "none"
    BY <1>t, <1>3, DiscardEffect DEF Commit
  <2>2. mem'[Word] = mem[Word] + 1
    BY <1>t, <1>2, <1>3 DEF Commit, UpdateInv, xtest
  <2>3. NoConflict' /\ ReadsKept(t)
    BY <1>t, <1>3, <2>1, EndConflict, CommitKeepsReads
  <2>4. Shown'[t] = Shown[t] + 1
    BY <1>2, <1>3, <1>i, <2>1 DEF Shown
  <2>5. UpdateInv(t)'
    BY <1>2, <2>1 DEF UpdateInv, xtest
  <2>6. \A u \in Threads \ {t} : ~(pc[u] = "store" /\ tx[u] = "none")
    BY <1>2, <1>3, AloneAtWord DEF xtest
  <2> QED
    BY <1>1, <1>2, <2>2, <2>3, <2>4, <2>5, <2>6, CountFrame
<1>4. CASE tx[t] = "active" /\ base[t] + 1 < depth[t] /\ UNCHANGED txVars
  <2>1. /\ UNCHANGED <<mem, tx, rset, wset, wbuf>> /\ pc' = pc /\ path' = path
    BY <1>t, <1>2, <1>4 DEF txVars
  <2>2. UpdateInv(t)'
    BY <1>t, <1>2, <2>1 DEF UpdateInv, xtest, Last
  <2>3. NoConflict'
    BY <1>t, <2>1 DEF NoConflict, xtest
  <2>4. Shown'[t] = Shown[t]
    BY <1>2, <2>1 DEF Shown
  <2> QED
    BY <1>1, <1>2, <2>1, <2>2, <2>3, <2>4, SameMemory, CountFrame
<1>5. CASE tx[t] = "none" /\ Store(t, m, 0)
  <2> HIDE DEF m
  <2>1. /\ tx'[t] = "none" /\ mem'[Word] = mem[Word]
        /\ NoConflict' /\ ReadsKept(t)
    BY <1>t, <1>m, <1>5, StoreEffect, StoreConflict, StoreKeepsReads, AccessKeepsOthers
  <2>2. UpdateInv(t)'
    BY <1>2, <2>1 DEF UpdateInv, xtest
  <2>3. Shown'[t] = Shown[t]
    BY <1>2, <1>5, <2>1 DEF Shown
  <2> QED
    BY <1>1, <1>2, <2>1, <2>2, <2>3, CountFrame
<1> QED
  BY <1>3, <1>4, <1>5, ExitFacts

(***************************************************************************)
(* In the build that elides nested mutexes no update made under the last   *)
(* mutex of a path is lost, whichever mutexes were taken, elided outermost *)
(* or elided inside a transaction, and however often a transaction was     *)
(* aborted and resumed at the acquire that began it.                       *)
(***************************************************************************)
THEOREM NoUpdateLost == ASSUME ~SmartAll PROVE Spec => []UpdatesCount
<1>f. IsFiniteSet(Threads) /\ Word \in Loc
  BY NestedAssumption
<1>1. Init => CountInv
  <2> SUFFICES ASSUME Init PROVE CountInv
    OBVIOUS
  <2>1. /\ mem[Word] = 0
        /\ \A t \in Threads : pc[t] = "idle" /\ tx[t] = "none" /\ ops[t] = 0
    BY <1>f DEF Init, TsxInit
  <2>2. \A t \in Threads : Shown[t] = 0
    BY <2>1 DEF Shown
  <2>3. SumOver(Shown, Threads) = 0
    BY <1>f, <2>2, SumZero
  <2> QED
    BY <2>1, <2>3 DEF CountInv, NoConflict, UpdateInv, xtest
<1>2. NestInv /\ ExclusionInv /\ CountInv /\ [Next]_vars => CountInv'
  <2> SUFFICES ASSUME NestInv, ExclusionInv, CountInv, [Next]_vars PROVE CountInv'
    OBVIOUS
  <2>1. CASE UNCHANGED vars
    <3>1. /\ UNCHANGED <<mem, tx, rset, wset, wbuf, path, depth, reg, ops, pc>>
      BY <2>1 DEF vars, txVars, progVars
    <3>2. Shown' = Shown
      BY <3>1 DEF Shown
    <3>3. \A t \in Threads : UpdateInv(t)'
      BY <3>1 DEF CountInv, UpdateInv, xtest, Last
    <3>4. NoConflict'
      BY <3>1 DEF CountInv, NoConflict, xtest
    <3> QED
      BY <3>1, <3>2, <3>3, <3>4 DEF CountInv
  <2> QED
    BY <2>1, AcquireCount, QuietCount, WordCount, ExitCount DEF Next, Work
<1>3. CountInv => UpdatesCount
  <2> SUFFICES ASSUME CountInv, \A t \in Threads : pc[t] = "idle"
               PROVE  mem[Word] = MapThenSumSet(LAMBDA t : ops[t], Threads)
    BY DEF UpdatesCount
  <2>1. \A t \in Threads : Shown[t] = ops[t]
    BY DEF Shown
  <2>2. SumOver(Shown, Threads) = SumOver(ops, Threads)
    BY <1>f, <2>1, SumSame
  <2> QED
    BY <2>2 DEF CountInv, SumOver
<1> QED
  BY <1>1, <1>2, <1>3, NestInvariant, ExclusionInvariant, PTL DEF Spec

=============================================================================

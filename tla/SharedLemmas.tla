---------------------------- MODULE SharedLemmas ----------------------------
(***************************************************************************)
(* Lemmas that the proofs of several components use: about the             *)
(* instructions of Tsx (which types they keep, and what they do to memory, *)
(* to the transaction of the thread that executes them and to those of the *)
(* others), and about sums over finite sets.                               *)
(***************************************************************************)
EXTENDS Tsx, FiniteSetsExt, FiniteSetTheorems, WellFoundedInduction, TLAPS

-----------------------------------------------------------------------------
\* An abort leaves statuses and codes well-typed.
LEMMA AbortType ==
    ASSUME TsxTypeOK, NEW victims \in SUBSET Threads,
           NEW status \in AbortCodes, Abort(victims, status)
    PROVE  /\ tx' \in [Threads -> {"none", "active", "aborted"}]
           /\ code' \in [Threads -> AbortCodes]
BY DEF TsxTypeOK, Abort

\* A load keeps the types and returns an integer.
LEMMA LoadType ==
    ASSUME TsxTypeOK, NEW t \in Threads, NEW l \in Loc, Load(t, l)
    PROVE  TsxTypeOK' /\ Sees(t, l) \in Int
<1>1. WritersOf(t, l) \in SUBSET Threads /\ CONFLICT \in AbortCodes
  BY DEF WritersOf, AbortCodes
<1>2. /\ tx' \in [Threads -> {"none", "active", "aborted"}]
      /\ code' \in [Threads -> AbortCodes]
  BY <1>1, AbortType DEF Load
<1> QED
  BY <1>2 DEF Load, TsxTypeOK, Sees

\* A store keeps the types, buffered or not.
LEMMA StoreType ==
    ASSUME TsxTypeOK, NEW t \in Threads, NEW l \in Loc, NEW v \in Int,
           Store(t, l, v)
    PROVE  TsxTypeOK'
<1>1. UsersOf(t, l) \in SUBSET Threads /\ CONFLICT \in AbortCodes
  BY DEF UsersOf, AbortCodes
<1>2. /\ tx' \in [Threads -> {"none", "active", "aborted"}]
      /\ code' \in [Threads -> AbortCodes]
  BY <1>1, AbortType DEF Store
<1>3. CASE xtest(t)
  <2>1. [wbuf[t] EXCEPT ![l] = v] \in [Loc -> Int]
    BY DEF TsxTypeOK
  <2>2. wbuf' = [wbuf EXCEPT ![t] = [wbuf[t] EXCEPT ![l] = v]]
    BY <1>3 DEF Store
  <2>3. wbuf' \in [Threads -> [Loc -> Int]]
    BY <2>1, <2>2 DEF TsxTypeOK
  <2> QED
    BY <1>2, <1>3, <2>3 DEF Store, TsxTypeOK
<1>4. CASE ~xtest(t)
  BY <1>2, <1>4 DEF Store, TsxTypeOK
<1> QED
  BY <1>3, <1>4

\* So does the start of a transaction.
LEMMA BeginType ==
    ASSUME TsxTypeOK, NEW t \in Threads, NEW reads \in SUBSET Loc,
           Begin(t, reads)
    PROVE  TsxTypeOK'
BY DEF Begin, TsxTypeOK, AbortCodes

\* So does _xend.
LEMMA CommitType ==
    ASSUME TsxTypeOK, NEW t \in Threads, Commit(t)
    PROVE  TsxTypeOK'
BY DEF Commit, Discard, TsxTypeOK, AbortCodes

\* So does a rollback.
LEMMA RollbackType ==
    ASSUME TsxTypeOK, NEW t \in Threads, Rollback(t)
    PROVE  TsxTypeOK'
BY DEF Rollback, Discard, TsxTypeOK, AbortCodes

\* So does the abort of one thread.
LEMMA SelfAbortType ==
    ASSUME TsxTypeOK, NEW t \in Threads, NEW status \in AbortCodes,
           Abort({t}, status), UNCHANGED <<mem, rset, wset, wbuf>>
    PROVE  TsxTypeOK'
<1>1. {t} \in SUBSET Threads
  OBVIOUS
<1>2. /\ tx' \in [Threads -> {"none", "active", "aborted"}]
      /\ code' \in [Threads -> AbortCodes]
  BY <1>1, AbortType
<1> QED
  BY <1>2 DEF TsxTypeOK

-----------------------------------------------------------------------------
\* An access of t leaves its own transaction alone and can only abort others.
OnlyAborts(t) ==
    \A u \in Threads : \/ tx'[u] = tx[u]
                       \/ u # t /\ tx[u] = "active" /\ tx'[u] = "aborted"

\* What a load does to the transactions and to memory.
LEMMA LoadEffect ==
    ASSUME TsxTypeOK, NEW t \in Threads, NEW l \in Loc, Load(t, l)
    PROVE  /\ OnlyAborts(t)
           /\ mem' = mem /\ wset' = wset /\ wbuf' = wbuf
           /\ \A u \in Threads : rset[u] \subseteq rset'[u]
           /\ \A u \in Threads \ {t} : rset'[u] = rset[u]
           /\ xtest(t) => l \in rset'[t]
BY DEF TsxTypeOK, Load, Abort, WritersOf, OnlyAborts, xtest

\* What a store does: every other transaction that read l is over.
LEMMA StoreEffect ==
    ASSUME TsxTypeOK, NEW t \in Threads, NEW l \in Loc, NEW v \in Int,
           Store(t, l, v)
    PROVE  /\ OnlyAborts(t)
           /\ rset' = rset
           /\ \A k \in Loc \ {l} : mem'[k] = mem[k]
           /\ \A u \in Threads : wset'[u] \subseteq wset[u] \cup {l}
           /\ \A u \in Threads \ {t} :
                wset'[u] = wset[u] /\ wbuf'[u] = wbuf[u]
           /\ ~xtest(t) => wset' = wset /\ mem'[l] = v
           /\ \A u \in Threads \ {t} : l \in rset[u] => tx'[u] # "active"
BY DEF TsxTypeOK, Store, Abort, UsersOf, OnlyAborts, xtest

\* What a step of t leaves of the other transactions: their sets, and
\* whether they are live unless the step aborts them.
OthersKept(t) ==
    \A u \in Threads \ {t} :
      /\ rset'[u] = rset[u] /\ wset'[u] = wset[u] /\ wbuf'[u] = wbuf[u]
      /\ \/ tx'[u] = tx[u]
         \/ tx[u] = "active" /\ tx'[u] = "aborted"

\* What the start of a transaction does.
LEMMA BeginEffect ==
    ASSUME TsxTypeOK, NEW t \in Threads, NEW reads \in SUBSET Loc,
           Begin(t, reads)
    PROVE  /\ OthersKept(t) /\ mem' = mem
           /\ tx'[t] = "active" /\ rset'[t] = reads /\ wset' = wset
BY DEF TsxTypeOK, Begin, OthersKept, xtest

\* What the end of a transaction does, committed or rolled back.
LEMMA DiscardEffect ==
    ASSUME TsxTypeOK, NEW t \in Threads, Discard(t)
    PROVE  /\ OthersKept(t)
           /\ tx'[t] = "none" /\ wset'[t] = {} /\ rset'[t] = {}
BY DEF TsxTypeOK, Discard, OthersKept

\* What the abort of a transaction by its thread or the processor does.
LEMMA SelfAbortEffect ==
    ASSUME TsxTypeOK, NEW t \in Threads, NEW status, Abort({t}, status),
           UNCHANGED <<mem, rset, wset, wbuf>>
    PROVE  OthersKept(t) /\ tx'[t] = "aborted"
BY DEF TsxTypeOK, Abort, OthersKept

\* A load or store of t.
LEMMA AccessKeepsOthers ==
    ASSUME TsxTypeOK, NEW t \in Threads, NEW l \in Loc,
           Load(t, l) \/ \E v \in Int : Store(t, l, v)
    PROVE  OthersKept(t) /\ tx'[t] = tx[t]
<1>1. CASE Load(t, l)
  BY <1>1, LoadEffect DEF OthersKept, OnlyAborts
<1>2. ASSUME NEW v \in Int, Store(t, l, v)
      PROVE  OthersKept(t) /\ tx'[t] = tx[t]
  BY <1>2, StoreEffect DEF OthersKept, OnlyAborts
<1> QED
  BY <1>1, <1>2

-----------------------------------------------------------------------------
\* Two live transactions never touch a word that one of them has written.
NoConflict ==
    \A u, v \in Threads :
      u # v /\ xtest(u) /\ xtest(v) => wset[u] \cap (rset[v] \cup wset[v]) = {}

\* The access that would make a conflict aborts the other transaction.
LEMMA LoadConflict ==
    ASSUME TsxTypeOK, NoConflict, NEW t \in Threads, NEW l \in Loc, Load(t, l)
    PROVE  NoConflict'
BY DEF TsxTypeOK, NoConflict, Load, Abort, WritersOf, xtest

LEMMA StoreConflict ==
    ASSUME TsxTypeOK, NoConflict, NEW t \in Threads, NEW l \in Loc,
           NEW v \in Int, Store(t, l, v)
    PROVE  NoConflict'
<1>1. \A u \in Threads \ {t} : xtest(u)' => xtest(u) /\ l \notin rset[u] \cup wset[u]
  BY DEF TsxTypeOK, Store, Abort, UsersOf, xtest
<1>2. /\ rset' = rset
      /\ \A u \in Threads : wset'[u] = IF u = t /\ xtest(t) THEN wset[t] \cup {l}
                                       ELSE wset[u]
  BY DEF TsxTypeOK, Store
<1>3. xtest(t)' => xtest(t)
  BY DEF TsxTypeOK, Store, Abort, UsersOf, xtest
<1> QED
  BY <1>1, <1>2, <1>3 DEF NoConflict

\* A new transaction has written nothing yet.
LEMMA BeginConflict ==
    ASSUME TsxTypeOK, NoConflict, NEW t \in Threads, NEW reads \in SUBSET Loc,
           Begin(t, reads), wset[t] = {}
    PROVE  NoConflict'
<1>1. \A u \in Threads \ {t} : xtest(u)' => xtest(u) /\ wset[u] \cap reads = {}
  BY DEF TsxTypeOK, Begin, xtest
<1>2. /\ wset' = wset /\ rset'[t] = reads
      /\ \A u \in Threads \ {t} : rset'[u] = rset[u]
  BY DEF TsxTypeOK, Begin
<1> QED
  BY <1>1, <1>2 DEF NoConflict

\* A transaction that ends leaves no conflict, committed or not.
LEMMA EndConflict ==
    ASSUME NoConflict, NEW t \in Threads, OthersKept(t), tx'[t] # "active"
    PROVE  NoConflict'
BY DEF NoConflict, OthersKept, xtest

\* What the other live transactions have read is still so.
ReadsKept(t) ==
    \A u \in Threads \ {t} : xtest(u)' => \A w \in rset[u] : mem'[w] = mem[w]

\* A store aborts the readers of its word.
LEMMA StoreKeepsReads ==
    ASSUME TsxTypeOK, NEW t \in Threads, NEW l \in Loc, NEW v \in Int,
           Store(t, l, v)
    PROVE  ReadsKept(t)
BY StoreEffect DEF ReadsKept, xtest, TsxTypeOK

\* A commit has no word that another transaction has read.
LEMMA CommitKeepsReads ==
    ASSUME TsxTypeOK, NoConflict, NEW t \in Threads, Commit(t)
    PROVE  ReadsKept(t)
<1>1. OthersKept(t)
  BY DiscardEffect DEF Commit
<1> QED
  BY <1>1 DEF ReadsKept, Commit, NoConflict, OthersKept, xtest, TsxTypeOK

-----------------------------------------------------------------------------
(* Sums over finite sets *)

\* A set of natural numbers has a least one.
LEMMA LeastNumber ==
    ASSUME NEW T \in SUBSET Nat, T # {}
    PROVE  \E n \in T : \A m \in T : n <= m
<1> DEFINE R == OpToRel(<, Nat)
<1>1. IsWellFoundedOn(R, Nat)
  BY NatLessThanWellFounded
<1>2. \A m, n \in Nat : <<m, n>> \in R <=> m < n
  BY DEF OpToRel
<1> HIDE DEF R
<1>3. PICK n \in T : \A m \in T : ~(<<m, n>> \in R)
  BY <1>1, WFMin
<1>4. \A m \in T : ~(m < n) /\ m \in Nat /\ n \in Nat
  BY <1>2, <1>3
<1>5. \A m \in T : n <= m
  BY <1>4
<1> QED
  BY <1>5

\* The element that the library takes out of s first.
Pick(s) == CHOOSE x \in s : TRUE

\* The sum of f over s, when g has the sums over smaller sets.
Body(f, g, s) == IF s = {} THEN 0 ELSE f[Pick(s)] + g[s \ {Pick(s)}]

IsSum(f, g, S) == g = [s \in SUBSET S |-> Body(f, g, s)]

\* The sum of the values of a function.
SumOver(f, S) == MapThenSumSet(LAMBDA x : f[x], S)

\* The sum of the library is that of a function g that has all partial sums,
\* if there is one.
LEMMA SumUnfolds ==
    ASSUME NEW S, NEW f, \E g : IsSum(f, g, S)
    PROVE  \E g : IsSum(f, g, S) /\ SumOver(f, S) = g[S]
<1>1. PICK g : g = CHOOSE h : IsSum(f, h, S)
  OBVIOUS
<1>2. IsSum(f, g, S)
  BY <1>1
<1>3. SumOver(f, S) = g[S]
  BY <1>1 DEF SumOver, MapThenSumSet, MapThenFoldSet, IsSum, Body, Pick
<1> QED
  BY <1>2, <1>3

Small(S, n) == {s \in SUBSET S : Cardinality(s) <= n}

\* Taking it out leaves one element less.
LEMMA PickFacts ==
    ASSUME NEW S, IsFiniteSet(S), NEW s \in SUBSET S, s # {}
    PROVE  /\ Pick(s) \in s /\ Pick(s) \in S /\ s \ {Pick(s)} \in SUBSET S
           /\ Cardinality(s) \in Nat
           /\ Cardinality(s \ {Pick(s)}) = Cardinality(s) - 1
           /\ Cardinality(s \ {Pick(s)}) \in Nat
<1>1. Pick(s) \in s
  BY DEF Pick
<1>2. IsFiniteSet(s)
  BY FS_Subset
<1>3. Cardinality(s) \in Nat /\ Cardinality(s \ {Pick(s)}) \in Nat
      /\ Cardinality(s \ {Pick(s)}) = Cardinality(s) - 1
  BY <1>1, <1>2, FS_RemoveElement, FS_CardinalityType
<1> QED
  BY <1>1, <1>3

\* There is one for a finite set.
LEMMA SumExists ==
    ASSUME NEW S, IsFiniteSet(S), NEW f
    PROVE  \E g : IsSum(f, g, S)
<1> DEFINE Bad == {n \in Nat : ~ \E g : g = [s \in Small(S, n) |-> Body(f, g, s)]}
<1>c. \A s \in SUBSET S : Cardinality(s) \in Nat /\ (Cardinality(s) = 0 <=> s = {})
  BY FS_Subset, FS_CardinalityType, FS_EmptySet
<1>1. Bad = {}
  <2> SUFFICES ASSUME Bad # {} PROVE FALSE
    OBVIOUS
  <2>1. PICK n \in Bad : \A m \in Bad : n <= m
    BY LeastNumber
  <2>2. n \in Nat /\ ~ \E g : g = [s \in Small(S, n) |-> Body(f, g, s)]
    OBVIOUS
  <2>3. CASE n = 0
    <3>1. PICK g : g = [s \in Small(S, n) |-> 0]
      OBVIOUS
    <3>2. \A s \in Small(S, n) : s = {}
      BY <1>c, <2>3 DEF Small
    <3>3. \A s \in Small(S, n) : Body(f, g, s) = 0
      BY <3>2 DEF Body
    <3>4. g = [s \in Small(S, n) |-> Body(f, g, s)]
      BY <3>1, <3>3
    <3> QED
      BY <2>2, <3>4
  <2>4. CASE n # 0
    <3>1. n - 1 \in Nat /\ n - 1 \notin Bad
      BY <2>1, <2>2, <2>4
    <3>2. PICK g : g = [s \in Small(S, n - 1) |-> Body(f, g, s)]
      BY <3>1
    <3>3. PICK k : k = [s \in Small(S, n) |->
                          IF Cardinality(s) <= n - 1 THEN g[s] ELSE Body(f, g, s)]
      OBVIOUS
    <3>4. ASSUME NEW s \in Small(S, n)
          PROVE  k[s] = Body(f, k, s)
      <4>1. k[s] = Body(f, g, s)
        BY <3>2, <3>3 DEF Small
      <4>2. CASE s = {}
        BY <4>1, <4>2 DEF Body
      <4>3. CASE s # {}
        <5>1. s \ {Pick(s)} \in Small(S, n - 1) /\ s \ {Pick(s)} \in Small(S, n)
              /\ Cardinality(s \ {Pick(s)}) <= n - 1
          BY <2>2, <4>3, PickFacts DEF Small
        <5>2. k[s \ {Pick(s)}] = g[s \ {Pick(s)}]
          BY <3>3, <5>1
        <5> QED
          BY <4>1, <4>3, <5>2 DEF Body
      <4> QED
        BY <4>2, <4>3
    <3>5. k = [s \in Small(S, n) |-> Body(f, k, s)]
      BY <3>3, <3>4
    <3> QED
      BY <2>2, <3>5
  <2> QED
    BY <2>3, <2>4
<1>2. Small(S, Cardinality(S)) = SUBSET S
  BY FS_Subset, FS_CardinalityType DEF Small
<1>3. Cardinality(S) \in Nat
  BY FS_CardinalityType
<1>4. PICK g : g = [s \in Small(S, Cardinality(S)) |-> Body(f, g, s)]
  BY <1>1, <1>3
<1> QED
  BY <1>2, <1>4 DEF IsSum

\* Induction over the subsets of a finite set, for the subsets in T.
LEMMA SubsetInduction ==
    ASSUME NEW S, IsFiniteSet(S), NEW T, {} \in T,
           \A s \in SUBSET S : s # {} /\ s \ {Pick(s)} \in T => s \in T
    PROVE  \A s \in SUBSET S : s \in T
<1> DEFINE Bad == {n \in Nat : \E s \in SUBSET S : Cardinality(s) = n /\ s \notin T}
<1>1. Bad = {}
  <2> SUFFICES ASSUME Bad # {} PROVE FALSE
    OBVIOUS
  <2>1. PICK n \in Bad : \A m \in Bad : n <= m
    BY LeastNumber
  <2>2. PICK s \in SUBSET S : Cardinality(s) = n /\ s \notin T
    OBVIOUS
  <2> DEFINE r == s \ {Pick(s)}
  <2>3. s # {}
    BY <2>2
  <2>4. r \in SUBSET S /\ Cardinality(r) \in Nat /\ ~(n <= Cardinality(r))
    BY <2>2, <2>3, PickFacts
  <2>5. r \in T
    BY <2>1, <2>4
  <2> QED
    BY <2>2, <2>3, <2>5
<1> QED
  BY <1>1, FS_Subset, FS_CardinalityType

\* Partial sums of integers are integers.
LEMMA SumType ==
    ASSUME NEW S, IsFiniteSet(S), NEW f, \A x \in S : f[x] \in Int,
           NEW g, IsSum(f, g, S)
    PROVE  \A s \in SUBSET S : g[s] \in Int
<1> DEFINE T == {s \in SUBSET S : g[s] \in Int}
<1>1. {} \in T
  BY DEF IsSum, Body
<1>2. ASSUME NEW s \in SUBSET S, s # {}, s \ {Pick(s)} \in T PROVE s \in T
  <2>1. g[s] = f[Pick(s)] + g[s \ {Pick(s)}]
    BY <1>2 DEF IsSum, Body
  <2>2. f[Pick(s)] \in Int
    BY <1>2, PickFacts
  <2> QED
    BY <1>2, <2>1, <2>2
<1>3. \A s \in SUBSET S : s \in T
  <2> HIDE DEF T
  <2> QED
    BY <1>1, <1>2, SubsetInduction
<1> QED
  BY <1>3

\* A function that differs from f by d at a.
LEMMA SumChanges ==
    ASSUME NEW S, IsFiniteSet(S), NEW f, NEW k, NEW a \in S, NEW d \in Int,
           \A x \in S : f[x] \in Int,
           \A x \in S : k[x] = IF x = a THEN f[x] + d ELSE f[x],
           NEW g, IsSum(f, g, S), NEW h, IsSum(k, h, S)
    PROVE  \A s \in SUBSET S : h[s] = g[s] + IF a \in s THEN d ELSE 0
<1> DEFINE T == {s \in SUBSET S : h[s] = g[s] + IF a \in s THEN d ELSE 0}
<1>1. {} \in T
  BY DEF IsSum, Body
<1>2. ASSUME NEW s \in SUBSET S, s # {}, s \ {Pick(s)} \in T PROVE s \in T
  <2> DEFINE x == Pick(s)
             r == s \ {x}
  <2>1. g[s] = f[x] + g[r] /\ h[s] = k[x] + h[r]
    BY <1>2 DEF IsSum, Body
  <2>2. x \in S /\ x \in s /\ r \in SUBSET S
    BY <1>2, PickFacts
  <2>3. g[r] \in Int /\ f[x] \in Int
    BY <2>2, SumType
  <2>4. k[x] = IF x = a THEN f[x] + d ELSE f[x]
    BY <2>2
  <2>5. (a \in s <=> x = a \/ a \in r) /\ (x = a => a \notin r)
    BY <2>2
  <2>6. h[r] = g[r] + IF a \in r THEN d ELSE 0
    BY <1>2
  <2> HIDE DEF x, r
  <2>7. h[s] = g[s] + IF a \in s THEN d ELSE 0
    BY <2>1, <2>3, <2>4, <2>5, <2>6
  <2> QED
    BY <2>7
<1>3. \A s \in SUBSET S : s \in T
  <2> HIDE DEF T
  <2> QED
    BY <1>1, <1>2, SubsetInduction
<1> QED
  BY <1>3

\* A function that is the same everywhere.
LEMMA SumOfConstant ==
    ASSUME NEW S, IsFiniteSet(S), NEW f, NEW d \in Int, \A x \in S : f[x] = d,
           NEW g, IsSum(f, g, S)
    PROVE  \A s \in SUBSET S : g[s] = d * Cardinality(s)
<1> DEFINE T == {s \in SUBSET S : g[s] = d * Cardinality(s)}
<1>1. {} \in T
  <2>1. g[{}] = 0 /\ Cardinality({}) = 0
    BY FS_EmptySet DEF IsSum, Body
  <2> QED
    BY <2>1
<1>2. ASSUME NEW s \in SUBSET S, s # {}, s \ {Pick(s)} \in T PROVE s \in T
  <2> DEFINE r == s \ {Pick(s)}
  <2>1. g[s] = f[Pick(s)] + g[r]
    BY <1>2 DEF IsSum, Body
  <2>2. /\ f[Pick(s)] = d /\ Cardinality(r) = Cardinality(s) - 1
        /\ Cardinality(s) \in Nat
    BY <1>2, PickFacts
  <2>3. g[r] = d * Cardinality(r)
    BY <1>2
  <2> HIDE DEF r
  <2>4. g[s] = d * Cardinality(s)
    BY <2>1, <2>2, <2>3
  <2> QED
    BY <2>4
<1>3. \A s \in SUBSET S : s \in T
  <2> HIDE DEF T
  <2> QED
    BY <1>1, <1>2, SubsetInduction
<1> QED
  BY <1>3

\* Functions that agree on S.
LEMMA SumOfSame ==
    ASSUME NEW S, IsFiniteSet(S), NEW f, NEW k, \A x \in S : f[x] = k[x],
           NEW g, IsSum(f, g, S), NEW h, IsSum(k, h, S)
    PROVE  \A s \in SUBSET S : g[s] = h[s]
<1> DEFINE T == {s \in SUBSET S : g[s] = h[s]}
<1>1. {} \in T
  BY DEF IsSum, Body
<1>2. ASSUME NEW s \in SUBSET S, s # {}, s \ {Pick(s)} \in T PROVE s \in T
  <2>1. /\ g[s] = f[Pick(s)] + g[s \ {Pick(s)}]
        /\ h[s] = k[Pick(s)] + h[s \ {Pick(s)}]
    BY <1>2 DEF IsSum, Body
  <2>2. f[Pick(s)] = k[Pick(s)]
    BY <1>2, PickFacts
  <2> QED
    BY <1>2, <2>1, <2>2
<1>3. \A s \in SUBSET S : s \in T
  <2> HIDE DEF T
  <2> QED
    BY <1>1, <1>2, SubsetInduction
<1> QED
  BY <1>3

\* The facts that the clients use.
LEMMA SumIsInt ==
    ASSUME NEW S, IsFiniteSet(S), NEW f, \A x \in S : f[x] \in Int
    PROVE  SumOver(f, S) \in Int
<1>1. PICK g : IsSum(f, g, S) /\ SumOver(f, S) = g[S]
  BY SumExists, SumUnfolds
<1> QED
  BY <1>1, SumType

\* One value grows by d.
LEMMA SumGrows ==
    ASSUME NEW S, IsFiniteSet(S), NEW f, NEW k, NEW a \in S, NEW d \in Int,
           \A x \in S : f[x] \in Int,
           \A x \in S : k[x] = IF x = a THEN f[x] + d ELSE f[x]
    PROVE  SumOver(k, S) = SumOver(f, S) + d
<1>1. PICK g : IsSum(f, g, S) /\ SumOver(f, S) = g[S]
  BY SumExists, SumUnfolds
<1>2. PICK h : IsSum(k, h, S) /\ SumOver(k, S) = h[S]
  BY SumExists, SumUnfolds
<1>3. \A s \in SUBSET S : h[s] = g[s] + IF a \in s THEN d ELSE 0
  BY <1>1, <1>2, SumChanges
<1> QED
  BY <1>1, <1>2, <1>3

LEMMA SumSame ==
    ASSUME NEW S, IsFiniteSet(S), NEW f, NEW k, \A x \in S : f[x] = k[x]
    PROVE  SumOver(f, S) = SumOver(k, S)
<1>1. PICK g : IsSum(f, g, S) /\ SumOver(f, S) = g[S]
  BY SumExists, SumUnfolds
<1>2. PICK h : IsSum(k, h, S) /\ SumOver(k, S) = h[S]
  BY SumExists, SumUnfolds
<1>3. \A s \in SUBSET S : g[s] = h[s]
  BY <1>1, <1>2, SumOfSame
<1> QED
  BY <1>1, <1>2, <1>3

LEMMA SumConstant ==
    ASSUME NEW S, IsFiniteSet(S), NEW f, NEW d \in Int, \A x \in S : f[x] = d
    PROVE  SumOver(f, S) = d * Cardinality(S)
<1>1. PICK g : IsSum(f, g, S) /\ SumOver(f, S) = g[S]
  BY SumExists, SumUnfolds
<1>2. \A s \in SUBSET S : g[s] = d * Cardinality(s)
  BY <1>1, SumOfConstant
<1> QED
  BY <1>1, <1>2

LEMMA SumZero ==
    ASSUME NEW S, IsFiniteSet(S), NEW f, \A x \in S : f[x] = 0
    PROVE  SumOver(f, S) = 0
<1>1. SumOver(f, S) = 0 * Cardinality(S)
  BY SumConstant
<1>2. Cardinality(S) \in Nat
  BY FS_CardinalityType
<1> QED
  BY <1>1, <1>2

\* A sum of natural numbers is at least each of them.
LEMMA SumAtLeast ==
    ASSUME NEW S, IsFiniteSet(S), NEW f, \A x \in S : f[x] \in Nat, NEW a \in S
    PROVE  SumOver(f, S) \in Nat /\ f[a] <= SumOver(f, S)
<1>1. ASSUME NEW k, \A x \in S : k[x] \in Nat PROVE SumOver(k, S) \in Nat
  <2>1. PICK g : IsSum(k, g, S) /\ SumOver(k, S) = g[S]
    BY SumExists, SumUnfolds
  <2> DEFINE T == {s \in SUBSET S : g[s] \in Nat}
  <2>2. {} \in T
    BY <2>1 DEF IsSum, Body
  <2>3. ASSUME NEW s \in SUBSET S, s # {}, s \ {Pick(s)} \in T PROVE s \in T
    <3>1. g[s] = k[Pick(s)] + g[s \ {Pick(s)}]
      BY <2>1, <2>3 DEF IsSum, Body
    <3>2. k[Pick(s)] \in Nat
      BY <1>1, <2>3, PickFacts
    <3> QED
      BY <2>3, <3>1, <3>2
  <2>4. \A s \in SUBSET S : s \in T
    <3> HIDE DEF T
    <3> QED
      BY <2>2, <2>3, SubsetInduction
  <2> QED
    BY <2>1, <2>4
<1> DEFINE d == 0 - f[a]
           h == [x \in S |-> IF x = a THEN f[x] + d ELSE f[x]]
<1>2. d \in Int /\ \A x \in S : f[x] \in Int
  OBVIOUS
<1>3. \A x \in S : h[x] \in Nat /\ h[x] = IF x = a THEN f[x] + d ELSE f[x]
  OBVIOUS
<1>4. SumOver(f, S) \in Nat
  BY <1>1
<1>5. SumOver(h, S) \in Nat
  <2> HIDE DEF h, d
  <2> QED
    BY <1>1, <1>3
<1>6. SumOver(h, S) = SumOver(f, S) + d
  <2> HIDE DEF h, d
  <2> QED
    BY <1>2, <1>3, SumGrows
<1> HIDE DEF h
<1> QED
  BY <1>4, <1>5, <1>6

=============================================================================

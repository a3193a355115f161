----------------------------- MODULE ListProofs -----------------------------
(***************************************************************************)
(* The list of hle/list stays one chain of allocated items, and holds the  *)
(* values that the threads of the benchmark remember (List).               *)
(***************************************************************************)
EXTENDS List, SharedLemmas

-----------------------------------------------------------------------------
(* The inductive invariant *)

\* The list is p[1], ..., p[n].
Chain(n, p) ==
    /\ \A i, j \in 1 .. n : p[i] = p[j] => i = j
    /\ first = IF n = 0 THEN NULL ELSE p[1]
    /\ last = IF n = 0 THEN NULL ELSE p[n]
    /\ \A i \in 1 .. n :
         /\ heap[p[i]].next = IF i = n THEN NULL ELSE p[i + 1]
         /\ heap[p[i]].prev = IF i = 1 THEN NULL ELSE p[i - 1]

Cellset(n, p) == {p[i] : i \in 1 .. n}

\* What the threads have in their hands, S being the items of the list.
Hands(S) ==
    /\ allocated = S \cup {item[t] : t \in InHands}
    /\ \A t \in InHands : item[t] \in Cells /\ item[t] \notin S
    /\ \A t, u \in InHands : item[t] = item[u] => t = u
    /\ \A t \in Workers : pc[t] = "insertTail" =>
         heap[item[t]].next = NULL /\ heap[item[t]].data = val[t]

Having(S, v) == {c \in S : heap[c].data = v}

Balanced(S) ==
    \A v \in Values : Cardinality(Having(S, v)) = SumOver(Remembered(v), Workers)

ListInv ==
    /\ Typed
    /\ \E n \in Nat : \E p \in [1 .. n -> Cells] :
         Chain(n, p) /\ Hands(Cellset(n, p)) /\ Balanced(Cellset(n, p))

-----------------------------------------------------------------------------
(* Following the pointers *)

\* Different cells are at most as many as there are.
LEMMA ChainFits ==
    ASSUME NEW n \in Nat, NEW p \in [1 .. n -> Cells],
           \A i, j \in 1 .. n : p[i] = p[j] => i = j
    PROVE  n <= NCells /\ NCells \in Nat
<1>1. IsFiniteSet(1 .. n) /\ Cardinality(1 .. n) = n
  BY FS_Interval
<1>2. IsFiniteSet(Cells)
  BY ListAssumption
<1>3. NCells \in Nat
  BY <1>2, FS_CardinalityType DEF NCells
<1>4. p \in Injection(1 .. n, Cells)
  BY DEF Injection, IsInjective
<1>5. Cardinality(1 .. n) <= Cardinality(Cells)
  BY <1>2, <1>4, FS_Injection
<1> QED
  BY <1>1, <1>3, <1>5 DEF NCells

\* Following a field from c visits p[1], ..., p[n].
LEMMA FollowIs ==
    ASSUME NEW n \in Nat, NEW p \in [1 .. n -> Cells], NEW c, NEW field,
           n <= NCells, NCells \in Nat,
           c = IF n = 0 THEN NULL ELSE p[1],
           \A i \in 1 .. n : heap[p[i]][field] = IF i = n THEN NULL ELSE p[i + 1]
    PROVE  Follow(c, field) = p
<1> DEFINE Walk(g) == g = [k \in 0 .. NCells |->
                             IF k = 0 THEN c
                             ELSE IF g[k - 1] = NULL THEN NULL
                             ELSE heap[g[k - 1]][field]]
           w == [k \in 0 .. NCells |-> IF k < n THEN p[k + 1] ELSE NULL]
<1>n. NULL \notin Cells
  BY ListAssumption
<1>1. Walk(w)
  <2> SUFFICES ASSUME NEW k \in 0 .. NCells
               PROVE  w[k] = IF k = 0 THEN c
                             ELSE IF w[k - 1] = NULL THEN NULL
                             ELSE heap[w[k - 1]][field]
    OBVIOUS
  <2>1. CASE k = 0
    BY <2>1
  <2>2. CASE k > 0 /\ k <= n
    <3>1. w[k - 1] = p[k] /\ p[k] \in Cells /\ k \in 1 .. n /\ k # 0
      BY <2>2
    <3>2. w[k] = IF k = n THEN NULL ELSE p[k + 1]
      BY <2>2
    <3> QED
      BY <1>n, <3>1, <3>2
  <2>3. CASE k > n /\ k # 0
    <3>1. w[k - 1] = NULL /\ w[k] = NULL
      BY <2>3
    <3> QED
      BY <2>3, <3>1
  <2> QED
    BY <2>1, <2>2, <2>3
<1>2. PICK g : g = CHOOSE f : Walk(f)
  OBVIOUS
<1>3. Walk(g)
  <2> HIDE DEF w
  <2> QED
    BY <1>1, <1>2
<1>4. \A k \in 0 .. NCells : g[k] = w[k]
  <2> DEFINE Bad == {k \in 0 .. NCells : g[k] # w[k]}
  <2> SUFFICES ASSUME Bad # {} PROVE FALSE
    OBVIOUS
  <2>0. Bad \in SUBSET Nat
    OBVIOUS
  <2>1. PICK k \in Bad : \A m \in Bad : k <= m
    <3> HIDE DEF Bad
    <3> QED
      BY <2>0, LeastNumber
  <2>2. /\ g[k] = IF k = 0 THEN c ELSE IF g[k - 1] = NULL THEN NULL
                  ELSE heap[g[k - 1]][field]
        /\ w[k] = IF k = 0 THEN c ELSE IF w[k - 1] = NULL THEN NULL
                  ELSE heap[w[k - 1]][field]
    <3> HIDE DEF w
    <3> QED
      BY <1>1, <1>3
  <2>3. k # 0
    BY <2>2
  <2>4. k - 1 \in 0 .. NCells /\ k - 1 \notin Bad
    BY <2>1, <2>3
  <2>5. g[k - 1] = w[k - 1]
    BY <2>4
  <2> QED
    BY <2>2, <2>3, <2>5
<1>5. {j \in 0 .. NCells : g[j] # NULL} = 0 .. n - 1
  BY <1>n, <1>4
<1>6. Cardinality(0 .. n - 1) = n
  BY FS_Interval
<1>7. Follow(c, field)
        = [k \in 1 .. Cardinality({j \in 0 .. NCells : g[j] # NULL}) |-> g[k - 1]]
  <2> HIDE DEF w
  <2> QED
    BY <1>2 DEF Follow
<1>8. \A k \in 1 .. n : g[k - 1] = p[k]
  BY <1>4
<1> HIDE DEF w, Walk
<1> QED
  BY <1>5, <1>6, <1>7, <1>8

\* Both ends of the chain lead through all of it.
LEMMA ChainIsList ==
    ASSUME NEW n \in Nat, NEW p \in [1 .. n -> Cells], Chain(n, p)
    PROVE  /\ Items = p /\ n <= NCells /\ NCells \in Nat
           /\ ToSet(Items) = Cellset(n, p)
           /\ OneChain
<1>1. n <= NCells /\ NCells \in Nat
  BY ChainFits DEF Chain
<1>2. Items = p
  <2>1. \A i \in 1 .. n : heap[p[i]]["next"] = IF i = n THEN NULL ELSE p[i + 1]
    BY DEF Chain
  <2>2. first = IF n = 0 THEN NULL ELSE p[1]
    BY DEF Chain
  <2> QED
    BY <1>1, <2>1, <2>2, FollowIs DEF Items
<1>3. ToSet(Items) = Cellset(n, p)
  BY <1>2 DEF ToSet, Cellset
<1> DEFINE q == [i \in 1 .. n |-> p[n + 1 - i]]
<1>4. q \in [1 .. n -> Cells]
  OBVIOUS
<1>5. last = IF n = 0 THEN NULL ELSE q[1]
  BY DEF Chain
<1>6. \A i \in 1 .. n : heap[q[i]].prev = IF i = n THEN NULL ELSE q[i + 1]
  BY DEF Chain
<1>7. Follow(last, "prev") = q
  <2>1. \A i \in 1 .. n : heap[q[i]]["prev"] = IF i = n THEN NULL ELSE q[i + 1]
    BY <1>6
  <2> HIDE DEF q
  <2> QED
    BY <1>1, <1>4, <1>5, <2>1, FollowIs
<1>8. Reverse(q) = p
  BY DEF Reverse
<1>9. IsInjective(p)
  BY DEF Chain, IsInjective
<1> QED
  BY <1>1, <1>2, <1>3, <1>7, <1>8, <1>9 DEF OneChain

-----------------------------------------------------------------------------
(* Counting *)

LEMMA CountType ==
    ASSUME NEW s \in Seq(Values), NEW v
    PROVE  Count(s, v) \in Nat /\ IsFiniteSet({i \in DOMAIN s : s[i] = v})
<1>1. DOMAIN s = 1 .. Len(s) /\ Len(s) \in Nat
  OBVIOUS
<1>2. IsFiniteSet(1 .. Len(s))
  BY <1>1, FS_Interval
<1>3. IsFiniteSet({i \in DOMAIN s : s[i] = v})
  BY <1>1, <1>2, FS_Subset
<1> QED
  BY <1>3, FS_CardinalityType DEF Count

LEMMA CountEmpty ==
    ASSUME NEW v PROVE Count(<<>>, v) = 0
<1>1. {i \in DOMAIN <<>> : <<>>[i] = v} = {}
  OBVIOUS
<1> QED
  BY <1>1, FS_EmptySet DEF Count

LEMMA CountAppend ==
    ASSUME NEW s \in Seq(Values), NEW x \in Values, NEW v
    PROVE  Count(Append(s, x), v) = Count(s, v) + IF x = v THEN 1 ELSE 0
<1> DEFINE A == {i \in DOMAIN s : s[i] = v}
           m == Len(s) + 1
           B == {i \in DOMAIN Append(s, x) : Append(s, x)[i] = v}
<1>1. DOMAIN s = 1 .. Len(s) /\ Len(s) \in Nat
  OBVIOUS
<1>f. IsFiniteSet(A)
  BY CountType
<1>2. /\ DOMAIN Append(s, x) = 1 .. m
      /\ \A i \in 1 .. m : Append(s, x)[i] = IF i = m THEN x ELSE s[i]
  OBVIOUS
<1>e. Count(s, v) = Cardinality(A) /\ Count(Append(s, x), v) = Cardinality(B)
  BY DEF Count
<1>3. CASE x = v
  <2>1. B = A \cup {m} /\ m \notin A
    BY <1>1, <1>2, <1>3
  <2> HIDE DEF A, B, m
  <2>2. Cardinality(B) = Cardinality(A) + 1
    BY <1>f, <2>1, FS_AddElement
  <2> QED
    BY <1>3, <1>e, <2>2
<1>4. CASE x # v
  <2>1. B = A
    BY <1>1, <1>2, <1>4
  <2> HIDE DEF A, B, m
  <2>2. Cardinality(A) \in Nat
    BY <1>f, FS_CardinalityType
  <2> QED
    BY <1>4, <1>e, <2>1, <2>2
<1> QED
  BY <1>3, <1>4

LEMMA CountTail ==
    ASSUME NEW s \in Seq(Values), s # <<>>, NEW v
    PROVE  Count(s, v) = Count(Tail(s), v) + IF Head(s) = v THEN 1 ELSE 0
<1> DEFINE A == {i \in DOMAIN s : s[i] = v}
           C == {i \in A : i # 1}
           B == {i \in DOMAIN Tail(s) : Tail(s)[i] = v}
           f == [i \in B |-> i + 1]
<1>1. DOMAIN s = 1 .. Len(s) /\ Len(s) \in Nat \ {0} /\ Head(s) = s[1]
  OBVIOUS
<1>f. IsFiniteSet(A)
  BY CountType
<1>2. /\ DOMAIN Tail(s) = 1 .. Len(s) - 1
      /\ \A i \in 1 .. Len(s) - 1 : Tail(s)[i] = s[i + 1]
  OBVIOUS
<1>3. Tail(s) \in Seq(Values)
  OBVIOUS
<1>b. IsFiniteSet(B)
  BY <1>3, CountType
<1>c. IsFiniteSet(C)
  <2>1. C \in SUBSET A
    OBVIOUS
  <2> QED
    BY <1>f, <2>1, FS_Subset
<1>4. IsFiniteSet(B) /\ IsFiniteSet(C) /\ Cardinality(C) \in Nat
  <2> HIDE DEF B, C
  <2> QED
    BY <1>b, <1>c, FS_CardinalityType
<1>5. f \in Bijection(B, C)
  <2>1. f \in [B -> C]
    BY <1>1, <1>2
  <2>2. \A i, j \in B : f[i] = f[j] => i = j
    BY <1>2
  <2>3. \A j \in C : \E i \in B : f[i] = j
    <3> SUFFICES ASSUME NEW j \in C PROVE \E i \in B : f[i] = j
      OBVIOUS
    <3>1. j - 1 \in B
      BY <1>1, <1>2
    <3> QED
      BY <3>1, <1>1
  <2> HIDE DEF f, B, C
  <2> QED
    BY <2>1, <2>2, <2>3 DEF Bijection, Injection, Surjection, IsInjective
<1>6. Cardinality(B) = Cardinality(C)
  <2> HIDE DEF f, B, C
  <2> QED
    BY <1>4, <1>5, FS_Bijection DEF ExistsBijection
<1>e. Count(s, v) = Cardinality(A) /\ Count(Tail(s), v) = Cardinality(B)
  BY DEF Count
<1>7. CASE Head(s) = v
  <2>1. A = C \cup {1} /\ 1 \notin C
    BY <1>1, <1>7
  <2> HIDE DEF A, B, C
  <2>2. Cardinality(A) = Cardinality(C) + 1
    BY <1>4, <2>1, FS_AddElement
  <2> QED
    BY <1>6, <1>7, <1>e, <2>2
<1>8. CASE Head(s) # v
  <2>1. A = C
    BY <1>1, <1>8
  <2> HIDE DEF A, B, C
  <2> QED
    BY <1>4, <1>6, <1>8, <1>e, <2>1
<1> QED
  BY <1>7, <1>8

-----------------------------------------------------------------------------
(* Steps *)

LEMMA RememberedType ==
    ASSUME Typed, NEW v \in Values, NEW t \in Workers
    PROVE  Remembered(v)[t] \in Nat
<1>1. Count(queue[t], v) \in Nat
  <2>1. queue[t] \in Seq(Values)
    BY DEF Typed
  <2> QED
    BY <2>1, CountType
<1> QED
  BY <1>1 DEF Remembered

\* The cells of the list are finitely many.
LEMMA HavingFinite ==
    ASSUME NEW S \in SUBSET Cells, NEW v
    PROVE  IsFiniteSet(Having(S, v)) /\ Cardinality(Having(S, v)) \in Nat
<1>1. Having(S, v) \in SUBSET Cells
  BY DEF Having
<1>2. IsFiniteSet(Having(S, v))
  BY <1>1, ListAssumption, FS_Subset
<1> QED
  BY <1>2, FS_CardinalityType

\* Lists and remembered values that stay as they are.
LEMMA BalancedSame ==
    ASSUME Typed, NEW S \in SUBSET Cells, Balanced(S),
           \A c \in S : heap'[c].data = heap[c].data,
           \A v \in Values, t \in Workers : Remembered(v)'[t] = Remembered(v)[t]
    PROVE  Balanced(S)'
<1> SUFFICES ASSUME NEW v \in Values
             PROVE  Cardinality(Having(S, v)') = SumOver(Remembered(v)', Workers)
  BY DEF Balanced
<1>1. Having(S, v)' = Having(S, v)
  BY DEF Having
<1>2. SumOver(Remembered(v)', Workers) = SumOver(Remembered(v), Workers)
  BY ListAssumption, SumSame
<1> QED
  BY <1>1, <1>2 DEF Balanced

LEMMA InitInv == Init => ListInv
<1> SUFFICES ASSUME Init PROVE ListInv
  OBVIOUS
<1>1. NoValue \in Values
  BY ListAssumption DEF NoValue
<1>2. Typed
  BY <1>1, ListAssumption DEF Init, Typed, ListItem, Pointer
<1> DEFINE p == [i \in 1 .. 0 |-> NULL]
<1>3. p \in [1 .. 0 -> Cells] /\ Cellset(0, p) = {}
  BY DEF Cellset
<1>4. Chain(0, p)
  BY DEF Chain, Init
<1>5. Hands({})
  BY DEF Hands, InHands, Init
<1>6. ASSUME NEW v \in Values
      PROVE  Cardinality(Having({}, v)) = SumOver(Remembered(v), Workers)
  <2>1. \A t \in Workers : Remembered(v)[t] = 0
    BY CountEmpty DEF Init, Remembered
  <2>2. SumOver(Remembered(v), Workers) = 0
    BY <2>1, ListAssumption, SumZero
  <2>3. Having({}, v) = {}
    BY DEF Having
  <2> QED
    BY <2>2, <2>3, FS_EmptySet
<1>7. Balanced({})
  BY <1>6 DEF Balanced
<1> HIDE DEF p
<1> QED
  BY <1>2, <1>3, <1>4, <1>5, <1>7 DEF ListInv

LEMMA CreateInv ==
    ASSUME ListInv, NEW t \in Workers, createListItem(t) PROVE ListInv'
<1>1. PICK n \in Nat : \E p \in [1 .. n -> Cells] :
         Chain(n, p) /\ Hands(Cellset(n, p)) /\ Balanced(Cellset(n, p))
  BY DEF ListInv
<1>2. PICK p \in [1 .. n -> Cells] :
         Chain(n, p) /\ Hands(Cellset(n, p)) /\ Balanced(Cellset(n, p))
  BY <1>1
<1> DEFINE S == Cellset(n, p)
<1>3. PICK v \in Values, c \in Cells \ allocated :
         /\ heap' = [heap EXCEPT ![c] = [data |-> v, prev |-> NULL, next |-> NULL]]
         /\ allocated' = allocated \cup {c}
         /\ item' = [item EXCEPT ![t] = c]
         /\ val' = [val EXCEPT ![t] = v]
  BY DEF createListItem
<1>4. /\ Typed /\ pc[t] = "idle" /\ ops[t] < MaxOps
      /\ ops' = [ops EXCEPT ![t] = @ + 1] /\ pc' = [pc EXCEPT ![t] = "insertTail"]
      /\ first' = first /\ last' = last /\ queue' = queue
  BY DEF ListInv, createListItem, Choose
<1>5. Typed'
  <2>1. [data |-> v, prev |-> NULL, next |-> NULL] \in ListItem
    BY DEF ListItem, Pointer
  <2>2. heap' \in [Cells -> ListItem]
    BY <1>3, <1>4, <2>1 DEF Typed
  <2>3. ops' \in [Workers -> 0 .. MaxOps]
    BY <1>4, ListAssumption DEF Typed
  <2> QED
    BY <1>3, <1>4, <2>2, <2>3 DEF Typed, Pointer
<1>6. S \subseteq allocated /\ S \subseteq Cells /\ \A u \in InHands : item[u] \in allocated
  BY <1>2 DEF Hands, Cellset
<1>7. \A d \in Cells \ {c} : heap'[d] = heap[d]
  BY <1>3, <1>4 DEF Typed
<1>8. heap'[c].next = NULL /\ heap'[c].data = v
  BY <1>3, <1>4 DEF Typed
<1>9. Chain(n, p)'
  <2>1. \A i \in 1 .. n : p[i] \in S
    BY DEF Cellset
  <2>2. \A i \in 1 .. n : heap'[p[i]] = heap[p[i]]
    BY <1>6, <1>7, <2>1
  <2> QED
    BY <1>2, <1>4, <2>2 DEF Chain
<1>10. Hands(S)'
  <2>1. InHands' = InHands \cup {t} /\ t \notin InHands
    BY <1>4 DEF InHands, Typed
  <2>2. /\ item'[t] = c /\ val'[t] = v
        /\ \A u \in Workers \ {t} : /\ item'[u] = item[u] /\ val'[u] = val[u]
                                    /\ pc'[u] = pc[u]
    BY <1>3, <1>4 DEF Typed
  <2>3. allocated' = S \cup {item'[u] : u \in InHands'}
    BY <1>2, <1>3, <2>1, <2>2 DEF Hands, InHands
  <2>4. \A u \in InHands' : item'[u] \in Cells /\ item'[u] \notin S
    BY <1>2, <1>6, <2>1, <2>2 DEF Hands, InHands
  <2>5. \A u, w \in InHands' : item'[u] = item'[w] => u = w
    BY <1>2, <1>6, <2>1, <2>2 DEF Hands, InHands
  <2>6. ASSUME NEW u \in Workers, pc'[u] = "insertTail"
        PROVE  heap'[item'[u]].next = NULL /\ heap'[item'[u]].data = val'[u]
    <3>1. CASE u = t
      BY <1>8, <2>2, <3>1
    <3>2. CASE u # t
      <4>1. u \in InHands /\ pc[u] = "insertTail"
        BY <2>2, <2>6, <3>2 DEF InHands
      <4>2. item[u] \in Cells \ {c}
        BY <1>2, <1>6, <4>1 DEF Hands
      <4> QED
        BY <1>2, <1>7, <2>2, <3>2, <4>1, <4>2 DEF Hands
    <3> QED
      BY <3>1, <3>2
  <2> HIDE DEF S
  <2> QED
    BY <2>3, <2>4, <2>5, <2>6 DEF Hands
<1>11. Balanced(S)'
  <2>1. \A d \in S : heap'[d].data = heap[d].data
    BY <1>6, <1>7
  <2>2. \A w \in Values, u \in Workers : Remembered(w)'[u] = Remembered(w)[u]
    BY <1>3, <1>4 DEF Remembered, Typed
  <2> HIDE DEF S
  <2> QED
    BY <1>2, <1>4, <1>6, <2>1, <2>2, BalancedSame DEF S
<1>12. S' = S
  BY DEF Cellset
<1> QED
  BY <1>5, <1>9, <1>10, <1>11, <1>12 DEF ListInv, Cellset

LEMMA InsertInv ==
    ASSUME ListInv, NEW t \in Workers, insertTail(t) PROVE ListInv'
<1>1. PICK n \in Nat : \E p \in [1 .. n -> Cells] :
         Chain(n, p) /\ Hands(Cellset(n, p)) /\ Balanced(Cellset(n, p))
  BY DEF ListInv
<1>2. PICK p \in [1 .. n -> Cells] :
         Chain(n, p) /\ Hands(Cellset(n, p)) /\ Balanced(Cellset(n, p))
  BY <1>1
<1>3. PICK c : c = item[t]
  OBVIOUS
<1>4. /\ Typed /\ pc[t] = "insertTail" /\ pc' = [pc EXCEPT ![t] = "idle"]
      /\ heap' = [d \in Cells |->
                    IF d = c THEN [heap[c] EXCEPT !.prev = last]
                    ELSE IF d = last THEN [heap[d] EXCEPT !.next = c]
                    ELSE heap[d]]
      /\ last' = c /\ first' = (IF first = NULL THEN c ELSE first)
      /\ queue' = [queue EXCEPT ![t] = Append(@, val[t])]
      /\ item' = [item EXCEPT ![t] = NULL]
      /\ val' = [val EXCEPT ![t] = NoValue]
      /\ allocated' = allocated /\ ops' = ops
  BY <1>3 DEF ListInv, insertTail
<1> DEFINE S == Cellset(n, p)
           q == [i \in 1 .. n + 1 |-> IF i = n + 1 THEN c ELSE p[i]]
           T == Cellset(n + 1, q)
<1>5. /\ t \in InHands /\ c \in Cells /\ c \notin S /\ S \subseteq Cells
      /\ heap[c].next = NULL /\ heap[c].data = val[t] /\ val[t] \in Values
      /\ NULL \notin Cells /\ NoValue \in Values
  BY <1>2, <1>3, <1>4, ListAssumption DEF Hands, InHands, Cellset, Typed, NoValue
<1>6. q \in [1 .. n + 1 -> Cells] /\ T = S \cup {c} /\ n + 1 \in Nat
  <2>1. q \in [1 .. n + 1 -> Cells] /\ n + 1 \in Nat
    BY <1>5
  <2>2. q[n + 1] = c /\ \A i \in 1 .. n : q[i] = p[i] /\ i \in 1 .. n + 1
    OBVIOUS
  <2>3. T = S \cup {c}
    BY <2>2 DEF Cellset
  <2> QED
    BY <2>1, <2>3
<1>7. Typed'
  <2>1. last \in Pointer /\ c \in Pointer /\ \A d \in Cells : heap[d] \in ListItem
    BY <1>4, <1>5 DEF Typed, Pointer
  <2>2. heap' \in [Cells -> ListItem]
    BY <1>4, <2>1 DEF ListItem
  <2>3. queue' \in [Workers -> Seq(Values)]
    BY <1>4, <1>5 DEF Typed
  <2> QED
    BY <1>4, <1>5, <2>1, <2>2, <2>3 DEF Typed, Pointer
<1>8. /\ \A d \in Cells : heap'[d].data = heap[d].data
      /\ \A d \in Cells : d # last /\ d # c => heap'[d] = heap[d]
      /\ last \in Cells /\ last # c
           => heap'[last].next = c /\ heap'[last].prev = heap[last].prev
      /\ heap'[c].next = NULL /\ heap'[c].prev = last
  <2>1. \A d \in Cells : heap[d] \in ListItem
    BY <1>4 DEF Typed
  <2> QED
    BY <1>4, <1>5, <2>1 DEF ListItem
<1>9. Chain(n + 1, q)'
  <2>1. \A i \in 1 .. n : p[i] \in S /\ p[i] \in Cells /\ p[i] # c
    BY <1>5 DEF Cellset
  <2>2. \A i, j \in 1 .. n + 1 : q[i] = q[j] => i = j
    BY <1>2, <2>1 DEF Chain
  <2>3. first' = q[1] /\ last' = q[n + 1]
    BY <1>2, <1>4, <1>5, <2>1 DEF Chain
  <2>4. n # 0 => last = p[n]
    BY <1>2 DEF Chain
  <2>5. ASSUME NEW i \in 1 .. n
        PROVE  /\ heap'[p[i]].next = IF i = n THEN c ELSE p[i + 1]
               /\ heap'[p[i]].prev = IF i = 1 THEN NULL ELSE p[i - 1]
    <3>1. p[i] = last <=> i = n
      BY <1>2, <2>4 DEF Chain
    <3> QED
      BY <1>2, <1>8, <2>1, <3>1 DEF Chain
  <2>6. heap'[c].next = NULL /\ heap'[c].prev = IF n = 0 THEN NULL ELSE p[n]
    BY <1>2, <1>8 DEF Chain
  <2>7. ASSUME NEW i \in 1 .. n + 1
        PROVE  /\ heap'[q[i]].next = IF i = n + 1 THEN NULL ELSE q[i + 1]
               /\ heap'[q[i]].prev = IF i = 1 THEN NULL ELSE q[i - 1]
    <3>1. CASE i = n + 1
      BY <2>6, <3>1
    <3>2. CASE i \in 1 .. n
      BY <2>5, <3>2
    <3> QED
      BY <3>1, <3>2
  <2>8. n + 1 # 0
    OBVIOUS
  <2> HIDE DEF q
  <2> QED
    BY <2>2, <2>3, <2>7, <2>8 DEF Chain
<1>10. Hands(T)'
  <2>1. InHands' = InHands \ {t}
    BY <1>4 DEF InHands, Typed
  <2>2. \A u \in Workers \ {t} : /\ item'[u] = item[u] /\ val'[u] = val[u]
                                 /\ pc'[u] = pc[u]
    BY <1>4 DEF Typed
  <2>3. allocated' = T \cup {item'[u] : u \in InHands'}
    <3>1. \A u \in InHands' : item'[u] = item[u]
      BY <2>1, <2>2 DEF InHands
    <3>2. {item'[u] : u \in InHands'} \cup {c} = {item[u] : u \in InHands}
      BY <1>3, <1>5, <2>1, <3>1
    <3>3. allocated = S \cup {item[u] : u \in InHands}
      BY <1>2 DEF Hands
    <3> QED
      BY <1>4, <1>6, <3>2, <3>3
  <2>4. \A u \in InHands' : item'[u] \in Cells /\ item'[u] \notin T
    BY <1>2, <1>3, <1>5, <1>6, <2>1, <2>2 DEF Hands, InHands
  <2>5. \A u, w \in InHands' : item'[u] = item'[w] => u = w
    BY <1>2, <2>1, <2>2 DEF Hands, InHands
  <2>6. ASSUME NEW u \in Workers, pc'[u] = "insertTail"
        PROVE  heap'[item'[u]].next = NULL /\ heap'[item'[u]].data = val'[u]
    <3>1. u # t /\ pc[u] = "insertTail"
      BY <1>4, <2>2, <2>6 DEF Typed
    <3>2. u \in InHands
      BY <3>1 DEF InHands
    <3>3. item[u] \in Cells /\ item[u] \notin S /\ item[u] # c
      BY <1>2, <1>3, <1>5, <3>1, <3>2 DEF Hands
    <3>4. last = NULL \/ last \in S
      BY <1>2 DEF Chain, Cellset
    <3>5. heap'[item[u]] = heap[item[u]]
      BY <1>5, <1>8, <3>3, <3>4
    <3> QED
      BY <1>2, <2>2, <3>1, <3>5 DEF Hands
  <2> HIDE DEF T
  <2> QED
    BY <2>3, <2>4, <2>5, <2>6 DEF Hands
<1>11. Balanced(T)'
  <2> SUFFICES ASSUME NEW v \in Values
               PROVE  Cardinality(Having(T, v)') = SumOver(Remembered(v)', Workers)
    <3> HIDE DEF T
    <3> QED
      BY DEF Balanced
  <2> DEFINE e == IF val[t] = v THEN 1 ELSE 0
  <2>1. \A u \in Workers :
          Remembered(v)'[u] = IF u = t THEN Remembered(v)[u] + e ELSE Remembered(v)[u]
    <3>1. Count(queue'[t], v) = Count(queue[t], v) + e
      <4>1. queue[t] \in Seq(Values) /\ queue'[t] = Append(queue[t], val[t])
        BY <1>4 DEF Typed
      <4> QED
        BY <1>5, <4>1, CountAppend
    <3>2. Count(queue[t], v) \in Nat
      BY <1>4, CountType DEF Typed
    <3> HIDE DEF e
    <3>e. e \in Nat
      BY DEF e
    <3>3. Remembered(v)'[t] = Remembered(v)[t] + e
      BY <1>4, <3>1, <3>2, <3>e DEF Remembered, Typed
    <3>4. \A u \in Workers \ {t} : Remembered(v)'[u] = Remembered(v)[u]
      BY <1>4 DEF Remembered, Typed
    <3> QED
      BY <3>3, <3>4
  <2>2. \A u \in Workers : Remembered(v)[u] \in Int
    BY <1>4, RememberedType
  <2>3. SumOver(Remembered(v)', Workers) = SumOver(Remembered(v), Workers) + e
    <3> HIDE DEF e
    <3>1. e \in Int
      BY DEF e
    <3> QED
      BY <2>1, <2>2, <3>1, ListAssumption, SumGrows
  <2>4. IsFiniteSet(Having(S, v)) /\ Cardinality(Having(S, v)) \in Nat
    BY <1>5, HavingFinite
  <2>5. Cardinality(Having(S, v)) = SumOver(Remembered(v), Workers)
    BY <1>2 DEF Balanced
  <2>6. CASE val[t] = v
    <3>1. Having(T, v)' = Having(S, v) \cup {c} /\ c \notin Having(S, v)
      <4>1. (T = S \cup {c})'
        BY <1>6
      <4> HIDE DEF T, S
      <4> QED
        BY <1>5, <1>6, <1>8, <2>6, <4>1 DEF Having
    <3>2. Cardinality(Having(T, v)') = Cardinality(Having(S, v)) + 1
      <4> HIDE DEF T, S
      <4> QED
        BY <2>4, <3>1, FS_AddElement
    <3> QED
      BY <2>3, <2>5, <2>6, <3>2
  <2>7. CASE val[t] # v
    <3>1. Having(T, v)' = Having(S, v)
      <4> HIDE DEF T, S
      <4> QED
        BY <1>5, <1>6, <1>8, <2>7 DEF Having
    <3> QED
      BY <2>3, <2>4, <2>5, <2>7, <3>1
  <2> QED
    BY <2>6, <2>7
<1> HIDE DEF q
<1> QED
  BY <1>6, <1>7, <1>9, <1>10, <1>11 DEF ListInv

LEMMA PopInv ==
    ASSUME ListInv, NEW t \in Workers, pop(t) PROVE ListInv'
<1>1. PICK n \in Nat : \E p \in [1 .. n -> Cells] :
         Chain(n, p) /\ Hands(Cellset(n, p)) /\ Balanced(Cellset(n, p))
  BY DEF ListInv
<1>2. PICK p \in [1 .. n -> Cells] :
         Chain(n, p) /\ Hands(Cellset(n, p)) /\ Balanced(Cellset(n, p))
  BY <1>1
<1> DEFINE S == Cellset(n, p)
<1>3. /\ Typed /\ pc[t] = "idle" /\ ops[t] < MaxOps /\ queue[t] # <<>>
      /\ ops' = [ops EXCEPT ![t] = @ + 1] /\ pc' = [pc EXCEPT ![t] = "find"]
      /\ val' = [val EXCEPT ![t] = Head(queue[t])]
      /\ queue' = [queue EXCEPT ![t] = Tail(@)]
      /\ first' = first /\ last' = last /\ heap' = heap /\ allocated' = allocated
      /\ item' = item
  BY DEF ListInv, pop, Choose
<1>4. queue[t] \in Seq(Values) /\ Head(queue[t]) \in Values /\ Tail(queue[t]) \in Seq(Values)
  BY <1>3 DEF Typed
<1>5. Typed'
  <2>1. ops' \in [Workers -> 0 .. MaxOps]
    BY <1>3, ListAssumption DEF Typed
  <2> QED
    BY <1>3, <1>4, <2>1 DEF Typed
<1>6. Chain(n, p)'
  BY <1>2, <1>3 DEF Chain
<1>7. Hands(S)'
  <2>1. InHands' = InHands
    BY <1>3 DEF InHands, Typed
  <2>2. \A u \in Workers : pc'[u] = "insertTail" => pc[u] = "insertTail" /\ val'[u] = val[u]
    BY <1>3 DEF Typed
  <2> QED
    BY <1>2, <1>3, <2>1, <2>2 DEF Hands
<1>8. ASSUME NEW v \in Values, NEW u \in Workers
      PROVE  Remembered(v)'[u] = Remembered(v)[u]
  <2>1. CASE u = t
    <3>1. /\ Count(queue[t], v)
               = Count(Tail(queue[t]), v) + IF Head(queue[t]) = v THEN 1 ELSE 0
          /\ Count(Tail(queue[t]), v) \in Nat
      BY <1>3, <1>4, CountTail, CountType
    <3>2. /\ queue'[t] = Tail(queue[t]) /\ val'[t] = Head(queue[t])
          /\ pc'[t] = "find"
      BY <1>3 DEF Typed
    <3> QED
      BY <1>3, <2>1, <3>1, <3>2 DEF Remembered
  <2>2. CASE u # t
    BY <1>3, <2>2 DEF Remembered, Typed
  <2> QED
    BY <2>1, <2>2
<1>9. Balanced(S)'
  <2>1. S \in SUBSET Cells
    BY DEF Cellset
  <2> HIDE DEF S
  <2> QED
    BY <1>2, <1>3, <1>8, <2>1, BalancedSame DEF S
<1> QED
  BY <1>5, <1>6, <1>7, <1>9 DEF ListInv, Cellset

\* The value that a thread removes is in the list: get finds it.
LEMMA GetFinds ==
    ASSUME Typed, NEW n \in Nat, NEW p \in [1 .. n -> Cells], Chain(n, p),
           Balanced(Cellset(n, p)), NEW t \in Workers, pc[t] = "find"
    PROVE  \E k \in 1 .. n : get(val[t]) = p[k] /\ heap[p[k]].data = val[t]
<1> DEFINE v == val[t]
           S == Cellset(n, p)
           hits == {i \in DOMAIN Items : heap[Items[i]].data = v}
<1>1. v \in Values /\ Items = p
  BY ChainIsList DEF Typed
<1>2. Remembered(v)[t] >= 1
  <2>1. Count(queue[t], v) \in Nat
    BY CountType DEF Typed
  <2> QED
    BY <2>1 DEF Remembered
<1>3. SumOver(Remembered(v), Workers) >= 1
  <2>1. /\ Remembered(v)[t] <= SumOver(Remembered(v), Workers)
        /\ SumOver(Remembered(v), Workers) \in Nat
    <3> HIDE DEF v
    <3>1. \A u \in Workers : Remembered(v)[u] \in Nat
      BY <1>1, RememberedType
    <3> QED
      BY <3>1, ListAssumption, SumAtLeast
  <2>2. Remembered(v)[t] \in Nat
    BY <1>1, RememberedType
  <2> HIDE DEF v
  <2> QED
    BY <1>2, <2>1, <2>2
<1>4. Having(S, v) # {}
  <2>1. Cardinality(Having(S, v)) = SumOver(Remembered(v), Workers)
    BY <1>1 DEF Balanced
  <2>2. Cardinality({}) = 0
    BY FS_EmptySet
  <2>3. SumOver(Remembered(v), Workers) # 0
    BY <1>3
  <2> HIDE DEF v, S
  <2> QED
    BY <2>1, <2>2, <2>3
<1>5. hits \in SUBSET Nat /\ hits # {}
  <2>1. DOMAIN Items = 1 .. n
    BY <1>1
  <2>2. PICK i \in 1 .. n : heap[p[i]].data = v
    BY <1>4 DEF Having, Cellset
  <2> QED
    BY <1>1, <2>1, <2>2
<1>6. Min(hits) \in hits
  <2> HIDE DEF hits
  <2>1. PICK m : m = CHOOSE x \in hits : \A y \in hits : x <= y
    OBVIOUS
  <2>2. \E x \in hits : \A y \in hits : x <= y
    BY <1>5, LeastNumber
  <2>3. m \in hits
    BY <2>1, <2>2
  <2> QED
    BY <2>1, <2>3 DEF Min
<1>7. get(v) = Items[Min(hits)]
  BY <1>5 DEF get
<1>8. Min(hits) \in 1 .. n /\ heap[Items[Min(hits)]].data = v
  <2> DEFINE k == Min(hits)
  <2>1. k \in DOMAIN Items /\ heap[Items[k]].data = v
    <3> HIDE DEF k
    <3>1. k \in hits
      BY <1>6 DEF k
    <3> QED
      BY <3>1
  <2> HIDE DEF k, v
  <2>2. k \in 1 .. n
    BY <1>1, <2>1
  <2> QED
    BY <2>1, <2>2 DEF k
<1> HIDE DEF hits
<1> QED
  BY <1>1, <1>7, <1>8

LEMMA FindInv ==
    ASSUME ListInv, NEW t \in Workers, findAndRemoveFromList(t) PROVE ListInv'
<1>1. PICK n \in Nat : \E p \in [1 .. n -> Cells] :
         Chain(n, p) /\ Hands(Cellset(n, p)) /\ Balanced(Cellset(n, p))
  BY DEF ListInv
<1>2. PICK p \in [1 .. n -> Cells] :
         Chain(n, p) /\ Hands(Cellset(n, p)) /\ Balanced(Cellset(n, p))
  BY <1>1
<1>3. Typed /\ pc[t] = "find"
  BY DEF ListInv, findAndRemoveFromList
<1>4. PICK k \in 1 .. n : get(val[t]) = p[k] /\ heap[p[k]].data = val[t]
  BY <1>2, <1>3, GetFinds
<1>5. PICK c : c = p[k]
  OBVIOUS
<1>6. /\ c \in Cells /\ c # NULL /\ NULL \notin Cells /\ NoValue \in Values
      /\ val[t] \in Values
  BY <1>3, <1>5, ListAssumption DEF Typed, NoValue
<1>7. PICK before, after : before = heap[c].prev /\ after = heap[c].next
  OBVIOUS
<1>8. /\ item' = [item EXCEPT ![t] = c] /\ pc' = [pc EXCEPT ![t] = "delete"]
      /\ val' = [val EXCEPT ![t] = NoValue]
      /\ allocated' = allocated /\ queue' = queue /\ ops' = ops
      /\ first' = (IF c = first THEN after ELSE first)
      /\ last' = (IF c = last THEN before ELSE last)
      /\ heap' = [d \in Cells |->
                    IF d = after THEN [heap[d] EXCEPT !.prev = before]
                    ELSE IF d = before THEN [heap[d] EXCEPT !.next = after]
                    ELSE heap[d]]
  BY <1>4, <1>5, <1>6, <1>7 DEF findAndRemoveFromList, removeFromList
<1> DEFINE S == Cellset(n, p)
           q == [i \in 1 .. n - 1 |-> IF i < k THEN p[i] ELSE p[i + 1]]
           T == Cellset(n - 1, q)
<1>9. /\ before = (IF k = 1 THEN NULL ELSE p[k - 1])
      /\ after = (IF k = n THEN NULL ELSE p[k + 1])
      /\ before \in Pointer /\ after \in Pointer
      /\ n - 1 \in Nat /\ n \in Nat \ {0} /\ k \in Nat
  <2>1. k \in 1 .. n /\ n \in Nat \ {0} /\ k \in Nat
    OBVIOUS
  <2> QED
    BY <1>2, <1>5, <1>7, <2>1 DEF Chain, Pointer
<1>10. q \in [1 .. n - 1 -> Cells] /\ T = S \ {c} /\ S \subseteq Cells /\ c \in S
  <2>1. q \in [1 .. n - 1 -> Cells]
    OBVIOUS
  <2>2. \A i \in 1 .. n - 1 : q[i] \in S /\ q[i] # c
    BY <1>2, <1>5 DEF Chain, Cellset
  <2>3. ASSUME NEW i \in 1 .. n, i # k PROVE p[i] \in T
    <3>1. CASE i < k
      <4>1. i \in 1 .. n - 1 /\ q[i] = p[i]
        BY <3>1
      <4> QED
        BY <4>1 DEF Cellset
    <3>2. CASE i > k
      <4>1. i - 1 \in 1 .. n - 1 /\ q[i - 1] = p[i]
        BY <3>2
      <4> QED
        BY <4>1 DEF Cellset
    <3> QED
      BY <2>3, <3>1, <3>2
  <2>4. c \in S /\ S \subseteq Cells
    BY <1>5 DEF Cellset
  <2>5. T \subseteq S \ {c}
    BY <2>2 DEF Cellset
  <2>6. S \ {c} \subseteq T
    <3> SUFFICES ASSUME NEW d \in S, d # c PROVE d \in T
      OBVIOUS
    <3>1. PICK i \in 1 .. n : d = p[i]
      BY DEF Cellset
    <3> QED
      BY <1>5, <2>3, <3>1
  <2> HIDE DEF T, S
  <2> QED
    BY <2>1, <2>4, <2>5, <2>6
<1>11. Typed'
  <2>1. \A d \in Cells : heap[d] \in ListItem
    BY <1>3 DEF Typed
  <2>2. heap' \in [Cells -> ListItem]
    BY <1>8, <1>9, <2>1 DEF ListItem
  <2>3. first' \in Pointer /\ last' \in Pointer /\ c \in Pointer
    BY <1>3, <1>6, <1>8, <1>9 DEF Typed, Pointer
  <2> QED
    BY <1>3, <1>6, <1>8, <2>2, <2>3 DEF Typed
<1>12. /\ \A d \in Cells : heap'[d].data = heap[d].data
       /\ \A d \in Cells : heap'[d].prev = IF d = after THEN before ELSE heap[d].prev
       /\ \A d \in Cells : d # after =>
            heap'[d].next = IF d = before THEN after ELSE heap[d].next
       /\ \A d \in Cells : d # after /\ d # before => heap'[d] = heap[d]
       /\ after \in Cells => heap'[after].next = heap[after].next
  <2>1. \A d \in Cells : heap[d] \in ListItem
    BY <1>3 DEF Typed
  <2> QED
    BY <1>8, <2>1 DEF ListItem
<1>13. Chain(n - 1, q)'
  <2>1. \A i \in 1 .. n : p[i] \in Cells
    OBVIOUS
  <2>2. \A i, j \in 1 .. n : p[i] = p[j] => i = j
    BY <1>2 DEF Chain
  <2>3. \A i, j \in 1 .. n - 1 : q[i] = q[j] => i = j
    BY <2>2
  <2>4. first' = IF n - 1 = 0 THEN NULL ELSE q[1]
    <3>1. first = p[1] /\ (c = first <=> k = 1)
      BY <1>2, <1>5, <1>9, <2>2 DEF Chain
    <3> QED
      BY <1>8, <1>9, <3>1
  <2>5. last' = IF n - 1 = 0 THEN NULL ELSE q[n - 1]
    <3>1. last = p[n] /\ (c = last <=> k = n)
      BY <1>2, <1>5, <1>9, <2>2 DEF Chain
    <3> QED
      BY <1>8, <1>9, <3>1
  <2>6. \A i \in 1 .. n : /\ p[i] = after <=> i = k + 1
                          /\ p[i] = before <=> i = k - 1
    BY <1>6, <1>9, <2>1, <2>2
  <2>7. ASSUME NEW i \in 1 .. n, i # k
        PROVE  /\ heap'[p[i]].next = IF i = k - 1 THEN after
                                     ELSE IF i = n THEN NULL ELSE p[i + 1]
               /\ heap'[p[i]].prev = IF i = k + 1 THEN before
                                     ELSE IF i = 1 THEN NULL ELSE p[i - 1]
    <3>1. /\ heap[p[i]].next = IF i = n THEN NULL ELSE p[i + 1]
          /\ heap[p[i]].prev = IF i = 1 THEN NULL ELSE p[i - 1]
      BY <1>2 DEF Chain
    <3>2. p[i] \in Cells
      OBVIOUS
    <3>3. heap'[p[i]].prev = IF i = k + 1 THEN before
                             ELSE IF i = 1 THEN NULL ELSE p[i - 1]
      BY <1>12, <2>6, <3>1, <3>2
    <3>4. CASE i = k + 1
      <4>1. p[i] = after /\ i # k - 1
        BY <2>6, <3>4
      <4> QED
        BY <1>12, <3>1, <3>2, <3>3, <4>1
    <3>5. CASE i # k + 1
      BY <1>12, <2>6, <3>1, <3>2, <3>3, <3>5
    <3> QED
      BY <3>4, <3>5
  <2>8. ASSUME NEW i \in 1 .. n - 1
        PROVE  /\ heap'[q[i]].next = IF i = n - 1 THEN NULL ELSE q[i + 1]
               /\ heap'[q[i]].prev = IF i = 1 THEN NULL ELSE q[i - 1]
    <3>1. CASE i < k - 1
      <4>1. i \in 1 .. n /\ i # k /\ i # k - 1 /\ i # n /\ i # n - 1 /\ i # k + 1
        BY <3>1
      <4>2. q[i] = p[i] /\ q[i + 1] = p[i + 1] /\ (i # 1 => q[i - 1] = p[i - 1])
        BY <3>1
      <4> HIDE DEF q
      <4> QED
        BY <2>7, <4>1, <4>2
    <3>2. CASE i = k - 1
      <4>1. i \in 1 .. n /\ i # k /\ i # n /\ i # k + 1
        BY <3>2
      <4>2. q[i] = p[i] /\ (i # n - 1 => q[i + 1] = p[k + 1])
            /\ (i # 1 => q[i - 1] = p[i - 1])
        BY <3>2
      <4>3. i = n - 1 <=> k = n
        BY <3>2
      <4> HIDE DEF q
      <4> QED
        BY <1>9, <2>7, <3>2, <4>1, <4>2, <4>3
    <3>3. CASE i >= k
      <4> DEFINE j == i + 1
      <4>1. j \in 1 .. n /\ j # k /\ j # k - 1 /\ j # 1 /\ (j = n <=> i = n - 1)
        BY <3>3
      <4>2. q[i] = p[j] /\ (i # n - 1 => q[i + 1] = p[j + 1])
        BY <3>3
      <4>3. i > k => i # 1 /\ q[i - 1] = p[j - 1] /\ j # k + 1
        BY <3>3
      <4>4. i = k => j = k + 1 /\ before = IF i = 1 THEN NULL ELSE q[i - 1]
        BY <1>9, <3>3
      <4> HIDE DEF q, j
      <4> QED
        BY <2>7, <3>3, <4>1, <4>2, <4>3, <4>4
    <3> QED
      BY <3>1, <3>2, <3>3
  <2> HIDE DEF q
  <2> QED
    BY <2>3, <2>4, <2>5, <2>8 DEF Chain

<1>14. Hands(T)'
  <2>1. InHands' = InHands \cup {t} /\ t \notin InHands
    BY <1>3, <1>8 DEF InHands, Typed
  <2>2. /\ item'[t] = c /\ pc'[t] = "delete"
        /\ \A u \in Workers \ {t} : /\ item'[u] = item[u] /\ val'[u] = val[u]
                                    /\ pc'[u] = pc[u]
    BY <1>3, <1>8 DEF Typed
  <2>3. allocated' = T \cup {item'[u] : u \in InHands'}
    <3>1. \A u \in InHands : item'[u] = item[u]
      BY <2>1, <2>2 DEF InHands
    <3>2. {item'[u] : u \in InHands'} = {item[u] : u \in InHands} \cup {c}
      BY <2>1, <2>2, <3>1
    <3>3. allocated = S \cup {item[u] : u \in InHands}
      BY <1>2 DEF Hands
    <3> HIDE DEF S, T
    <3> QED
      BY <1>8, <1>10, <3>2, <3>3
  <2>4. \A u \in InHands' : item'[u] \in Cells /\ item'[u] \notin T
    BY <1>2, <1>6, <1>10, <2>1, <2>2 DEF Hands, InHands
  <2>5. \A u, w \in InHands' : item'[u] = item'[w] => u = w
    BY <1>2, <1>10, <2>1, <2>2 DEF Hands, InHands
  <2>6. ASSUME NEW u \in Workers, pc'[u] = "insertTail"
        PROVE  heap'[item'[u]].next = NULL /\ heap'[item'[u]].data = val'[u]
    <3>1. u # t /\ pc[u] = "insertTail" /\ u \in InHands
      BY <2>2, <2>6 DEF InHands
    <3>2. item[u] \in Cells /\ item[u] \notin S
      BY <1>2, <3>1 DEF Hands
    <3>3. before \in S \cup {NULL} /\ after \in S \cup {NULL}
      BY <1>9 DEF Cellset
    <3>4. heap'[item[u]] = heap[item[u]]
      BY <1>6, <1>12, <3>2, <3>3
    <3> QED
      BY <1>2, <2>2, <3>1, <3>4 DEF Hands
  <2> HIDE DEF T
  <2> QED
    BY <2>3, <2>4, <2>5, <2>6 DEF Hands
<1>15. Balanced(T)'
  <2> SUFFICES ASSUME NEW v \in Values
               PROVE  Cardinality(Having(T, v)') = SumOver(Remembered(v)', Workers)
    <3> HIDE DEF T
    <3> QED
      BY DEF Balanced
  <2> DEFINE e == IF val[t] = v THEN 0 - 1 ELSE 0
  <2>1. \A u \in Workers :
          Remembered(v)'[u] = IF u = t THEN Remembered(v)[u] + e ELSE Remembered(v)[u]
    <3>1. Count(queue[t], v) \in Nat
      BY <1>3, CountType DEF Typed
    <3>2. Remembered(v)'[t] = Remembered(v)[t] + e
      BY <1>3, <1>8, <3>1 DEF Remembered, Typed
    <3>3. \A u \in Workers \ {t} : Remembered(v)'[u] = Remembered(v)[u]
      BY <1>8, <1>3 DEF Remembered, Typed
    <3> HIDE DEF e
    <3> QED
      BY <3>2, <3>3
  <2>2. \A u \in Workers : Remembered(v)[u] \in Int
    BY <1>3, RememberedType
  <2>3. SumOver(Remembered(v)', Workers) = SumOver(Remembered(v), Workers) + e
    <3> HIDE DEF e
    <3>1. e \in Int
      BY DEF e
    <3> QED
      BY <2>1, <2>2, <3>1, ListAssumption, SumGrows
  <2>4. IsFiniteSet(Having(S, v)) /\ Cardinality(Having(S, v)) \in Nat
    BY <1>10, HavingFinite
  <2>5. Cardinality(Having(S, v)) = SumOver(Remembered(v), Workers)
    BY <1>2 DEF Balanced
  <2>6. CASE val[t] = v
    <3>1. Having(T, v)' = Having(S, v) \ {c} /\ c \in Having(S, v)
      <4> HIDE DEF T, S
      <4> QED
        BY <1>4, <1>5, <1>10, <1>12, <2>6 DEF Having
    <3>2. Cardinality(Having(T, v)') = Cardinality(Having(S, v)) - 1
      <4> HIDE DEF T, S
      <4> QED
        BY <2>4, <3>1, FS_RemoveElement
    <3> QED
      BY <2>3, <2>4, <2>5, <2>6, <3>2
  <2>7. CASE val[t] # v
    <3>1. Having(T, v)' = Having(S, v)
      <4> HIDE DEF T, S
      <4> QED
        BY <1>4, <1>5, <1>10, <1>12, <2>7 DEF Having
    <3> QED
      BY <2>3, <2>4, <2>5, <2>7, <3>1
  <2> QED
    BY <2>6, <2>7
<1> HIDE DEF q
<1> QED
  BY <1>9, <1>10, <1>11, <1>13, <1>14, <1>15 DEF ListInv

LEMMA DeleteInv ==
    ASSUME ListInv, NEW t \in Workers, deleteListItem(t) PROVE ListInv'
<1>1. PICK n \in Nat : \E p \in [1 .. n -> Cells] :
         Chain(n, p) /\ Hands(Cellset(n, p)) /\ Balanced(Cellset(n, p))
  BY DEF ListInv
<1>2. PICK p \in [1 .. n -> Cells] :
         Chain(n, p) /\ Hands(Cellset(n, p)) /\ Balanced(Cellset(n, p))
  BY <1>1
<1> DEFINE S == Cellset(n, p)
<1>3. /\ Typed /\ pc[t] = "delete" /\ pc' = [pc EXCEPT ![t] = "idle"]
      /\ allocated' = allocated \ {item[t]} /\ item' = [item EXCEPT ![t] = NULL]
      /\ first' = first /\ last' = last /\ heap' = heap /\ val' = val
      /\ queue' = queue /\ ops' = ops
  BY DEF ListInv, deleteListItem
<1>4. Typed'
  BY <1>3 DEF Typed, Pointer
<1>5. Chain(n, p)'
  BY <1>2, <1>3 DEF Chain
<1>6. Hands(S)'
  <2>1. InHands' = InHands \ {t} /\ t \in InHands
    BY <1>3 DEF InHands, Typed
  <2>2. \A u \in Workers \ {t} : item'[u] = item[u] /\ pc'[u] = pc[u]
    BY <1>3 DEF Typed
  <2>3. allocated' = S \cup {item'[u] : u \in InHands'}
    <3>1. \A u \in InHands' : item'[u] = item[u] /\ u \in InHands /\ u # t
      BY <2>1, <2>2 DEF InHands
    <3>2. {item'[u] : u \in InHands'} = {item[u] : u \in InHands} \ {item[t]}
      BY <1>2, <2>1, <3>1 DEF Hands
    <3>3. allocated = S \cup {item[u] : u \in InHands} /\ item[t] \notin S
      BY <1>2, <2>1 DEF Hands
    <3> HIDE DEF S
    <3> QED
      BY <1>3, <3>2, <3>3
  <2>4. \A u \in InHands' : item'[u] \in Cells /\ item'[u] \notin S
    BY <1>2, <2>1, <2>2 DEF Hands, InHands
  <2>5. \A u, w \in InHands' : item'[u] = item'[w] => u = w
    BY <1>2, <2>1, <2>2 DEF Hands, InHands
  <2>6. ASSUME NEW u \in Workers, pc'[u] = "insertTail"
        PROVE  heap'[item'[u]].next = NULL /\ heap'[item'[u]].data = val'[u]
    <3>1. u # t
      BY <1>3, <2>6 DEF Typed
    <3> QED
      BY <1>2, <1>3, <2>2, <2>6, <3>1 DEF Hands
  <2> HIDE DEF S
  <2> QED
    BY <2>3, <2>4, <2>5, <2>6 DEF Hands
<1>7. Balanced(S)'
  <2>1. S \in SUBSET Cells
    BY DEF Cellset
  <2>2. \A v \in Values, u \in Workers : Remembered(v)'[u] = Remembered(v)[u]
    BY <1>3 DEF Remembered, Typed
  <2> HIDE DEF S
  <2> QED
    BY <1>2, <1>3, <2>1, <2>2, BalancedSame DEF S
<1> QED
  BY <1>4, <1>5, <1>6, <1>7 DEF ListInv, Cellset

LEMMA DeleteAllInv ==
    ASSUME ListInv, deleteAll PROVE ListInv'
<1>1. PICK n \in Nat : \E p \in [1 .. n -> Cells] :
         Chain(n, p) /\ Hands(Cellset(n, p)) /\ Balanced(Cellset(n, p))
  BY DEF ListInv
<1>2. PICK p \in [1 .. n -> Cells] :
         Chain(n, p) /\ Hands(Cellset(n, p)) /\ Balanced(Cellset(n, p))
  BY <1>1
<1>3. ToSet(Items) = Cellset(n, p)
  BY <1>2, ChainIsList
<1>4. /\ Typed /\ \A t \in Workers : pc[t] = "idle"
      /\ allocated' = allocated \ ToSet(Items)
      /\ first' = NULL /\ last' = NULL /\ queue' = [t \in Workers |-> <<>>]
      /\ heap' = heap /\ pc' = pc /\ item' = item /\ val' = val /\ ops' = ops
  BY DEF ListInv, deleteAll
<1>5. Typed'
  BY <1>4 DEF Typed, Pointer
<1> DEFINE q == [i \in 1 .. 0 |-> NULL]
<1>6. q \in [1 .. 0 -> Cells] /\ Cellset(0, q) = {}
  BY DEF Cellset
<1>7. Chain(0, q)'
  BY <1>4 DEF Chain
<1>8. Hands({})'
  <2>1. InHands = {} /\ InHands' = {}
    BY <1>4 DEF InHands
  <2> QED
    BY <1>2, <1>3, <1>4, <2>1 DEF Hands
<1>9. ASSUME NEW v \in Values
      PROVE  Cardinality(Having({}, v)') = SumOver(Remembered(v)', Workers)
  <2>1. \A t \in Workers : Remembered(v)'[t] = 0
    BY <1>4, CountEmpty DEF Remembered
  <2>2. SumOver(Remembered(v)', Workers) = 0
    BY <2>1, ListAssumption, SumZero
  <2>3. Having({}, v)' = {}
    BY DEF Having
  <2> QED
    BY <2>2, <2>3, FS_EmptySet
<1>10. Balanced({})'
  BY <1>9 DEF Balanced
<1> HIDE DEF q
<1> QED
  BY <1>5, <1>6, <1>7, <1>8, <1>10 DEF ListInv

\* A step that changes no more than the number of operations.
LEMMA IdleInv ==
    ASSUME ListInv, Typed',
           UNCHANGED <<first, last, heap, allocated, pc, item, val, queue>>
    PROVE  ListInv'
<1>1. PICK n \in Nat : \E p \in [1 .. n -> Cells] :
         Chain(n, p) /\ Hands(Cellset(n, p)) /\ Balanced(Cellset(n, p))
  BY DEF ListInv
<1>2. PICK p \in [1 .. n -> Cells] :
         Chain(n, p) /\ Hands(Cellset(n, p)) /\ Balanced(Cellset(n, p))
  BY <1>1
<1>3. Chain(n, p)'
  BY <1>2 DEF Chain
<1>4. Hands(Cellset(n, p))'
  BY <1>2 DEF Hands, InHands, Cellset
<1>5. Balanced(Cellset(n, p))'
  <2>1. Cellset(n, p) \in SUBSET Cells /\ Typed
    BY DEF Cellset, ListInv
  <2>2. \A v \in Values, u \in Workers : Remembered(v)'[u] = Remembered(v)[u]
    BY DEF Remembered
  <2>3. Balanced(Cellset(n, p)) /\ \A c \in Cellset(n, p) : heap'[c].data = heap[c].data
    BY <1>2
  <2> QED
    BY <2>1, <2>2, <2>3, BalancedSame
<1> QED
  BY <1>3, <1>4, <1>5 DEF ListInv

LEMMA StepInv == ListInv /\ [Next]_vars => ListInv'
<1> SUFFICES ASSUME ListInv, [Next]_vars PROVE ListInv'
  OBVIOUS
<1>1. CASE UNCHANGED vars
  <2>1. Typed'
    BY <1>1 DEF ListInv, Typed, vars
  <2> QED
    BY <1>1, <2>1, IdleInv DEF vars
<1>2. ASSUME NEW t \in Workers, contains(t) PROVE ListInv'
  <2>1. Typed'
    BY <1>2, ListAssumption DEF ListInv, Typed, contains, Choose
  <2> QED
    BY <1>2, <2>1, IdleInv DEF contains
<1> QED
  BY <1>1, <1>2, CreateInv, InsertInv, PopInv, FindInv, DeleteInv, DeleteAllInv DEF Next

LEMMA ListInvariant == Spec => []ListInv
BY InitInv, StepInv, PTL DEF Spec

-----------------------------------------------------------------------------
(* Theorems *)

\* Types of the list and of the locals of the benchmark's threads; first and
\* last never point to a deleted item.
THEOREM TypeCorrect == Spec => []TypeOK
<1>1. ASSUME ListInv PROVE TypeOK
  <2>1. PICK n \in Nat : \E p \in [1 .. n -> Cells] :
                            Chain(n, p) /\ Hands(Cellset(n, p))
    BY <1>1 DEF ListInv
  <2>2. PICK p \in [1 .. n -> Cells] : Chain(n, p) /\ Hands(Cellset(n, p))
    BY <2>1
  <2>3. {first, last} \subseteq Cellset(n, p) \cup {NULL}
    BY <2>2 DEF Chain, Cellset
  <2>4. Cellset(n, p) \subseteq allocated
    BY <2>2 DEF Hands
  <2> QED
    BY <1>1, <2>3, <2>4 DEF TypeOK, ListInv
<1> QED
  BY <1>1, ListInvariant, PTL

\* The links of the list in both directions are one chain, after any
\* interleaving of insertTail and findAndRemoveFromList.
THEOREM ListIsOneChain == Spec => []OneChain
<1>1. ListInv => OneChain
  BY ChainIsList DEF ListInv
<1> QED
  BY <1>1, ListInvariant, PTL

\* An allocated item is in the list or in the hands of one thread: List::remove
\* deletes no item twice and leaks none.
THEOREM NoCellLost == Spec => []CellsAccounted
<1>1. ASSUME ListInv PROVE CellsAccounted
  <2>1. PICK n \in Nat : \E p \in [1 .. n -> Cells] : Chain(n, p) /\ Hands(Cellset(n, p))
    BY <1>1 DEF ListInv
  <2>2. PICK p \in [1 .. n -> Cells] : Chain(n, p) /\ Hands(Cellset(n, p))
    BY <2>1
  <2>3. ToSet(Items) = Cellset(n, p)
    BY <2>2, ChainIsList
  <2> QED
    BY <2>2, <2>3 DEF CellsAccounted, Hands
<1> QED
  BY <1>1, ListInvariant, PTL

\* The list holds each value as often as the threads of TimeCmp remember it.
THEOREM ValuesRemembered == Spec => []ValuesAccounted
<1>1. ASSUME ListInv PROVE ValuesAccounted
  <2>1. PICK n \in Nat : \E p \in [1 .. n -> Cells] : Chain(n, p) /\ Balanced(Cellset(n, p))
    BY <1>1 DEF ListInv
  <2>2. PICK p \in [1 .. n -> Cells] : Chain(n, p) /\ Balanced(Cellset(n, p))
    BY <2>1
  <2>3. ToSet(Items) = Cellset(n, p)
    BY <2>2, ChainIsList
  <2> QED
    BY <2>2, <2>3 DEF ValuesAccounted, Balanced, Having, SumOver
<1> QED
  BY <1>1, ListInvariant, PTL

=============================================================================

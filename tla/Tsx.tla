-------------------------------- MODULE Tsx --------------------------------
(***************************************************************************)
(* Intel TSX as the lock functions use it: shared memory, and for every    *)
(* thread at most one hardware transaction with a read set, a write set    *)
(* and buffered writes.  Conflicts are detected eagerly and the requester  *)
(* wins: an access that conflicts with an active transaction aborts that   *)
(* transaction.  Hardware may also abort a transaction at any time.  An    *)
(* aborted thread does nothing until it has rolled back.                   *)
(*                                                                         *)
(* The processor is not part of the repository: the operators stand for    *)
(* the instructions that src/ executes (_xbegin, _xend, _xabort, _xtest,   *)
(* xacquire and xrelease prefixes, loads, stores, xchg).                   *)
(***************************************************************************)
EXTENDS Integers

CONSTANTS
    Threads,
    Loc         \* words of memory, each in a cache line of its own

VARIABLES
    mem,        \* committed memory
    tx,         \* "none", "active" or "aborted"
    code,       \* abort status handed to the instruction after _xbegin
    rset,       \* read set
    wset,       \* write set
    wbuf        \* buffered writes, meaningful on the write set

txVars == <<mem, tx, code, rset, wset, wbuf>>

\* Status bits: 0 _xabort was executed, 1 may succeed on retry, 2 conflict.
\* NOBITS stands for every status without these bits (overflow of a set,
\* interrupt, unfriendly instruction): src/ never looks at the others.
XABORT   == 1
CONFLICT == 6
NOBITS   == 0
AbortCodes == {XABORT, CONFLICT, NOBITS}

TsxTypeOK ==
    /\ mem \in [Loc -> Int]
    /\ tx \in [Threads -> {"none", "active", "aborted"}]
    /\ code \in [Threads -> AbortCodes]
    /\ rset \in [Threads -> SUBSET Loc]
    /\ wset \in [Threads -> SUBSET Loc]
    /\ wbuf \in [Threads -> [Loc -> Int]]

TsxInit(initial) ==
    /\ mem = initial
    /\ tx = [t \in Threads |-> "none"]
    /\ code = [t \in Threads |-> NOBITS]
    /\ rset = [t \in Threads |-> {}]
    /\ wset = [t \in Threads |-> {}]
    /\ wbuf = [t \in Threads |-> [l \in Loc |-> 0]]

xtest(t) == tx[t] = "active"

\* The value a load of l returns to t.
Sees(t, l) == IF xtest(t) /\ l \in wset[t] THEN wbuf[t][l] ELSE mem[l]

(***************************************************************************)
(* The transactions of other threads that an access of t aborts.           *)
(***************************************************************************)
WritersOf(t, l) == {u \in Threads \ {t} : xtest(u) /\ l \in wset[u]}
UsersOf(t, l) ==
    {u \in Threads \ {t} : xtest(u) /\ l \in rset[u] \cup wset[u]}

Abort(victims, status) ==
    /\ tx' = [u \in Threads |-> IF u \in victims THEN "aborted" ELSE tx[u]]
    /\ code' = [u \in Threads |-> IF u \in victims THEN status ELSE code[u]]

Load(t, l) ==
    /\ Abort(WritersOf(t, l), CONFLICT)
    /\ rset' = IF xtest(t) THEN [rset EXCEPT ![t] = @ \cup {l}] ELSE rset
    /\ UNCHANGED <<mem, wset, wbuf>>

Store(t, l, v) ==
    /\ Abort(UsersOf(t, l), CONFLICT)
    /\ IF xtest(t)
       THEN /\ wset' = [wset EXCEPT ![t] = @ \cup {l}]
            /\ wbuf' = [wbuf EXCEPT ![t][l] = v]
            /\ UNCHANGED mem
       ELSE mem' = [mem EXCEPT ![l] = v] /\ UNCHANGED <<wset, wbuf>>
    /\ UNCHANGED rset

\* _xbegin that returns _XBEGIN_STARTED, or an elided xacquire, whose lock
\* word is in the read set from the start (reads); other transactions that
\* wrote one of these words are aborted.
Begin(t, reads) ==
    /\ tx' = [u \in Threads |->
                IF u = t THEN "active"
                ELSE IF xtest(u) /\ wset[u] \cap reads # {} THEN "aborted"
                ELSE tx[u]]
    /\ code' = [u \in Threads |->
                  IF u # t /\ xtest(u) /\ wset[u] \cap reads # {}
                  THEN CONFLICT ELSE code[u]]
    /\ rset' = [rset EXCEPT ![t] = reads]
    /\ UNCHANGED <<mem, wset, wbuf>>

Discard(t) ==
    /\ tx' = [tx EXCEPT ![t] = "none"]
    /\ rset' = [rset EXCEPT ![t] = {}]
    /\ wset' = [wset EXCEPT ![t] = {}]
    /\ wbuf' = [wbuf EXCEPT ![t] = [l \in Loc |-> 0]]
    /\ code' = [code EXCEPT ![t] = NOBITS]

\* _xend, or the xrelease store that ends an elision: the buffered writes
\* become visible at once.
Commit(t) ==
    /\ xtest(t)
    /\ mem' = [l \in Loc |-> IF l \in wset[t] THEN wbuf[t][l] ELSE mem[l]]
    /\ Discard(t)

\* The rollback of an aborted transaction.
Rollback(t) ==
    /\ tx[t] = "aborted"
    /\ Discard(t)
    /\ UNCHANGED mem

\* The processor gives up an active transaction on its own account.
HardwareAbort(t) ==
    /\ xtest(t)
    /\ \E status \in {CONFLICT, NOBITS} : Abort({t}, status)
    /\ UNCHANGED <<mem, rset, wset, wbuf>>

=============================================================================

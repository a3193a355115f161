----------------------------- MODULE AtomicBank -----------------------------
(***************************************************************************)
(* What the locked bank promises its threads: an operation that was called *)
(* happens at one moment before the thread can call the next one, as a     *)
(* whole and once.                                                         *)
(***************************************************************************)
EXTENDS Integers

CONSTANTS Threads, Accounts, Money, Initial

VARIABLES
    balance,
    pending         \* <<>>, or the operation that was called and not done

Jobs == [op : {"transfer", "read"}, a1 : Accounts, a2 : Accounts,
         money : Money]

Init ==
    /\ balance = [a \in Accounts |-> Initial]
    /\ pending = [t \in Threads |-> <<>>]

Call(t) ==
    /\ pending[t] = <<>>
    /\ \E job \in Jobs : pending' = [pending EXCEPT ![t] = <<job>>]
    /\ UNCHANGED balance

\* a1 and a2 may be the same account; each change has an EXCEPT of its own
\* because tlapm misreads one that changes the same index twice.
Moved(a1, a2, money) ==
    [[balance EXCEPT ![a1] = @ - money] EXCEPT ![a2] = @ + money]

Do(t) ==
    \E job \in Jobs :
        /\ pending[t] = <<job>>
        /\ pending' = [pending EXCEPT ![t] = <<>>]
        /\ balance' = IF job.op = "transfer"
                      THEN Moved(job.a1, job.a2, job.money) ELSE balance

Next == \E t \in Threads : Call(t) \/ Do(t)

Spec == Init /\ [][Next]_<<balance, pending>>

=============================================================================

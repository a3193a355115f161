----------------------------- MODULE AtomicSet -----------------------------
(***************************************************************************)
(* What a hash map promises its callers: insert, remove and contains act   *)
(* on a set of values at one moment between call and return, and answer    *)
(* whether the value was inserted, removed or there.                       *)
(***************************************************************************)
CONSTANTS Threads, Values

VARIABLES
    set,
    call,           \* <<>>, or the operation and its value
    answer          \* <<>>, or the answer

Operations == {"insert", "remove", "contains"}

Init ==
    /\ set = {}
    /\ call = [t \in Threads |-> <<>>]
    /\ answer = [t \in Threads |-> <<>>]

Call(t) ==
    /\ call[t] = <<>>
    /\ \E op \in Operations, v \in Values : call' = [call EXCEPT ![t] = <<op, v>>]
    /\ UNCHANGED <<set, answer>>

Do(t) ==
    /\ call[t] # <<>> /\ answer[t] = <<>>
    /\ \E op \in Operations, v \in Values :
         /\ call[t] = <<op, v>>
         /\ set' = CASE op = "insert" -> set \cup {v}
                     [] op = "remove" -> set \ {v}
                     [] op = "contains" -> set
         /\ answer' = [answer EXCEPT ![t] =
                         <<IF op = "insert" THEN v \notin set ELSE v \in set>>]
    /\ UNCHANGED call

Return(t) ==
    /\ answer[t] # <<>>
    /\ call' = [call EXCEPT ![t] = <<>>]
    /\ answer' = [answer EXCEPT ![t] = <<>>]
    /\ UNCHANGED set

\* The map is destroyed when nobody uses it.
Clear ==
    /\ \A t \in Threads : call[t] = <<>>
    /\ set' = {}
    /\ UNCHANGED <<call, answer>>

Next == Clear \/ \E t \in Threads : Call(t) \/ Do(t) \/ Return(t)

Spec == Init /\ [][Next]_<<set, call, answer>>

=============================================================================

------------------------------ MODULE OsEvent ------------------------------
(***************************************************************************)
(* The operating system event of InnoDB (os0sync.cc): a flag is_set and a  *)
(* counter signal_count that is increased whenever the flag goes from      *)
(* unset to set.  Every operation runs with event->os_mutex held, so each  *)
(* one is a single step.  The operators are used by the modules that own   *)
(* an event (IbMutex).                                                     *)
(***************************************************************************)
EXTENDS Naturals

VARIABLES
    is_set,         \* event->is_set
    signal_count    \* event->signal_count

eventVars == <<is_set, signal_count>>

EventInit == is_set = FALSE /\ signal_count = 1

EventTypeOK == is_set \in BOOLEAN /\ signal_count \in Nat

os_event_create == is_set' = FALSE /\ signal_count' = 1

\* Signals the threads that sleep on the event; a set event stays as it is.
os_event_set ==
    /\ is_set' = TRUE
    /\ signal_count' = IF is_set THEN signal_count ELSE signal_count + 1

\* The caller keeps the current signal_count, which os_event_reset returns.
os_event_reset == is_set' = FALSE /\ UNCHANGED signal_count

\* Faulty variant of os_event_wait_returns: it ignores reset_sig_count.
WaitIfIsSetOnly(reset_sig_count) == is_set

(***************************************************************************)
(* The condition under which os_event_wait_low(event, reset_sig_count)     *)
(* returns.  The pthread condition variable is broadcast by every          *)
(* os_event_set that changes the event, and the sleeper tests the          *)
(* condition again with the mutex held: it goes on in any later state in   *)
(* which the condition holds.                                              *)
(***************************************************************************)
os_event_wait_returns(reset_sig_count) ==
    is_set \/ signal_count # reset_sig_count

=============================================================================

------------------------------ MODULE QueueLock ------------------------------
(***************************************************************************)
(* What a FIFO queue lock promises: threads join a queue, the head of the  *)
(* queue is the only one that may enter the critical section, and it       *)
(* leaves the queue after it has left the critical section.  A thread that *)
(* joins an empty queue enters at once.  The MCS lock of                   *)
(* src/src/tests/test_clh_lock.cpp is checked to implement it.             *)
(***************************************************************************)
EXTENDS Sequences, SequencesExt

CONSTANTS Threads, None

VARIABLES
    q,      \* threads that have joined, in the order they joined
    crit    \* the thread in the critical section, or None

\* Join the tail of the queue; on an empty queue, enter at once.
Join(t) ==
    /\ ~(t \in ToSet(q))
    /\ q' = Append(q, t)
    /\ crit' = IF q = <<>> THEN t ELSE crit

\* The head of the queue enters the free critical section.
Enter(t) ==
    /\ q # <<>> /\ Head(q) = t
    /\ crit = None
    /\ crit' = t
    /\ UNCHANGED q

\* The holder leaves the critical section; it stays at the head.
Exit(t) ==
    /\ crit = t
    /\ crit' = None
    /\ UNCHANGED q

\* The head, out of the critical section, leaves the queue.
Leave(t) ==
    /\ q # <<>> /\ Head(q) = t
    /\ crit # t
    /\ q' = Tail(q)
    /\ UNCHANGED crit

Init == q = <<>> /\ crit = None

Next == \E t \in Threads : Join(t) \/ Enter(t) \/ Exit(t) \/ Leave(t)

Spec == Init /\ [][Next]_<<q, crit>>
=============================================================================

------------------------------- MODULE McsLock -------------------------------
(***************************************************************************)
(* The MCS queue lock, mcs_lock in src/src/tests/test_clh_lock.cpp, driven *)
(* by the TEST_LOCK loop of the same file: every thread, with its own      *)
(* qnode, acquires and releases the lock Iters times.                      *)
(*                                                                         *)
(* Each statement that reads or writes shared memory is one step; the      *)
(* spin loops are guards.  Memory is sequentially consistent: the code's   *)
(* __sync_synchronize / membar calls order its accesses.                   *)
(*                                                                         *)
(* A qnode is the thread it belongs to; pointers are threads or None.      *)
(***************************************************************************)
EXTENDS Naturals, Sequences

CONSTANTS Threads, Iters, None

VARIABLES
    tail,      \* _tail
    next,      \* each qnode's _next
    waiting,   \* each qnode's _waiting
    pred,      \* acquire()'s local pred of each thread
    pc,        \* "ncs", "link", "spin", "cs", "rel", "tail", "waitnext", "signal", "done"
    iter       \* iterations of the test loop each thread has finished

vars == <<tail, next, waiting, pred, pc, iter>>

\* Fault model: the loop runs while i <= local_count.
EndIterationPastBound(t) ==
    /\ iter' = [iter EXCEPT ![t] = @ + 1]
    /\ pc' = [pc EXCEPT ![t] = IF iter[t] + 1 > Iters THEN "done" ELSE "ncs"]

\* The test loop's i++: back to the top of the loop, or out of it.
EndIteration(t) ==
    /\ iter' = [iter EXCEPT ![t] = @ + 1]
    /\ pc' = [pc EXCEPT ![t] = IF iter[t] + 1 = Iters THEN "done" ELSE "ncs"]

-----------------------------------------------------------------------------
(* acquire(me) *)

\* Fault model: acquire() does not set me._waiting = true.
SwapNoWaitingReset(t) ==
    /\ pc[t] = "ncs"
    /\ next' = [next EXCEPT ![t] = None]
    /\ pred' = [pred EXCEPT ![t] = tail]
    /\ tail' = t
    /\ pc' = [pc EXCEPT ![t] = IF tail = None THEN "cs" ELSE "link"]
    /\ UNCHANGED <<waiting, iter>>

\* me._next = NULL; me._waiting = true; pred = swap(&_tail, &me).  The node
\* writes are to this thread's own qnode, which no other thread can reach
\* before the swap publishes it.
Swap(t) ==
    /\ pc[t] = "ncs"
    /\ next' = [next EXCEPT ![t] = None]
    /\ waiting' = [waiting EXCEPT ![t] = TRUE]
    /\ pred' = [pred EXCEPT ![t] = tail]
    /\ tail' = t
    /\ pc' = [pc EXCEPT ![t] = IF tail = None THEN "cs" ELSE "link"]
    /\ UNCHANGED iter

\* pred->_next = &me.
Link(t) ==
    /\ pc[t] = "link"
    /\ next' = [next EXCEPT ![pred[t]] = t]
    /\ pc' = [pc EXCEPT ![t] = "spin"]
    /\ UNCHANGED <<tail, waiting, pred, iter>>

\* while(me._waiting);
Spin(t) ==
    /\ pc[t] = "spin"
    /\ ~waiting[t]
    /\ pc' = [pc EXCEPT ![t] = "cs"]
    /\ UNCHANGED <<tail, next, waiting, pred, iter>>

\* cs(): the critical section ends.
LeaveCs(t) ==
    /\ pc[t] = "cs"
    /\ pc' = [pc EXCEPT ![t] = "rel"]
    /\ UNCHANGED <<tail, next, waiting, pred, iter>>

-----------------------------------------------------------------------------
(* release(me) *)

\* if(!(next = me._next)): a successor has linked itself, or not yet.
ReadNext(t) ==
    /\ pc[t] = "rel"
    /\ pc' = [pc EXCEPT ![t] = IF next[t] # None THEN "signal" ELSE "tail"]
    /\ UNCHANGED <<tail, next, waiting, pred, iter>>

\* Fault model: release() stores _tail = NULL instead of the CAS.
CasTailBlindStore(t) ==
    /\ pc[t] = "tail"
    /\ tail' = None
    /\ EndIteration(t)
    /\ UNCHANGED <<next, waiting, pred>>

\* Fault model: a failed CAS returns without waiting for the successor's
\* link or waking it.
CasTailNoWait(t) ==
    /\ pc[t] = "tail"
    /\ IF tail = t THEN tail' = None ELSE UNCHANGED tail
    /\ EndIteration(t)
    /\ UNCHANGED <<next, waiting, pred>>

\* tail == &me && atomic_cas(&_tail, &me, NULL) == &me: the queue is left
\* empty and release returns; otherwise a successor has swapped itself in.
\* The read of _tail and the CAS are one step: a read that sees another
\* tail and a CAS that fails lead to the same spin.
CasTail(t) ==
    /\ pc[t] = "tail"
    /\ IF tail = t
       THEN tail' = None /\ EndIteration(t)
       ELSE UNCHANGED <<tail, iter>> /\ pc' = [pc EXCEPT ![t] = "waitnext"]
    /\ UNCHANGED <<next, waiting, pred>>

\* while(!(next = me._next));
WaitNext(t) ==
    /\ pc[t] = "waitnext"
    /\ next[t] # None
    /\ pc' = [pc EXCEPT ![t] = "signal"]
    /\ UNCHANGED <<tail, next, waiting, pred, iter>>

\* next->_waiting = false.
Signal(t) ==
    /\ pc[t] = "signal"
    /\ waiting' = [waiting EXCEPT ![next[t]] = FALSE]
    /\ EndIteration(t)
    /\ UNCHANGED <<tail, next, pred>>

-----------------------------------------------------------------------------
\* The test's qnode has no constructor: _next and _waiting start
\* uninitialised, and acquire() writes both before the swap publishes it.
Init ==
    /\ tail = None
    /\ next = [t \in Threads |-> None]
    /\ waiting = [t \in Threads |-> FALSE]
    /\ pred = [t \in Threads |-> None]
    /\ pc = [t \in Threads |-> IF Iters = 0 THEN "done" ELSE "ncs"]
    /\ iter = [t \in Threads |-> 0]

Step(t) ==
    \/ Swap(t) \/ Link(t) \/ Spin(t) \/ LeaveCs(t)
    \/ ReadNext(t) \/ CasTail(t) \/ WaitNext(t) \/ Signal(t)

AllDone == \A t \in Threads : pc[t] = "done"

Next == (\E t \in Threads : Step(t)) \/ (AllDone /\ UNCHANGED vars)

\* Every thread is a pthread the OS keeps running.
Spec == Init /\ [][Next]_vars /\ \A t \in Threads : WF_vars(Step(t))

-----------------------------------------------------------------------------
(* Refinement of QueueLock. *)

\* A thread still waits behind its pred until pred hands it the lock.
Queued(x) == pc[x] \in {"link", "spin"} /\ waiting[x]

\* The queue, read back from the tail along the waiters' preds.
RECURSIVE ChainTo(_)
ChainTo(x) ==
    IF x = None THEN <<>>
    ELSE IF Queued(x) THEN Append(ChainTo(pred[x]), x) ELSE <<x>>

Holder == IF \E t \in Threads : pc[t] = "cs"
          THEN CHOOSE t \in Threads : pc[t] = "cs" ELSE None

Fifo == INSTANCE QueueLock WITH q <- ChainTo(tail), crit <- Holder

-----------------------------------------------------------------------------
(* Properties *)

TypeOK ==
    /\ tail \in Threads \cup {None}
    /\ next \in [Threads -> Threads \cup {None}]
    /\ waiting \in [Threads -> BOOLEAN]
    /\ pred \in [Threads -> Threads \cup {None}]
    /\ pc \in [Threads -> {"ncs", "link", "spin", "cs", "rel", "tail",
                           "waitnext", "signal", "done"}]
    /\ iter \in [Threads -> 0..Iters]

\* Mutual exclusion of acquire()/release(): no two threads are between the
\* end of acquire() and the start of release() at once.
MutualExclusion ==
    \A s, t \in Threads : pc[s] = "cs" /\ pc[t] = "cs" => s = t

\* The MCS lock is a FIFO queue lock: the queue read back from _tail along
\* the preds, and the thread in cs(), move only as QueueLock allows, so the
\* lock is granted in the order of the swaps on _tail and a release hands
\* it to the thread that linked itself behind the holder.
FifoRefined == Fifo!Spec
=============================================================================

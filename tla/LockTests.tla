------------------------------ MODULE LockTests ------------------------------
(***************************************************************************)
(* The lock benchmark of src/src/tests/test_clh_lock.cpp.  main() runs     *)
(* each registered test in rounds: for k = 1, 2, ... threads it creates k  *)
(* threads, each running the test's loop (run()), and joins them all       *)
(* before the next round starts.  The global lock outlives the rounds; the *)
(* qnodes are on the threads' stacks and die with them.  The registered    *)
(* tests are clh_manual, clh_semiauto, clh_auto and mcs; the clh_* tests   *)
(* use clh_lock.h, which is not in the repository, and the earlier tests   *)
(* touch other locks, so only the mcs test's rounds are modelled.          *)
(*                                                                         *)
(* The tatas::rwlock class, driven by the TEST_RWLOCK loop the file keeps *)
(* under #if 0 "broken", is checked in the same behaviours: main() never   *)
(* starts that test, and its threads step only once main() has returned.  *)
(* The order is the model's, not the code's; the two share no state, and  *)
(* it keeps their state spaces from multiplying.  mcs_rwlock and          *)
(* fast_rwlock are McsRwLock and FastRwLock.                              *)
(***************************************************************************)
EXTENDS Naturals, FiniteSets

CONSTANTS
    Threads,   \* 1..THREADS, in the order main() creates them
    Iters,     \* local_count: iterations of each thread's loop
    None

VARIABLES
    round,                                         \* k: threads in the running round; 0 once main() returns
    mTail, mNext, mWaiting, mPred, mPc, mIter,     \* global_mcs_lock and the mcs test's threads
    tState, tPc, tIter, tOffset                    \* global_tatas_rwlock and its loop

mcsVars == <<mTail, mNext, mWaiting, mPred, mPc, mIter>>
tatasVars == <<tState, tPc, tIter, tOffset>>
vars == <<round, mcsVars, tatasVars>>

Mcs == INSTANCE McsLock
           WITH tail <- mTail, next <- mNext, waiting <- mWaiting,
                pred <- mPred, pc <- mPc, iter <- mIter

Tatas == INSTANCE TatasRwLock
             WITH state <- tState, pc <- tPc, iter <- tIter, offset <- tOffset

Rounds == Cardinality(Threads)

\* The threads of round k: the first k that pthread_create starts, each at
\* the top of run()'s loop with a fresh qnode on its stack.
RoundPc(k) == [t \in Threads |-> IF t <= k /\ Iters > 0 THEN "ncs" ELSE "done"]

RoundStart(k) ==
    /\ mPc' = RoundPc(k)
    /\ mIter' = [t \in Threads |-> 0]
    /\ mNext' = [t \in Threads |-> None]
    /\ mWaiting' = [t \in Threads |-> FALSE]
    /\ mPred' = [t \in Threads |-> None]

-----------------------------------------------------------------------------
\* A thread of the running round takes a step of its loop.
McsThread(t) ==
    /\ Mcs!Step(t)
    /\ UNCHANGED <<round, tatasVars>>

TatasThread(t) ==
    /\ round = 0
    /\ Tatas!Step(t)
    /\ UNCHANGED <<round, mcsVars>>

\* main() joins every thread of round k and starts round k + 1.  Only the
\* lock word is carried over.
NextRound ==
    /\ round \in 1..(Rounds - 1) /\ Mcs!AllDone
    /\ round' = round + 1
    /\ RoundStart(round + 1)
    /\ UNCHANGED <<mTail, tatasVars>>

\* main() joins the threads of the last round and returns.  The TATAS
\* threads then start, each with its thread-local dummy, hence its offset.
Finish ==
    /\ round = Rounds /\ Mcs!AllDone
    /\ round' = 0
    /\ tOffset' \in [Threads -> 0..3]
    /\ UNCHANGED <<mcsVars, tState, tPc, tIter>>

Main == NextRound \/ Finish

Init ==
    /\ round = 1
    /\ mTail = None
    /\ mPc = RoundPc(1) /\ mIter = [t \in Threads |-> 0]
    /\ mNext = [t \in Threads |-> None] /\ mPred = [t \in Threads |-> None]
    /\ mWaiting = [t \in Threads |-> FALSE]
    /\ tState = 0 /\ tOffset = [t \in Threads |-> 0]
    /\ tPc = [t \in Threads |-> IF Iters = 0 THEN "done" ELSE "ncs"]
    /\ tIter = [t \in Threads |-> 0]

Next == Main \/ \E t \in Threads : McsThread(t) \/ TatasThread(t)

\* Every thread and main() are pthreads the OS keeps running.
Spec ==
    /\ Init /\ [][Next]_vars
    /\ WF_vars(Main)
    /\ \A t \in Threads : WF_vars(McsThread(t)) /\ WF_vars(TatasThread(t))

-----------------------------------------------------------------------------
TypeOK ==
    /\ round \in 0..Rounds
    /\ Mcs!TypeOK
    /\ Tatas!TypeOK

\* Mutual exclusion of global_mcs_lock (see McsLock), across rounds.
McsMutualExclusion == Mcs!MutualExclusion

\* global_mcs_lock is a FIFO queue lock (see McsLock), across rounds.
McsFifo == Mcs!FifoRefined

\* Reader-writer exclusion of global_tatas_rwlock (see TatasRwLock).
TatasRWExclusion == Tatas!RWExclusion

\* main() returns: in every round every thread of the mcs test gets the
\* lock Iters times and leaves it free, so no round, and no later round
\* that inherits the lock word, spins forever in acquire() or in
\* release()'s wait for a successor's link.
TestsFinish == <>(round = 0)
=============================================================================

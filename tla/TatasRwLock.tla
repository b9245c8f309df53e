----------------------------- MODULE TatasRwLock -----------------------------
(***************************************************************************)
(* The test-and-test-and-set reader-writer lock tatas::rwlock of           *)
(* src/src/tests/test_clh_lock.cpp, driven by the loop of TEST_RWLOCK's    *)
(* _rwlock test: iteration i of a thread is a write when                   *)
(* ((i + offset) & 3) == 0, a read otherwise, where offset comes from the  *)
(* address of a thread-local variable (any value, as far as the model      *)
(* knows).                                                                 *)
(*                                                                         *)
(* _state holds the writer bit WRITER = 1 and READER = 2 per reader.  The  *)
(* retry loop of tatas() is its successful iteration: a read of _state, a  *)
(* failed CAS and the backoff change nothing, so the loop is a step        *)
(* guarded by the CAS succeeding.                                          *)
(***************************************************************************)
EXTENDS Naturals

CONSTANTS Threads, Iters

READER == 2
WRITER == 1

VARIABLES
    state,    \* _state
    pc,       \* "ncs", "rcs", "drain", "wcs", "done"
    iter,     \* iterations of the test loop each thread has finished
    offset    \* each thread's offset, ((long) &dummy >> 3) & 31, mod 4

vars == <<state, pc, iter, offset>>

\* ((i + offset) & 3) == 0: this iteration takes the write lock.
IsWrite(t) == (iter[t] + offset[t]) % 4 = 0

\* Fault model: the mask that clears the writer bit is lost.
ReadersOnlyUnmasked(s) == s

\* old_state & -READER: _state with the writer bit cleared.
ReadersOnly(s) == s - (s % 2)

\* The body of tatas(delta): exit the loop by the CAS from readers_only
\* to readers_only + delta, possible only when no writer bit is set.
Tatas(delta) ==
    /\ state = ReadersOnly(state)
    /\ state' = ReadersOnly(state) + delta

EndIteration(t) ==
    /\ iter' = [iter EXCEPT ![t] = @ + 1]
    /\ pc' = [pc EXCEPT ![t] = IF iter[t] + 1 = Iters THEN "done" ELSE "ncs"]

\* acquire_read(): tatas(READER).
AcquireRead(t) ==
    /\ pc[t] = "ncs" /\ ~IsWrite(t)
    /\ Tatas(READER)
    /\ pc' = [pc EXCEPT ![t] = "rcs"]
    /\ UNCHANGED <<iter, offset>>

\* Fault model: release_read() subtracts WRITER instead of READER.
ReleaseReadWrongDelta(t) ==
    /\ pc[t] = "rcs"
    /\ state' = state - WRITER
    /\ EndIteration(t)
    /\ UNCHANGED offset

\* release_read(): __sync_fetch_and_add(&_state, -READER).
ReleaseRead(t) ==
    /\ pc[t] = "rcs"
    /\ state' = state - READER
    /\ EndIteration(t)
    /\ UNCHANGED offset

\* acquire_write(), first half: stake the claim with tatas(WRITER).
AcquireWrite(t) ==
    /\ pc[t] = "ncs" /\ IsWrite(t)
    /\ Tatas(WRITER)
    /\ pc' = [pc EXCEPT ![t] = "drain"]
    /\ UNCHANGED <<iter, offset>>

\* acquire_write(), second half: while(_state != WRITER) backoff.
DrainReaders(t) ==
    /\ pc[t] = "drain"
    /\ state = WRITER
    /\ pc' = [pc EXCEPT ![t] = "wcs"]
    /\ UNCHANGED <<state, iter, offset>>

\* release_write(): __sync_lock_release(&_state) stores 0.
ReleaseWrite(t) ==
    /\ pc[t] = "wcs"
    /\ state' = 0
    /\ EndIteration(t)
    /\ UNCHANGED offset

Init ==
    /\ state = 0
    /\ pc = [t \in Threads |-> IF Iters = 0 THEN "done" ELSE "ncs"]
    /\ iter = [t \in Threads |-> 0]
    /\ offset \in [Threads -> 0..3]

Step(t) ==
    \/ AcquireRead(t) \/ ReleaseRead(t)
    \/ AcquireWrite(t) \/ DrainReaders(t) \/ ReleaseWrite(t)

AllDone == \A t \in Threads : pc[t] = "done"

Next == (\E t \in Threads : Step(t)) \/ (AllDone /\ UNCHANGED vars)

Spec == Init /\ [][Next]_vars /\ \A t \in Threads : WF_vars(Step(t))

-----------------------------------------------------------------------------
TypeOK ==
    /\ state \in Nat
    /\ pc \in [Threads -> {"ncs", "rcs", "drain", "wcs", "done"}]
    /\ iter \in [Threads -> 0..Iters]
    /\ offset \in [Threads -> 0..3]

\* Reader-writer exclusion of tatas::rwlock: a thread past acquire_write()
\* is alone past its acquire, whatever the readers' fetch_adds and the
\* writers' CASes did in between (the test is disabled as "broken").
RWExclusion ==
    \A s, t \in Threads :
        pc[s] = "wcs" /\ pc[t] \in {"rcs", "wcs"} => s = t
=============================================================================

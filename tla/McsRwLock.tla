------------------------------ MODULE McsRwLock ------------------------------
(***************************************************************************)
(* The queue-based reader-writer lock mcs_rwlock of                        *)
(* src/src/tests/test_clh_lock.cpp, driven by the loop of TEST_RWLOCK's    *)
(* _rwlock test (see TatasRwLock).  Every thread owns one qnode and        *)
(* reuses it in every iteration; a qnode is named by its thread.           *)
(*                                                                         *)
(* One step per read or write of shared memory, or per atomic; spin loops  *)
(* are guards; writes to the thread's own qnode before join_queue()        *)
(* publishes it are part of the join.  Memory is sequentially consistent.  *)
(***************************************************************************)
EXTENDS Naturals

CONSTANTS Threads, Iters, None

\* qnode::State
READER == "READER"
WRITER == "WRITER"
ACTIVE_READER == "ACTIVE_READER"

VARIABLES
    tail,       \* _tail
    prev,       \* each qnode's _prev
    next,       \* each qnode's _next
    nstate,     \* each qnode's _state
    waiting,    \* each qnode's _waiting
    locked,     \* each qnode's _locked, its spin lock
    pred,       \* each thread's local pred
    nxt,        \* each thread's local next
    predState,  \* acquire_read()'s local pred_state
    pc,
    iter,       \* iterations of the test loop each thread has finished
    offset      \* each thread's offset mod 4 (see TatasRwLock)

nodeVars == <<prev, next, nstate, waiting, locked>>
localVars == <<pred, nxt, predState>>
vars == <<tail, nodeVars, localVars, pc, iter, offset>>

IsWrite(t) == (iter[t] + offset[t]) % 4 = 0

Goto(t, l) == pc' = [pc EXCEPT ![t] = l]

EndIteration(t) ==
    /\ iter' = [iter EXCEPT ![t] = @ + 1]
    /\ Goto(t, IF iter[t] + 1 = Iters THEN "done" ELSE "ncs")

Set(f, x, v) == [f EXCEPT ![x] = v]

-----------------------------------------------------------------------------
(* acquire_write(me) *)

\* _state = WRITER, _waiting = true, _next = NULL; pred = join_queue(me).
AwJoin(t) ==
    /\ pc[t] = "ncs" /\ IsWrite(t)
    /\ nstate' = Set(nstate, t, WRITER)
    /\ waiting' = Set(waiting, t, TRUE)
    /\ next' = Set(next, t, None)
    /\ tail' = t
    /\ pred' = Set(pred, t, tail)
    /\ Goto(t, IF tail = None THEN "wcs" ELSE "awlink")
    /\ UNCHANGED <<prev, locked, nxt, predState, iter, offset>>

\* pred->_next = me.
AwLink(t) ==
    /\ pc[t] = "awlink"
    /\ next' = Set(next, pred[t], t)
    /\ Goto(t, "awspin")
    /\ UNCHANGED <<tail, prev, nstate, waiting, locked, localVars, iter, offset>>

\* while(me->_waiting).
AwSpin(t) ==
    /\ pc[t] = "awspin" /\ ~waiting[t]
    /\ Goto(t, "wcs")
    /\ UNCHANGED <<tail, nodeVars, localVars, iter, offset>>

-----------------------------------------------------------------------------
(* try_fast_leave_queue(me, new_value), shared by the three release paths: *)
(* from, casL, waitL and nextL are the caller's labels; nxt[t] holds the   *)
(* result, None when the CAS took me off the tail.                         *)

\* !(next = me->_next)
LeaveRead(t, from, casL, nextL) ==
    /\ pc[t] = from
    /\ nxt' = Set(nxt, t, next[t])
    /\ Goto(t, IF next[t] = None THEN casL ELSE nextL)
    /\ UNCHANGED <<tail, nodeVars, pred, predState, iter, offset>>

\* __sync_bool_compare_and_swap(&_tail, me, new_value); on success the
\* caller goes on as Left says.
LeaveCas(t, from, newValue, waitL, Left) ==
    /\ pc[t] = from
    /\ IF tail = t
       THEN tail' = newValue /\ Left
       ELSE UNCHANGED <<tail, iter>> /\ Goto(t, waitL)
    /\ UNCHANGED <<nodeVars, localVars, offset>>

\* while(!(next = me->_next))
LeaveWait(t, from, nextL) ==
    /\ pc[t] = from /\ next[t] # None
    /\ nxt' = Set(nxt, t, next[t])
    /\ Goto(t, nextL)
    /\ UNCHANGED <<tail, nodeVars, pred, predState, iter, offset>>

-----------------------------------------------------------------------------
(* release_write(me) *)

RwLeave(t) == LeaveRead(t, "wcs", "wcas", "wunlink")
RwCas(t) == LeaveCas(t, "wcas", None, "wwait", EndIteration(t))
RwWait(t) == LeaveWait(t, "wwait", "wunlink")

\* next->_prev = NULL.
RwUnlink(t) ==
    /\ pc[t] = "wunlink"
    /\ prev' = Set(prev, nxt[t], None)
    /\ Goto(t, "wwake")
    /\ UNCHANGED <<tail, next, nstate, waiting, locked, localVars, iter, offset>>

\* __sync_lock_release(&next->_waiting).
RwWake(t) ==
    /\ pc[t] = "wwake"
    /\ waiting' = Set(waiting, nxt[t], FALSE)
    /\ EndIteration(t)
    /\ UNCHANGED <<tail, prev, next, nstate, locked, localVars, offset>>

-----------------------------------------------------------------------------
(* acquire_read(me) *)

\* _state = READER, _waiting = true, _next = _prev = NULL; join_queue(me).
ArJoin(t) ==
    /\ pc[t] = "ncs" /\ ~IsWrite(t)
    /\ nstate' = Set(nstate, t, READER)
    /\ waiting' = Set(waiting, t, TRUE)
    /\ next' = Set(next, t, None)
    /\ prev' = Set(prev, t, None)
    /\ tail' = t
    /\ pred' = Set(pred, t, tail)
    /\ Goto(t, IF tail = None THEN "archeck" ELSE "arprev")
    /\ UNCHANGED <<locked, nxt, predState, iter, offset>>

\* me->_prev = pred.
ArPrev(t) ==
    /\ pc[t] = "arprev"
    /\ prev' = Set(prev, t, pred[t])
    /\ Goto(t, "arstate")
    /\ UNCHANGED <<tail, next, nstate, waiting, locked, localVars, iter, offset>>

\* pred_state = pred->_state.
ArState(t) ==
    /\ pc[t] = "arstate"
    /\ predState' = Set(predState, t, nstate[pred[t]])
    /\ Goto(t, "arlink")
    /\ UNCHANGED <<tail, nodeVars, pred, nxt, iter, offset>>

\* pred->_next = me; spin unless pred was an active reader.
ArLink(t) ==
    /\ pc[t] = "arlink"
    /\ next' = Set(next, pred[t], t)
    /\ Goto(t, IF predState[t] # ACTIVE_READER THEN "arspin" ELSE "archeck")
    /\ UNCHANGED <<tail, prev, nstate, waiting, locked, localVars, iter, offset>>

\* while(me->_waiting).
ArSpin(t) ==
    /\ pc[t] = "arspin" /\ ~waiting[t]
    /\ Goto(t, "archeck")
    /\ UNCHANGED <<tail, nodeVars, localVars, iter, offset>>

\* if(me->_next && ...): a successor has linked itself, or not yet.
ArCheck(t) ==
    /\ pc[t] = "archeck"
    /\ nxt' = Set(nxt, t, next[t])
    /\ Goto(t, IF next[t] = None THEN "aractive" ELSE "arwake")
    /\ UNCHANGED <<tail, nodeVars, pred, predState, iter, offset>>

\* ... me->_next->_state == READER) me->_next->_waiting = false.  The
\* successor spins, so its _state stays READER between the read and the
\* write.
ArWake(t) ==
    /\ pc[t] = "arwake"
    /\ waiting' = IF nstate[nxt[t]] = READER
                  THEN Set(waiting, nxt[t], FALSE) ELSE waiting
    /\ Goto(t, "aractive")
    /\ UNCHANGED <<tail, prev, next, nstate, locked, localVars, iter, offset>>

\* me->_state = ACTIVE_READER.
ArActive(t) ==
    /\ pc[t] = "aractive"
    /\ nstate' = Set(nstate, t, ACTIVE_READER)
    /\ Goto(t, "rcs")
    /\ UNCHANGED <<tail, prev, next, waiting, locked, localVars, iter, offset>>

-----------------------------------------------------------------------------
(* release_read(me) *)

\* pred = me->_prev, on leaving the critical section and again each time
\* round the while(pred) loop.
RrPrev(t) ==
    /\ pc[t] \in {"rcs", "rrprev"}
    /\ pred' = Set(pred, t, prev[t])
    /\ Goto(t, IF prev[t] = None THEN "rrlockme" ELSE "rrlockpred")
    /\ UNCHANGED <<tail, nodeVars, nxt, predState, iter, offset>>

\* pred->lock(): the test-and-set that finds the lock free.
RrLockPred(t) ==
    /\ pc[t] = "rrlockpred" /\ ~locked[pred[t]]
    /\ locked' = Set(locked, pred[t], TRUE)
    /\ Goto(t, "rrcheck")
    /\ UNCHANGED <<tail, prev, next, nstate, waiting, localVars, iter, offset>>

\* if(me->_prev == pred) break.
RrCheck(t) ==
    /\ pc[t] = "rrcheck"
    /\ Goto(t, IF prev[t] = pred[t] THEN "rrlockme" ELSE "rrunlock")
    /\ UNCHANGED <<tail, nodeVars, localVars, iter, offset>>

\* pred->unlock().
RrUnlock(t) ==
    /\ pc[t] = "rrunlock"
    /\ locked' = Set(locked, pred[t], FALSE)
    /\ Goto(t, "rrprev")
    /\ UNCHANGED <<tail, prev, next, nstate, waiting, localVars, iter, offset>>

\* me->lock().
RrLockMe(t) ==
    /\ pc[t] = "rrlockme" /\ ~locked[t]
    /\ locked' = Set(locked, t, TRUE)
    /\ Goto(t, IF pred[t] = None THEN "rhfast" ELSE "rnnull")
    /\ UNCHANGED <<tail, prev, next, nstate, waiting, localVars, iter, offset>>

\* With a predecessor: pred->_next = NULL, making it the tail.
RnNull(t) ==
    /\ pc[t] = "rnnull"
    /\ next' = Set(next, pred[t], None)
    /\ Goto(t, "rnfast")
    /\ UNCHANGED <<tail, prev, nstate, waiting, locked, localVars, iter, offset>>

RnLeave(t) == LeaveRead(t, "rnfast", "rncas", "rnfixprev")
RnCas(t) == LeaveCas(t, "rncas", pred[t], "rnwait",
                     Goto(t, "rnunlockpred") /\ UNCHANGED iter)
RnWait(t) == LeaveWait(t, "rnwait", "rnfixprev")

\* next->_prev = pred.
RnFixPrev(t) ==
    /\ pc[t] = "rnfixprev"
    /\ prev' = Set(prev, nxt[t], pred[t])
    /\ Goto(t, "rnfixnext")
    /\ UNCHANGED <<tail, next, nstate, waiting, locked, localVars, iter, offset>>

\* pred->_next = next.
RnFixNext(t) ==
    /\ pc[t] = "rnfixnext"
    /\ next' = Set(next, pred[t], nxt[t])
    /\ Goto(t, "rnunlockpred")
    /\ UNCHANGED <<tail, prev, nstate, waiting, locked, localVars, iter, offset>>

\* pred->unlock().
RnUnlockPred(t) ==
    /\ pc[t] = "rnunlockpred"
    /\ locked' = Set(locked, pred[t], FALSE)
    /\ Goto(t, "runlockme")
    /\ UNCHANGED <<tail, prev, next, nstate, waiting, localVars, iter, offset>>

\* At the head: make the successor the head.
RhLeave(t) == LeaveRead(t, "rhfast", "rhcas", "rhwake")
RhCas(t) == LeaveCas(t, "rhcas", None, "rhwait",
                     Goto(t, "runlockme") /\ UNCHANGED iter)
RhWait(t) == LeaveWait(t, "rhwait", "rhwake")

\* __sync_lock_release(&next->_waiting).
RhWake(t) ==
    /\ pc[t] = "rhwake"
    /\ waiting' = Set(waiting, nxt[t], FALSE)
    /\ Goto(t, "rhunlink")
    /\ UNCHANGED <<tail, prev, next, nstate, locked, localVars, iter, offset>>

\* next->_prev = NULL.
RhUnlink(t) ==
    /\ pc[t] = "rhunlink"
    /\ prev' = Set(prev, nxt[t], None)
    /\ Goto(t, "runlockme")
    /\ UNCHANGED <<tail, next, nstate, waiting, locked, localVars, iter, offset>>

\* me->unlock(); the iteration ends.
RrUnlockMe(t) ==
    /\ pc[t] = "runlockme"
    /\ locked' = Set(locked, t, FALSE)
    /\ EndIteration(t)
    /\ UNCHANGED <<tail, prev, next, nstate, waiting, localVars, offset>>

-----------------------------------------------------------------------------
\* The qnode constructor sets _prev, _next, _waiting and _locked; _state is
\* left uninitialised, and no thread reads it before its owner's join has
\* written it, so its initial value is immaterial.
Init ==
    /\ tail = None
    /\ prev = [t \in Threads |-> None]
    /\ next = [t \in Threads |-> None]
    /\ nstate = [t \in Threads |-> READER]
    /\ waiting = [t \in Threads |-> TRUE]
    /\ locked = [t \in Threads |-> FALSE]
    /\ pred = [t \in Threads |-> None]
    /\ nxt = [t \in Threads |-> None]
    /\ predState = [t \in Threads |-> READER]
    /\ pc = [t \in Threads |-> IF Iters = 0 THEN "done" ELSE "ncs"]
    /\ iter = [t \in Threads |-> 0]
    /\ offset \in [Threads -> 0..3]

Writer(t) ==
    \/ AwJoin(t) \/ AwLink(t) \/ AwSpin(t)
    \/ RwLeave(t) \/ RwCas(t) \/ RwWait(t) \/ RwUnlink(t) \/ RwWake(t)

Reader(t) ==
    \/ ArJoin(t) \/ ArPrev(t) \/ ArState(t) \/ ArLink(t) \/ ArSpin(t)
    \/ ArCheck(t) \/ ArWake(t) \/ ArActive(t)
    \/ RrPrev(t) \/ RrLockPred(t) \/ RrCheck(t) \/ RrUnlock(t) \/ RrLockMe(t)
    \/ RnNull(t) \/ RnLeave(t) \/ RnCas(t) \/ RnWait(t) \/ RnFixPrev(t)
    \/ RnFixNext(t) \/ RnUnlockPred(t)
    \/ RhLeave(t) \/ RhCas(t) \/ RhWait(t) \/ RhWake(t) \/ RhUnlink(t)
    \/ RrUnlockMe(t)

Step(t) == Writer(t) \/ Reader(t)

AllDone == \A t \in Threads : pc[t] = "done"

Next == (\E t \in Threads : Step(t)) \/ (AllDone /\ UNCHANGED vars)

Spec == Init /\ [][Next]_vars /\ \A t \in Threads : WF_vars(Step(t))

-----------------------------------------------------------------------------
\* Reader-writer exclusion of mcs_rwlock: a writer past acquire_write() is
\* alone past its acquire, whatever readers do between acquire_read()'s
\* wake-up of a reading successor and release_read()'s splice out of the
\* middle of the queue.  It fails: release_read() at the head of the queue
\* writes the successor's _waiting and _prev (lines 301-309) after the
\* successor may have left and joined again.
RWExclusion ==
    \A s, t \in Threads :
        pc[s] = "wcs" /\ pc[t] \in {"rcs", "wcs"} => s = t
=============================================================================

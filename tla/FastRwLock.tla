------------------------------ MODULE FastRwLock ------------------------------
(***************************************************************************)
(* The reader-writer lock fast_rwlock of src/src/tests/test_clh_lock.cpp,  *)
(* driven by the loop of TEST_RWLOCK's _rwlock test (see TatasRwLock).     *)
(*                                                                         *)
(* _state is a 64-bit word overlaid with two 32-bit halves, _writers and   *)
(* _readers.  A thread first tries up to three CASes on them (the fast     *)
(* path); if they fail it joins a CLH queue of qnodes and, at its head,    *)
(* stakes its claim in the halves.  CLH-style, the qnodes change hands: a  *)
(* queued thread leaves its own qnode to its successor and goes on with    *)
(* its predecessor's, so `me` is the qnode a thread holds now.  Besides    *)
(* one qnode per thread there is the lock's own, Dummy, the initial tail.  *)
(*                                                                         *)
(* A 32-bit half is kept as the integer congruent to it mod 2^32 that is   *)
(* nearest zero (0xFFFFFFFF is -1).  The code only adds small amounts and  *)
(* compares with 0, with each other or by the low bit, all of which that   *)
(* representation gets exactly.                                            *)
(*                                                                         *)
(* One step per read or write of shared memory, or per atomic; spin loops  *)
(* are guards.  Memory is sequentially consistent.                         *)
(***************************************************************************)
EXTENDS Integers

CONSTANTS
    Threads, Iters, None,
    Dummy,              \* the qnode fast_rwlock() allocates as _tail
    StakeHitsWriters    \* the GCC build on a little-endian machine (see RStake)

\* The value of acquire_write()'s cur_writer when the loop body never set it.
Uninit == -99

WRITE_CAS_ATTEMPTS == 3
READ_CAS_ATTEMPTS == 3

Nodes == Threads \cup {Dummy}

VARIABLES
    writers,   \* _state_halves._writers
    readers,   \* _state_halves._readers
    tail,      \* _tail
    npred,     \* each qnode's _pred
    nwaiting,  \* each qnode's _waiting
    me,        \* the qnode each thread holds
    oldw,      \* acquire_write()'s old_writer
    ticket,    \* acquire_write()'s have_ticket
    oldh,      \* the halves a thread read for its whole-state CAS
    attempt,   \* the fast path's loop counter i
    pc,
    iter,      \* iterations of the test loop each thread has finished
    offset     \* each thread's offset mod 4 (see TatasRwLock)

vars == <<writers, readers, tail, npred, nwaiting, me, oldw, ticket, oldh,
          attempt, pc, iter, offset>>

IsWrite(t) == (iter[t] + offset[t]) % 4 = 0

Goto(t, l) == pc' = [pc EXCEPT ![t] = l]

EndIteration(t) ==
    /\ iter' = [iter EXCEPT ![t] = @ + 1]
    /\ Goto(t, IF iter[t] + 1 = Iters THEN "done" ELSE "ncs")

Halves == [w |-> writers, r |-> readers]

\* A failed fast-path attempt: try again, or give up and join the queue.
NextAttempt(t, attempts, again, queue) ==
    /\ attempt' = [attempt EXCEPT ![t] = @ + 1]
    /\ Goto(t, IF attempt[t] + 1 < attempts THEN again ELSE queue)

\* me->_waiting = true; pred = swap(&_tail, me); me->_pred = pred.  The
\* qnode's _pred is read only by its holder, and by a successor only after
\* _waiting is false, so writing it with the swap changes no outcome.
Enqueue(t, l) ==
    /\ nwaiting' = [nwaiting EXCEPT ![me[t]] = TRUE]
    /\ npred' = [npred EXCEPT ![me[t]] = tail]
    /\ tail' = me[t]
    /\ Goto(t, l)

\* spin_queue(pred): while(pred->_waiting).
SpinQueue(t, l) ==
    /\ ~nwaiting[npred[me[t]]]
    /\ Goto(t, l)

-----------------------------------------------------------------------------
(* acquire_write(me) *)

\* have_ticket = false; old_writer = _state_halves._writers.
WRead(t) ==
    /\ pc[t] = "ncs" /\ IsWrite(t)
    /\ oldw' = [oldw EXCEPT ![t] = writers]
    /\ ticket' = [ticket EXCEPT ![t] = FALSE]
    /\ attempt' = [attempt EXCEPT ![t] = 0]
    /\ Goto(t, "wtest")
    /\ UNCHANGED <<writers, readers, tail, npred, nwaiting, me, oldh, iter, offset>>

\* if(_state > 0): the 64-bit word is non-zero.
WTest(t) ==
    /\ pc[t] = "wtest"
    /\ Goto(t, IF writers # 0 \/ readers # 0 THEN "wticket" ELSE "wsnap")
    /\ UNCHANGED <<writers, readers, tail, npred, nwaiting, me, oldw, ticket,
                   oldh, attempt, iter, offset>>

\* atomic_cas(&_writers, old_writer, old_writer+2): take a ticket and join
\* the queue, or remember the value seen in cur_writer and try again.  An
\* uninitialised old_writer may hold any value, the current one included.
WTicket(t) ==
    /\ pc[t] = "wticket"
    /\ \/ /\ oldw[t] \in {writers, Uninit}
          /\ writers' = writers + 2
          /\ ticket' = [ticket EXCEPT ![t] = TRUE]
          /\ Goto(t, "wswap")
          /\ UNCHANGED <<oldw, attempt>>
       \/ /\ oldw[t] # writers
          /\ oldw' = [oldw EXCEPT ![t] = writers]
          /\ NextAttempt(t, WRITE_CAS_ATTEMPTS, "wtest", "wswap")
          /\ UNCHANGED <<writers, ticket>>
    /\ UNCHANGED <<readers, tail, npred, nwaiting, me, oldh, iter, offset>>

\* old_state = _state_halves.
WSnap(t) ==
    /\ pc[t] = "wsnap"
    /\ oldh' = [oldh EXCEPT ![t] = Halves]
    /\ Goto(t, "wcas")
    /\ UNCHANGED <<writers, readers, tail, npred, nwaiting, me, oldw, ticket,
                   attempt, iter, offset>>

\* atomic_cas(&_state_halves, old_state, old_state with _writers + 1): the
\* write lock once the readers drain.  On failure old_writer = cur_writer,
\* which this iteration never assigned.
WCas(t) ==
    /\ pc[t] = "wcas"
    /\ \/ /\ Halves = oldh[t]
          /\ writers' = oldh[t].w + 1
          /\ Goto(t, "wdrain")
          /\ UNCHANGED <<oldw, attempt>>
       \/ /\ Halves # oldh[t]
          /\ oldw' = [oldw EXCEPT ![t] = Uninit]
          /\ NextAttempt(t, WRITE_CAS_ATTEMPTS, "wtest", "wswap")
          /\ UNCHANGED writers
    /\ UNCHANGED <<readers, tail, npred, nwaiting, me, ticket, oldh, iter, offset>>

\* while(_readers > 0); me->_pred = NULL.
WDrain(t) ==
    /\ pc[t] = "wdrain" /\ readers = 0
    /\ npred' = [npred EXCEPT ![me[t]] = None]
    /\ Goto(t, "wcs")
    /\ UNCHANGED <<writers, readers, tail, nwaiting, me, oldw, ticket, oldh,
                   attempt, iter, offset>>

\* The queue path: enqueue, then spin on the predecessor's qnode.
WSwap(t) ==
    /\ pc[t] = "wswap"
    /\ Enqueue(t, "wspin")
    /\ UNCHANGED <<writers, readers, me, oldw, ticket, oldh, attempt, iter, offset>>

WSpin(t) ==
    /\ pc[t] = "wspin"
    /\ SpinQueue(t, "wstake")
    /\ UNCHANGED <<writers, readers, tail, npred, nwaiting, me, oldw, ticket,
                   oldh, attempt, iter, offset>>

\* __sync_fetch_and_add(&_writers, have_ticket ? -1 : 1): the ticket of 2
\* becomes the head's 1.
WStake(t) ==
    /\ pc[t] = "wstake"
    /\ writers' = writers + (IF ticket[t] THEN -1 ELSE 1)
    /\ Goto(t, "whead")
    /\ UNCHANGED <<readers, tail, npred, nwaiting, me, oldw, ticket, oldh,
                   attempt, iter, offset>>

\* while(_readers > 0): at the head of the queue the writer ignores _writers.
WHead(t) ==
    /\ pc[t] = "whead" /\ readers = 0
    /\ Goto(t, "wcs")
    /\ UNCHANGED <<writers, readers, tail, npred, nwaiting, me, oldw, ticket,
                   oldh, attempt, iter, offset>>

-----------------------------------------------------------------------------
(* release_write(me) *)

\* pred = me->_pred; __sync_fetch_and_add(&_writers, -1); a fast-path
\* writer is done.
ReleaseWrite(t) ==
    /\ pc[t] = "wcs"
    /\ writers' = writers - 1
    /\ IF npred[me[t]] # None
       THEN Goto(t, "wpass") /\ UNCHANGED iter
       ELSE EndIteration(t)
    /\ UNCHANGED <<readers, tail, npred, nwaiting, me, oldw, ticket, oldh,
                   attempt, offset>>

\* A queued writer passes the baton, me->_waiting = false, and goes on with
\* its predecessor's qnode, me = pred.
WPass(t) ==
    /\ pc[t] = "wpass"
    /\ nwaiting' = [nwaiting EXCEPT ![me[t]] = FALSE]
    /\ me' = [me EXCEPT ![t] = npred[me[t]]]
    /\ EndIteration(t)
    /\ UNCHANGED <<writers, readers, tail, npred, oldw, ticket, oldh, attempt, offset>>

-----------------------------------------------------------------------------
(* acquire_read(me) *)

\* old_halves = _state_halves.
RRead(t) ==
    /\ pc[t] = "ncs" /\ ~IsWrite(t)
    /\ oldh' = [oldh EXCEPT ![t] = Halves]
    /\ attempt' = [attempt EXCEPT ![t] = 0]
    /\ Goto(t, "rtry")
    /\ UNCHANGED <<writers, readers, tail, npred, nwaiting, me, oldw, ticket,
                   iter, offset>>

\* One pass of the fast path: with no writer in old_halves, CAS it to one
\* more reader; on failure old_halves is the value the CAS saw.  A writer in
\* old_halves fails this pass and, since old_halves is then only given one
\* more reader and never re-read, every later pass without touching memory:
\* the thread joins the queue.
RTry(t) ==
    /\ pc[t] = "rtry"
    /\ \/ /\ oldh[t].w # 0
          /\ Goto(t, "rswap")
          /\ UNCHANGED <<readers, npred, oldh, attempt>>
       \/ /\ oldh[t].w = 0 /\ Halves = oldh[t]
          /\ readers' = readers + 1
          /\ npred' = [npred EXCEPT ![me[t]] = None]
          /\ Goto(t, "rcs")
          /\ UNCHANGED <<oldh, attempt>>
       \/ /\ oldh[t].w = 0 /\ Halves # oldh[t]
          /\ oldh' = [oldh EXCEPT ![t] = Halves]
          /\ NextAttempt(t, READ_CAS_ATTEMPTS, "rtry", "rswap")
          /\ UNCHANGED <<readers, npred>>
    /\ UNCHANGED <<writers, tail, nwaiting, me, oldw, ticket, iter, offset>>

RSwap(t) ==
    /\ pc[t] = "rswap"
    /\ Enqueue(t, "rspin")
    /\ UNCHANGED <<writers, readers, me, oldw, ticket, oldh, attempt, iter, offset>>

RSpin(t) ==
    /\ pc[t] = "rspin"
    /\ SpinQueue(t, "rwait")
    /\ UNCHANGED <<writers, readers, tail, npred, nwaiting, me, oldw, ticket,
                   oldh, attempt, iter, offset>>

\* while(_writers & 1): the current writer, if any, leaves.
RWait(t) ==
    /\ pc[t] = "rwait" /\ writers % 2 = 0
    /\ Goto(t, "rstake")
    /\ UNCHANGED <<writers, readers, tail, npred, nwaiting, me, oldw, ticket,
                   oldh, attempt, iter, offset>>

\* Stake the claim.  The SPARC build does atomic_inc_32(&_readers); the GCC
\* build does __sync_fetch_and_add(&_state, 1) on the 64-bit word, whose low
\* half is _writers on a little-endian machine (a carry out of it lands in
\* _readers) and _readers on a big-endian one.
RStake(t) ==
    /\ pc[t] = "rstake"
    /\ IF StakeHitsWriters
       THEN /\ writers' = IF writers = -1 THEN 0 ELSE writers + 1
            /\ readers' = IF writers = -1 THEN readers + 1 ELSE readers
       ELSE /\ readers' = readers + 1
            /\ UNCHANGED writers
    /\ Goto(t, "rpass")
    /\ UNCHANGED <<tail, npred, nwaiting, me, oldw, ticket, oldh, attempt, iter, offset>>

\* me->_waiting = false; pred->_pred = pred; return pred: the baton passes at
\* once, and the reader goes on with its predecessor's qnode.
RPass(t) ==
    /\ pc[t] = "rpass"
    /\ nwaiting' = [nwaiting EXCEPT ![me[t]] = FALSE]
    /\ npred' = [npred EXCEPT ![npred[me[t]]] = npred[me[t]]]
    /\ me' = [me EXCEPT ![t] = npred[me[t]]]
    /\ Goto(t, "rcs")
    /\ UNCHANGED <<writers, readers, tail, oldw, ticket, oldh, attempt, iter, offset>>

\* release_read(): one reader fewer in _readers, on both builds.
ReleaseRead(t) ==
    /\ pc[t] = "rcs"
    /\ readers' = readers - 1
    /\ EndIteration(t)
    /\ UNCHANGED <<writers, tail, npred, nwaiting, me, oldw, ticket, oldh,
                   attempt, offset>>

-----------------------------------------------------------------------------
\* The lock is constructed with _state = 0 and a fresh qnode as _tail; each
\* thread's init is `me = new fast_rwlock::qnode`.  qnode() sets _pred =
\* NULL and _waiting = false.
Init ==
    /\ writers = 0 /\ readers = 0
    /\ tail = Dummy
    /\ npred = [n \in Nodes |-> None]
    /\ nwaiting = [n \in Nodes |-> FALSE]
    /\ me = [t \in Threads |-> t]
    /\ oldw = [t \in Threads |-> 0]
    /\ ticket = [t \in Threads |-> FALSE]
    /\ oldh = [t \in Threads |-> [w |-> 0, r |-> 0]]
    /\ attempt = [t \in Threads |-> 0]
    /\ pc = [t \in Threads |-> IF Iters = 0 THEN "done" ELSE "ncs"]
    /\ iter = [t \in Threads |-> 0]
    /\ offset \in [Threads -> 0..3]

Writer(t) ==
    \/ WRead(t) \/ WTest(t) \/ WTicket(t) \/ WSnap(t) \/ WCas(t) \/ WDrain(t)
    \/ WSwap(t) \/ WSpin(t) \/ WStake(t) \/ WHead(t)
    \/ ReleaseWrite(t) \/ WPass(t)

Reader(t) ==
    \/ RRead(t) \/ RTry(t) \/ RSwap(t) \/ RSpin(t) \/ RWait(t) \/ RStake(t)
    \/ RPass(t) \/ ReleaseRead(t)

Step(t) == Writer(t) \/ Reader(t)

AllDone == \A t \in Threads : pc[t] = "done"

Next == (\E t \in Threads : Step(t)) \/ (AllDone /\ UNCHANGED vars)

Spec == Init /\ [][Next]_vars /\ \A t \in Threads : WF_vars(Step(t))

-----------------------------------------------------------------------------
\* Reader-writer exclusion of fast_rwlock: a writer past acquire_write() is
\* alone past its acquire.  It fails: a queued writer at the head of the
\* queue waits only for _readers to drain (line 440), never for a writer
\* that took the lock by the fast path, and on the little-endian GCC build a
\* queued reader's claim goes to _writers (line 526), unseen by the writer's
\* wait for _readers.
RWExclusion ==
    \A s, t \in Threads :
        pc[s] = "wcs" /\ pc[t] \in {"rcs", "wcs"} => s = t
=============================================================================

------------------------------- MODULE Flusher -------------------------------
(***************************************************************************)
(* The staged group-commit log flusher (src/src/sm/shore/shore_flusher.cpp) *)
(* and the worker threads that hand it commit requests.                     *)
(*                                                                         *)
(* A worker writes its commit record at the end of the log, queues a       *)
(* request carrying the record's LSN on _toflush and blocks on the         *)
(* request's notifier.  The flusher thread runs _work_ACTIVE_impl: it      *)
(* drains _toflush, parks undurable requests on _flushing, decides whether *)
(* to sync the log, and notifies everything on _flushing.  On stop it runs *)
(* _pre_STOP_impl, which notifies whatever is left on both queues.         *)
(*                                                                         *)
(* LSNs are byte offsets into one flat log: a record at LSN l is durable   *)
(* once the durable LSN (the end of the flushed log) is above l.  Each     *)
(* step of the flusher is one queue operation or one call into the log;   *)
(* the queues are internally synchronised, so each push or pop is atomic.  *)
(* The worker side (the commit path, Queue, notify_client) is not under    *)
(* src/ and follows spec.md section 4.5.                                   *)
(***************************************************************************)
EXTENDS Integers, Sequences, FiniteSets, SequencesExt

CONSTANTS
    Workers,        \* worker threads that commit transactions
    MaxXcts,        \* bound: commits per worker
    MaxGroupSize,   \* flusher-group-size
    MaxLogSize,     \* flusher-log-size, in records
    AllowStop       \* whether the flusher may be told to stop

ASSUME /\ MaxXcts \in Nat \ {0}
       /\ MaxGroupSize \in Nat \ {0}
       /\ MaxLogSize \in Nat \ {0}
       /\ AllowStop \in BOOLEAN

\* A commit request: the k-th commit of worker w.
Requests == [w : Workers, k : 1..MaxXcts]

VARIABLES
    curr,        \* the end of the log: LSN the next record gets
    durable,     \* get_durable_lsn(): end of the durable log
    wpc,         \* worker: "idle", or in wait() on its notifier ("wait", "blocked")
    nflag,       \* each worker's notifier's _notified
    ncancel,     \* each worker's notifier's _cancelled
    done,        \* commits each worker has made
    reqLsn,      \* my_last_lsn() of each request; 0 before it exists
    toflush,     \* _toflush
    flushing,    \* _flushing
    fpc,         \* flusher: "loop", "drain", "decide", "check", "prestop", "stopped"
    dlsn,        \* the flusher's local durablelsn
    maxlsn,      \* the flusher's local maxlsn
    waiting,     \* the flusher's local waiting counter
    shouldFlush, \* bShouldFlush
    sleepNext,   \* bSleepNext
    expired,     \* the flush timeout ts has passed
    control,     \* get_control(): "active" or "stop"
    notes,       \* history: notifications each request has received
    late         \* history: requests queued after _pre_STOP_impl drained

vars == <<curr, durable, wpc, nflag, ncancel, done, reqLsn, toflush, flushing, fpc, dlsn,
          maxlsn, waiting, shouldFlush, sleepNext, expired, control, notes,
          late>>

flusherVars == <<fpc, dlsn, maxlsn, waiting, shouldFlush, sleepNext>>

\* Each worker waits on its own notify_t; the worker's place in wait() is wpc.
N == INSTANCE Notifier
     WITH Owners <- Workers, notified <- nflag, cancelled <- ncancel, npc <- wpc

-----------------------------------------------------------------------------
\* _log_diff(head, tail): bytes of log between two LSNs.  On a flat log the
\* partition arithmetic of the code reduces to the offset difference.
LogDiff(head, tail) == head - tail

\* notify_client() for every request in S: notify() on its worker's notifier.
NotifyAll(S) ==
    /\ notes' = [r \in Requests |-> IF r \in S THEN notes[r] + 1 ELSE notes[r]]
    /\ N!Notify({r.w : r \in S})

\* sync_log(): the log is durable up to its current end.
SyncLog == durable' = curr

-----------------------------------------------------------------------------
(* Workers and the environment. *)

\* A worker commits: its commit record goes to the end of the log and its
\* request onto _toflush; it then calls wait() on its notifier.
Commit(w) ==
    LET r == [w |-> w, k |-> done[w] + 1]
    IN /\ wpc[w] = "idle"
       /\ done[w] < MaxXcts
       /\ reqLsn' = [reqLsn EXCEPT ![r] = curr]
       /\ curr' = curr + 1
       /\ toflush' = Append(toflush, r)
       /\ N!Call(w)
       /\ done' = [done EXCEPT ![w] = @ + 1]
       /\ late' = IF fpc = "stopped" THEN late \cup {r} ELSE late
       /\ UNCHANGED <<durable, flushing, notes, control, expired, flusherVars>>

\* The worker's wait() tests its notifier's flags under the lock, and
\* returns or blocks.
WaitTest(w) ==
    /\ N!Test(w)
    /\ UNCHANGED <<curr, durable, done, reqLsn, toflush, flushing, control,
                   expired, notes, late, flusherVars>>

\* The worker's pthread_cond_wait returns without a signal.
WaitSpurious(w) ==
    /\ N!Spurious(w)
    /\ UNCHANGED <<curr, durable, done, reqLsn, toflush, flushing, control,
                   expired, notes, late, flusherVars>>

\* The log manager flushes part of the log on its own (a full buffer, or a
\* sync of another thread).
LogFlushes ==
    /\ durable < curr
    /\ \E d \in (durable + 1)..curr : durable' = d
    /\ UNCHANGED <<curr, wpc, nflag, ncancel, done, reqLsn, toflush, flushing, control,
                   expired, notes, late, flusherVars>>

\* Time passes the flush deadline ts.
Tick ==
    /\ ~expired
    /\ expired' = TRUE
    /\ UNCHANGED <<curr, durable, wpc, nflag, ncancel, done, reqLsn, toflush, flushing,
                   control, notes, late, flusherVars>>

\* The worker's controller asks the flusher to stop.
Stop ==
    /\ AllowStop
    /\ control = "active"
    /\ control' = "stop"
    /\ UNCHANGED <<curr, durable, wpc, nflag, ncancel, done, reqLsn, toflush, flushing,
                   expired, notes, late, flusherVars>>

-----------------------------------------------------------------------------
(* The flusher thread: one iteration of the while loop of _work_ACTIVE_impl. *)

\* Fault model: the loop head reads the end of the log, not its durable end.
LoopStartReadsEnd ==
    /\ fpc = "loop"
    /\ IF control = "active"
       THEN /\ fpc' = "drain" /\ dlsn' = curr /\ maxlsn' = curr
            /\ shouldFlush' = FALSE
       ELSE /\ fpc' = "prestop" /\ UNCHANGED <<dlsn, maxlsn, shouldFlush>>
    /\ UNCHANGED <<waiting, sleepNext, curr, durable, wpc, nflag, ncancel, done, reqLsn,
                   toflush, flushing, expired, control, notes, late>>

\* Test the loop condition; if still active, read the durable LSN.
LoopStart ==
    /\ fpc = "loop"
    /\ IF control = "active"
       THEN /\ fpc' = "drain" /\ dlsn' = durable /\ maxlsn' = durable
            /\ shouldFlush' = FALSE
       ELSE /\ fpc' = "prestop" /\ UNCHANGED <<dlsn, maxlsn, shouldFlush>>
    /\ UNCHANGED <<waiting, sleepNext, curr, durable, wpc, nflag, ncancel, done, reqLsn,
                   toflush, flushing, expired, control, notes, late>>

\* Fault model: the already-durable test made with >= instead of >.
DrainPopAtDurable ==
    LET r == Head(toflush)
    IN /\ fpc = "drain"
       /\ toflush # <<>>
       /\ toflush' = Tail(toflush)
       /\ IF dlsn >= reqLsn[r]
          THEN /\ NotifyAll({r})
               /\ UNCHANGED <<flushing, waiting, maxlsn>>
          ELSE /\ flushing' = Append(flushing, r)
               /\ waiting' = waiting + 1
               /\ maxlsn' = IF reqLsn[r] > maxlsn THEN reqLsn[r] ELSE maxlsn
               /\ UNCHANGED <<notes, wpc, nflag, ncancel>>
       /\ sleepNext' = FALSE
       /\ UNCHANGED <<fpc, dlsn, shouldFlush, curr, durable, done, reqLsn,
                      expired, control, late>>

\* Pop one request.  One already durable is notified at once; any other is
\* parked on _flushing.
DrainPop ==
    LET r == Head(toflush)
    IN /\ fpc = "drain"
       /\ toflush # <<>>
       /\ toflush' = Tail(toflush)
       /\ IF dlsn > reqLsn[r]
          THEN /\ NotifyAll({r})
               /\ UNCHANGED <<flushing, waiting, maxlsn>>
          ELSE /\ flushing' = Append(flushing, r)
               /\ waiting' = waiting + 1
               /\ maxlsn' = IF reqLsn[r] > maxlsn THEN reqLsn[r] ELSE maxlsn
               /\ UNCHANGED <<notes, wpc, nflag, ncancel>>
       /\ sleepNext' = FALSE
       /\ UNCHANGED <<fpc, dlsn, shouldFlush, curr, durable, done, reqLsn,
                      expired, control, late>>

\* pop() on an empty queue after a sleep decision returns NULL only when the
\* thread is told to stop; otherwise it blocks until a request arrives.
DrainPopNull ==
    /\ fpc = "drain"
    /\ toflush = <<>>
    /\ sleepNext
    /\ control = "stop"
    /\ sleepNext' = FALSE
    /\ UNCHANGED <<fpc, dlsn, maxlsn, waiting, shouldFlush, curr, durable,
                   wpc, nflag, ncancel, done, reqLsn, toflush, flushing, expired, control,
                   notes, late>>

\* The drain loop ends: nothing queued and no sleep pending.
DrainEnd ==
    /\ fpc = "drain"
    /\ toflush = <<>>
    /\ ~sleepNext
    /\ fpc' = "decide"
    /\ UNCHANGED <<dlsn, maxlsn, waiting, shouldFlush, sleepNext, curr,
                   durable, wpc, nflag, ncancel, done, reqLsn, toflush, flushing, expired,
                   control, notes, late>>

\* Decide whether to flush: by group size, by log size, by timeout; else a
\* sync_log() if anything is waiting, and sleep in the next drain.
Decide ==
    /\ fpc = "decide"
    /\ fpc' = "check"
    /\ IF waiting >= MaxGroupSize \/ LogDiff(maxlsn, dlsn) >= MaxLogSize
       THEN /\ shouldFlush' = TRUE
            /\ UNCHANGED <<expired, sleepNext, durable>>
       ELSE IF expired
       THEN /\ shouldFlush' = TRUE /\ expired' = FALSE
            /\ UNCHANGED <<sleepNext, durable>>
       ELSE /\ IF waiting > 0 THEN SyncLog ELSE UNCHANGED durable
            /\ sleepNext' = TRUE
            /\ UNCHANGED <<shouldFlush, expired>>
    /\ UNCHANGED <<dlsn, maxlsn, waiting, curr, wpc, nflag, ncancel, done, reqLsn, toflush,
                   flushing, control, notes, late>>

\* Fault model: the notify loop reads _flushing without popping it.
FlushAndNotifyKeepsQueue ==
    /\ fpc = "check"
    /\ IF control # "active"
       THEN /\ fpc' = "prestop"
            /\ UNCHANGED <<durable, waiting, dlsn, flushing, notes, wpc, nflag, ncancel>>
       ELSE /\ fpc' = "loop"
            /\ IF shouldFlush
               THEN SyncLog /\ waiting' = 0
               ELSE UNCHANGED <<durable, waiting>>
            /\ dlsn' = durable'
            /\ NotifyAll(ToSet(flushing))
            /\ UNCHANGED flushing
    /\ UNCHANGED <<maxlsn, shouldFlush, sleepNext, curr, done, reqLsn,
                   toflush, expired, control, late>>

\* Leave the loop if stopped; else flush if decided, re-read the durable
\* LSN and notify everything on _flushing.
FlushAndNotify ==
    /\ fpc = "check"
    /\ IF control # "active"
       THEN /\ fpc' = "prestop"
            /\ UNCHANGED <<durable, waiting, dlsn, flushing, notes, wpc, nflag, ncancel>>
       ELSE /\ fpc' = "loop"
            /\ IF shouldFlush
               THEN SyncLog /\ waiting' = 0
               ELSE UNCHANGED <<durable, waiting>>
            /\ dlsn' = durable'
            /\ NotifyAll(ToSet(flushing))
            /\ flushing' = <<>>
    /\ UNCHANGED <<maxlsn, shouldFlush, sleepNext, curr, done, reqLsn,
                   toflush, expired, control, late>>

\* _pre_STOP_impl: notify whatever is left on both queues, without a sync.
PreStop ==
    /\ fpc = "prestop"
    /\ NotifyAll(ToSet(flushing) \cup ToSet(toflush))
    /\ flushing' = <<>>
    /\ toflush' = <<>>
    /\ fpc' = "stopped"
    /\ UNCHANGED <<dlsn, maxlsn, waiting, shouldFlush, sleepNext, curr,
                   durable, done, reqLsn, expired, control, late>>

-----------------------------------------------------------------------------
\* flusher_t(): _toflush and _flushing are created empty.
QueuesInit == toflush = <<>> /\ flushing = <<>>

Init ==
    /\ curr = 1
    /\ durable = 1
    /\ N!Init
    /\ done = [w \in Workers |-> 0]
    /\ reqLsn = [r \in Requests |-> 0]
    /\ QueuesInit
    /\ fpc = "loop"
    /\ dlsn = 0 /\ maxlsn = 0 /\ waiting = 0
    /\ shouldFlush = FALSE /\ sleepNext = FALSE
    /\ expired = FALSE
    /\ control = "active"
    /\ notes = [r \in Requests |-> 0]
    /\ late = {}

FlusherStep == LoopStart \/ DrainPop \/ DrainPopNull \/ DrainEnd \/ Decide
               \/ FlushAndNotify \/ PreStop

\* Every worker has made its commits and been answered, and the flusher
\* sleeps in pop(), or the flusher has stopped: nothing more happens.
Quiescent ==
    \/ fpc = "stopped"
    \/ /\ \A w \in Workers : done[w] = MaxXcts /\ wpc[w] = "idle"
       /\ fpc = "drain" /\ toflush = <<>> /\ sleepNext /\ control = "active"
       /\ durable = curr /\ expired
Done == Quiescent /\ UNCHANGED vars

Next == \/ \E w \in Workers : Commit(w) \/ WaitTest(w) \/ WaitSpurious(w)
        \/ LogFlushes \/ Tick \/ Stop
        \/ FlusherStep
        \/ Done

\* The flusher is a dedicated thread, runnable whenever its next step is
\* enabled, and so is a worker in wait() that is not blocked on the
\* condition variable.  Commits, the log manager, the clock, the controller
\* and spurious wakeups get no fairness: nothing makes them happen.
Spec == /\ Init /\ [][Next]_vars /\ WF_vars(FlusherStep)
        /\ \A w \in Workers : WF_vars(WaitTest(w))

-----------------------------------------------------------------------------
(* Properties. *)

TypeOK ==
    /\ curr \in Nat /\ durable \in 1..curr
    /\ wpc \in [Workers -> {"idle", "wait", "blocked"}]
    /\ nflag \in [Workers -> BOOLEAN] /\ ncancel \in [Workers -> BOOLEAN]
    /\ done \in [Workers -> 0..MaxXcts]
    /\ reqLsn \in [Requests -> 0..curr]
    /\ toflush \in Seq(Requests) /\ flushing \in Seq(Requests)
    /\ fpc \in {"loop", "drain", "decide", "check", "prestop", "stopped"}
    /\ waiting \in Nat
    /\ dlsn \in 0..durable
    /\ control \in {"active", "stop"}
    /\ notes \in [Requests -> Nat]
    /\ late \subseteq Requests

\* Durability (spec.md section 8): no worker is told its commit is durable
\* before its commit record is; the flusher's "already durable" test and its
\* notify-all after a sync (with its assert xctlsn < durablelsn) rely on it.
NoEarlyNotify == \A r \in Requests : notes[r] > 0 => reqLsn[r] < durable

\* Durability of the loop's notifications: until _pre_STOP_impl runs, every
\* notification comes from the drain's already-durable test or from the
\* notify loop after the flush decision, and each of them finds the commit
\* record durable, also when a stop arrives between the decision and the
\* flush (the early return at line 310).
LoopNotifiesDurable == fpc # "stopped" => NoEarlyNotify

\* Every request is answered at most once, whichever of the drain, the
\* notify-all and the stop path answers it.
NotifiedOnce == \A r \in Requests : notes[r] <= 1

\* A worker's wait() on its notifier returns only when its last commit has
\* been answered: the while loop around pthread_cond_wait rechecks
\* _notified after every wakeup, spurious or not, and a notification of an
\* earlier commit never survives to release a later wait().
WakesOnlyWhenNotified ==
    \A w \in Workers :
        wpc[w] = "idle" /\ done[w] > 0 => notes[[w |-> w, k |-> done[w]]] > 0

\* A worker waiting on a commit queued before _pre_STOP_impl drains the
\* queues eventually returns from wait(): the flusher answers the request
\* (already durable, synced by a group, size or timeout flush, by the lazy
\* sync, or by the stop path), and notify() both sets _notified and signals
\* the condition, whether the worker has blocked yet or not.
WorkersReturn ==
    \A r \in Requests :
        (done[r.w] = r.k /\ wpc[r.w] # "idle" /\ r \notin late)
            ~> wpc[r.w] = "idle"
=============================================================================

------------------------------ MODULE DoraTpcb ------------------------------
(***************************************************************************)
(* DORA routing of TPC-B's account update                                  *)
(* (src/src/dora/tpcb/dora_tpcb_xct.cpp, dora_acct_update), composed with *)
(* the partitions it enqueues on and the final RVP's countdown latch.      *)
(*                                                                         *)
(* A driver thread begins a transaction, creates its final RVP (a latch of *)
(* four) and its four actions, and enqueues them on the partitions of the  *)
(* branch, teller, account and history tables.  The branch partition's     *)
(* enqueue lock is held for the whole block; the other three locks are     *)
(* taken and released before their enqueue.  One worker per partition pops *)
(* actions, runs them and posts to the RVP; the terminal post runs the     *)
(* final callback, commit or abort.                                        *)
(*                                                                         *)
(* The partition queue, its worker and the RVP are not under src/ and      *)
(* follow spec.md sections 4.6, 4.7 and 5: the enqueue lock protects the   *)
(* queue against other pushers (its worker's pops are safe against a      *)
(* push).  A push is therefore two steps: it reads the queue's tail, then  *)
(* links its action.  If another push linked an action in between, the two *)
(* unsynchronised tail updates race, a data race whose outcomes include   *)
(* both actions landing and the later writer's action being lost.          *)
(* The latch post is the atomic step of CountdownLatch, which Countdown    *)
(* is checked to implement.                                                *)
(***************************************************************************)
EXTENDS Integers, Sequences, FiniteSets

CONSTANTS
    Drivers,     \* driver threads, one transaction each
    Branches,    \* partition numbers of every table
    Home,        \* Home[d]: the branch of d's teller (b_id, t_id)
    AcctBranch,  \* AcctBranch[d]: the branch a_id belongs to
    ActErrors,   \* outcomes of trx_exec: {FALSE}, or BOOLEAN to allow errors
    None

Kinds == <<"br", "te", "ac", "hi">>   \* enqueue order of dora_acct_update
KindSet == {"br", "te", "ac", "hi"}

ASSUME /\ Home \in [Drivers -> Branches]
       /\ AcctBranch \in [Drivers -> Branches]
       /\ ActErrors \subseteq BOOLEAN /\ ActErrors # {}

\* A partition: a table and a partition number.
Parts == KindSet \X Branches

\* An action: the transaction (its driver) and the table it works on.
Actions == [d : Drivers, k : KindSet]

\* decide_part(): branch and teller by the home branch, account and history
\* by the account's branch.
Route(d, k) == <<k, IF k \in {"br", "te"} THEN Home[d] ELSE AcctBranch[d]>>

VARIABLES
    queue,     \* each partition's action queue
    plock,     \* each partition's _enqueue_lock: holder or None
    dpc,       \* driver: "begin", "lock", "read", "write", "release", "done"
    step,      \* index in Kinds of the action the driver is enqueueing
    snap,      \* the partition's push count the driver's push read as its tail
    pushes,    \* history: pushes linked on each partition so far
    wcur,      \* the action each partition's worker is running, or None
    rem,       \* each transaction's RVP countdown: posts left
    failed,    \* the RVP latch is in its error state
    final,     \* the final callback run for each transaction: "none", "commit", "abort"
    runs       \* history: times each action's trx_exec ran

vars == <<queue, plock, dpc, step, snap, pushes, wcur, rem, failed, final, runs>>

ActionAt(d) == [d |-> d, k |-> Kinds[step[d]]]
PartAt(d) == Route(d, Kinds[step[d]])

\* Variables the driver's steps leave alone.
workerVars == <<wcur, rem, failed, final, runs>>

-----------------------------------------------------------------------------
(* The driver: dora_acct_update. *)

\* Begin the transaction, detach from it, create the final RVP (countdown of
\* four) and the four actions.
Begin(d) ==
    /\ dpc[d] = "begin"
    /\ dpc' = [dpc EXCEPT ![d] = "lock"]
    /\ step' = [step EXCEPT ![d] = 1]
    /\ UNCHANGED <<queue, plock, snap, pushes>> /\ UNCHANGED workerVars

\* CRITICAL_SECTION on the partition's _enqueue_lock: the branch lock is
\* kept for the rest of the block, the others are exited at once.
TakeLock(d) ==
    LET p == PartAt(d)
    IN /\ dpc[d] = "lock"
       /\ plock[p] = None
       /\ plock' = IF step[d] = 1 THEN [plock EXCEPT ![p] = d] ELSE plock
       /\ dpc' = [dpc EXCEPT ![d] = "read"]
       /\ UNCHANGED <<queue, step, snap, pushes>> /\ UNCHANGED workerVars

\* enqueue(): read the queue's tail ...
EnqRead(d) ==
    /\ dpc[d] = "read"
    /\ snap' = [snap EXCEPT ![d] = pushes[PartAt(d)]]
    /\ dpc' = [dpc EXCEPT ![d] = "write"]
    /\ UNCHANGED <<queue, plock, step, pushes>> /\ UNCHANGED workerVars

\* Fault model: the block is left after the account action, before the history one.
EnqWriteSkipsHistory(d) ==
    LET p == PartAt(d)
    IN /\ dpc[d] = "write"
       /\ \/ queue' = [queue EXCEPT ![p] = Append(@, ActionAt(d))]
          \/ pushes[p] # snap[d] /\ UNCHANGED queue
       /\ pushes' = [pushes EXCEPT ![p] = @ + 1]
       /\ IF step[d] < Len(Kinds) - 1
          THEN dpc' = [dpc EXCEPT ![d] = "lock"] /\ step' = [step EXCEPT ![d] = @ + 1]
          ELSE dpc' = [dpc EXCEPT ![d] = "release"] /\ UNCHANGED step
       /\ UNCHANGED <<plock, snap>> /\ UNCHANGED workerVars

\* ... and link the action after it.  When a push was linked since the read,
\* the racing updates may lose this action.  The enqueue returns success
\* either way; the driver goes on to the next table, or leaves the block.
EnqWrite(d) ==
    LET p == PartAt(d)
    IN /\ dpc[d] = "write"
       /\ \/ queue' = [queue EXCEPT ![p] = Append(@, ActionAt(d))]
          \/ pushes[p] # snap[d] /\ UNCHANGED queue
       /\ pushes' = [pushes EXCEPT ![p] = @ + 1]
       /\ IF step[d] < Len(Kinds)
          THEN dpc' = [dpc EXCEPT ![d] = "lock"] /\ step' = [step EXCEPT ![d] = @ + 1]
          ELSE dpc' = [dpc EXCEPT ![d] = "release"] /\ UNCHANGED step
       /\ UNCHANGED <<plock, snap>> /\ UNCHANGED workerVars

\* The block ends: br_part_cs releases the branch partition's lock.
Release(d) ==
    /\ dpc[d] = "release"
    /\ plock' = [plock EXCEPT ![Route(d, "br")] = None]
    /\ dpc' = [dpc EXCEPT ![d] = "done"]
    /\ UNCHANGED <<queue, step, snap, pushes>> /\ UNCHANGED workerVars

-----------------------------------------------------------------------------
(* Partition workers and the final RVP. *)

\* The worker takes the action at the head of its partition's queue.
Pop(p) ==
    /\ wcur[p] = None
    /\ queue[p] # <<>>
    /\ wcur' = [wcur EXCEPT ![p] = Head(queue[p])]
    /\ queue' = [queue EXCEPT ![p] = Tail(queue[p])]
    /\ UNCHANGED <<plock, dpc, step, snap, pushes, rem, failed, final, runs>>

\* Fault model: the "did some other thread report an error?" test is dropped.
LatchPostIgnoresError(d, e) ==
    /\ rem' = [rem EXCEPT ![d] = IF e THEN 0 ELSE @ - 1]
    /\ failed' = [failed EXCEPT ![d] = @ \/ e]

\* countdown_t::post(is_error) on the transaction's RVP: a post after the
\* error state changes nothing, an error post sets it, any other decrements.
LatchPost(d, e) ==
    /\ rem' = [rem EXCEPT ![d] = IF failed[d] \/ e THEN 0 ELSE @ - 1]
    /\ failed' = [failed EXCEPT ![d] = @ \/ e]

\* The post's return value: it set the error state, or took the count to zero.
Terminal(d, e) == ~failed[d] /\ (e \/ rem[d] = 1)

\* The worker runs the action's trx_exec, which succeeds or fails, posts to
\* the RVP and, if its post was terminal, runs the final callback: commit on
\* success, abort on error.
Execute(p) ==
    LET a == wcur[p]
    IN /\ a # None
       /\ \E e \in ActErrors :
            /\ LatchPost(a.d, e)
            /\ IF Terminal(a.d, e)
               THEN final' = [final EXCEPT ![a.d] = IF e THEN "abort" ELSE "commit"]
               ELSE UNCHANGED final
       /\ runs' = [runs EXCEPT ![a] = @ + 1]
       /\ wcur' = [wcur EXCEPT ![p] = None]
       /\ UNCHANGED <<queue, plock, dpc, step, snap, pushes>>

-----------------------------------------------------------------------------
Init ==
    /\ queue = [p \in Parts |-> <<>>]
    /\ plock = [p \in Parts |-> None]
    /\ dpc = [d \in Drivers |-> "begin"]
    /\ step = [d \in Drivers |-> 1]
    /\ snap = [d \in Drivers |-> 0]
    /\ pushes = [p \in Parts |-> 0]
    /\ wcur = [p \in Parts |-> None]
    /\ rem = [d \in Drivers |-> Len(Kinds)]
    /\ failed = [d \in Drivers |-> FALSE]
    /\ final = [d \in Drivers |-> "none"]
    /\ runs = [a \in Actions |-> 0]

Driver(d) == Begin(d) \/ TakeLock(d) \/ EnqRead(d) \/ EnqWrite(d) \/ Release(d)
Worker(p) == Pop(p) \/ Execute(p)

\* Every driver has left dora_acct_update and every worker is idle on an
\* empty queue: the run is over.
Quiescent ==
    /\ \A d \in Drivers : dpc[d] = "done"
    /\ \A p \in Parts : queue[p] = <<>> /\ wcur[p] = None

Next == \/ \E d \in Drivers : Driver(d)
        \/ \E p \in Parts : Worker(p)
        \/ Quiescent /\ UNCHANGED vars

\* Drivers and partition workers are threads that run while they can.
Spec == Init /\ [][Next]_vars
        /\ \A d \in Drivers : WF_vars(Driver(d))
        /\ \A p \in Parts : WF_vars(Worker(p))

-----------------------------------------------------------------------------
(* Properties *)

TypeOK ==
    /\ queue \in [Parts -> Seq(Actions)]
    /\ plock \in [Parts -> Drivers \cup {None}]
    /\ dpc \in [Drivers -> {"begin", "lock", "read", "write", "release", "done"}]
    /\ step \in [Drivers -> 1..Len(Kinds)]
    /\ wcur \in [Parts -> Actions \cup {None}]
    /\ rem \in [Drivers -> 0..Len(Kinds)]
    /\ final \in [Drivers -> {"none", "commit", "abort"}]
    /\ runs \in [Actions -> Nat]

\* Every action dora_acct_update enqueues is eventually run by its partition's
\* worker, and every transaction's final callback eventually runs.
ActionsRunAndFinish ==
    <>(/\ \A a \in Actions : runs[a] = 1
       /\ \A d \in Drivers : final[d] # "none")
=============================================================================

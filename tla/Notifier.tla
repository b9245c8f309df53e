------------------------------- MODULE Notifier -------------------------------
(***************************************************************************)
(* notify_t of src/include/engine/thread.h: two flags, _notified and       *)
(* _cancelled, under one mutex with one condition variable.  There is one  *)
(* notifier per owner, and the owner is the thread that waits on it.       *)
(*                                                                         *)
(* Every method runs under _lock, so each is one step.  The only exception *)
(* is wait(), which releases the lock inside pthread_cond_wait:            *)
(*   "idle"    not in wait();                                              *)
(*   "wait"    in wait(), about to test the flags under the lock;          *)
(*   "blocked" in pthread_cond_wait.                                       *)
(* pthread_cond_wait returns on a signal, or spuriously.  A signal moves a *)
(* blocked waiter back to "wait" as part of the signalling step.  A        *)
(* spurious return is a step of its own that nothing forces to happen.     *)
(***************************************************************************)
CONSTANTS Owners

VARIABLES
    notified,    \* each notifier's _notified
    cancelled,   \* each notifier's _cancelled
    npc          \* its owner's place in wait()

nvars == <<notified, cancelled, npc>>

\* notify_t(): both flags false; the owner is not waiting.
Init ==
    /\ notified = [o \in Owners |-> FALSE]
    /\ cancelled = [o \in Owners |-> FALSE]
    /\ npc = [o \in Owners |-> "idle"]

\* wait(): the owner enters and takes _lock.
Call(o) ==
    /\ npc[o] = "idle"
    /\ npc' = [npc EXCEPT ![o] = "wait"]
    /\ UNCHANGED <<notified, cancelled>>

\* wait_holding_lock(): while(!_notified && !_cancelled) blocks in
\* pthread_cond_wait, releasing _lock; else both flags are cleared and
\* wait() returns _cancelled.  Several notifications before this test are
\* one event.
Test(o) ==
    /\ npc[o] = "wait"
    /\ IF notified[o] \/ cancelled[o]
       THEN /\ notified' = [notified EXCEPT ![o] = FALSE]
            /\ cancelled' = [cancelled EXCEPT ![o] = FALSE]
            /\ npc' = [npc EXCEPT ![o] = "idle"]
       ELSE /\ npc' = [npc EXCEPT ![o] = "blocked"]
            /\ UNCHANGED <<notified, cancelled>>

\* Fault model: the flag test is an if, so wait() returns from any wake.
SpuriousReturns(o) ==
    /\ npc[o] = "blocked"
    /\ notified' = [notified EXCEPT ![o] = FALSE]
    /\ cancelled' = [cancelled EXCEPT ![o] = FALSE]
    /\ npc' = [npc EXCEPT ![o] = "idle"]

\* pthread_cond_wait returns without a signal and retakes _lock; the while
\* loop tests the flags again.
Spurious(o) ==
    /\ npc[o] = "blocked"
    /\ npc' = [npc EXCEPT ![o] = "wait"]
    /\ UNCHANGED <<notified, cancelled>>

\* Fault model: signal() sets the flag but does not signal the condition.
SignalNoWake(flag, S) ==
    /\ flag' = [o \in Owners |-> flag[o] \/ o \in S]
    /\ UNCHANGED npc

\* signal(val) on the notifiers of S, each under its _lock: val = true;
\* pthread_cond_signal wakes the owner if it is blocked.
Signal(flag, S) ==
    /\ flag' = [o \in Owners |-> flag[o] \/ o \in S]
    /\ npc' = [o \in Owners |-> IF o \in S /\ npc[o] = "blocked" THEN "wait" ELSE npc[o]]

\* notify(): signal(_notified).
Notify(S) == Signal(notified, S) /\ UNCHANGED cancelled

\* cancel(): signal(_cancelled).
Cancel(S) == Signal(cancelled, S) /\ UNCHANGED notified

\* The notifiers on their own: owners wait, any thread notifies or cancels.
Next ==
    \E o \in Owners :
        Call(o) \/ Test(o) \/ Spurious(o) \/ Notify({o}) \/ Cancel({o})

\* An owner in wait() that can take the lock does.
Spec == Init /\ [][Next]_nvars /\ \A o \in Owners : WF_nvars(Test(o))
=============================================================================

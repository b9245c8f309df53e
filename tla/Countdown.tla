------------------------------ MODULE Countdown ------------------------------
(***************************************************************************)
(* countdown_t (src/src/util/countdown.cpp): one atomic int, _state, set   *)
(* to NUMBER * count; post(is_error) reads it, then runs a compare-and-    *)
(* swap loop while the value is at least 2 * NUMBER, and otherwise takes   *)
(* the last-caller path, which stores with a plain write.  Each thread in  *)
(* Posters posts once, as the actions of one DORA transaction do.          *)
(*                                                                         *)
(* NUMBER and ERROR come from util/countdown.h, which is not in the        *)
(* repository; they are constants here.  Asserts are compiled out, as in  *)
(* a release build: the code after a failing assert runs.                 *)
(***************************************************************************)
EXTENDS Integers, FiniteSets

CONSTANTS
    Posters,   \* threads that post, one post each
    NUMBER,    \* countdown_t::NUMBER: the weight of one remaining post
    ERROR      \* countdown_t::ERROR: the error value of _state

ASSUME /\ NUMBER \in Nat \ {0}
       /\ ERROR \in Nat /\ ERROR < NUMBER
       /\ Posters # {}

Count == Cardinality(Posters)

VARIABLES
    state,   \* _state
    old,     \* each poster's old_value
    pc,      \* "idle", "loop" (in post()), "done"
    ret,     \* post()'s return value, once returned
    err      \* is_error of each poster's post

vars == <<state, old, pc, ret, err>>

\* countdown_t(count).
Init ==
    /\ state = NUMBER * Count
    /\ old = [p \in Posters |-> 0]
    /\ pc = [p \in Posters |-> "idle"]
    /\ ret = [p \in Posters |-> FALSE]
    /\ err \in [Posters -> BOOLEAN]

\* int old_value = *&_state;
Read(p) ==
    /\ pc[p] = "idle"
    /\ old' = [old EXCEPT ![p] = state]
    /\ pc' = [pc EXCEPT ![p] = "loop"]
    /\ UNCHANGED <<state, ret, err>>

\* Fault model: the retry keeps the stale old_value.
CasStepNoRefresh(p) ==
    LET new == IF err[p] THEN ERROR ELSE old[p] - 1
    IN /\ pc[p] = "loop"
       /\ old[p] >= 2 * NUMBER
       /\ IF state = old[p]
          THEN /\ state' = new
               /\ ret' = [ret EXCEPT ![p] = err[p]]
               /\ pc' = [pc EXCEPT ![p] = "done"]
               /\ UNCHANGED old
          ELSE UNCHANGED <<state, ret, pc, old>>
       /\ UNCHANGED err

\* Fault model: the decrement takes two off the count.
CasStepDoubleDecrement(p) ==
    LET new == IF err[p] THEN ERROR ELSE old[p] - 2
    IN /\ pc[p] = "loop"
       /\ old[p] >= 2 * NUMBER
       /\ IF state = old[p]
          THEN /\ state' = new
               /\ ret' = [ret EXCEPT ![p] = err[p]]
               /\ pc' = [pc EXCEPT ![p] = "done"]
               /\ UNCHANGED old
          ELSE /\ old' = [old EXCEPT ![p] = state]
               /\ UNCHANGED <<state, ret, pc>>
       /\ UNCHANGED err

\* One pass of the while loop: atomic_cas_32(&_state, old_value, new_value);
\* on success return is_error, else retry with the value seen.
CasStep(p) ==
    LET new == IF err[p] THEN ERROR ELSE old[p] - 1
    IN /\ pc[p] = "loop"
       /\ old[p] >= 2 * NUMBER
       /\ IF state = old[p]
          THEN /\ state' = new
               /\ ret' = [ret EXCEPT ![p] = err[p]]
               /\ pc' = [pc EXCEPT ![p] = "done"]
               /\ UNCHANGED old
          ELSE /\ old' = [old EXCEPT ![p] = state]
               /\ UNCHANGED <<state, ret, pc>>
       /\ UNCHANGED err

\* Fault model: the test for an earlier error dropped.
LastNoErrorCheck(p) ==
    /\ pc[p] = "loop"
    /\ old[p] < 2 * NUMBER
    /\ state' = IF err[p] THEN ERROR ELSE 0
    /\ ret' = [ret EXCEPT ![p] = TRUE]
    /\ pc' = [pc EXCEPT ![p] = "done"]
    /\ UNCHANGED <<old, err>>

\* The loop is left: return false after an error, else this is the last
\* caller, which stores 0 or ERROR and returns true.
Last(p) ==
    /\ pc[p] = "loop"
    /\ old[p] < 2 * NUMBER
    /\ IF old[p] = ERROR
       THEN UNCHANGED <<state, ret>>
       ELSE /\ state' = IF err[p] THEN ERROR ELSE 0
            /\ ret' = [ret EXCEPT ![p] = TRUE]
    /\ pc' = [pc EXCEPT ![p] = "done"]
    /\ UNCHANGED <<old, err>>

Post(p) == Read(p) \/ CasStep(p) \/ Last(p)

AllDone == \A p \in Posters : pc[p] = "done"

Next == (\E p \in Posters : Post(p)) \/ (AllDone /\ UNCHANGED vars)

\* Every poster is a thread the OS keeps scheduling.
Spec == Init /\ [][Next]_vars /\ \A p \in Posters : WF_vars(Post(p))

-----------------------------------------------------------------------------
(* Properties. *)

\* Countdown correctness (spec.md section 8): once every action has posted,
\* exactly one post() returned true, so the RVP's callback runs once.
ExactlyOneTerminal ==
    AllDone => Cardinality({p \in Posters : ret[p]}) = 1

\* Some error post has completed: the error state of _state is its doing.
ErrorPosted == \E p \in Posters : err[p] /\ pc[p] = "done"

\* The abstract latch: _state = ERROR is the error state once an error post
\* has completed; otherwise _state counts NUMBER per post left.
LatchFailed == state = ERROR /\ ErrorPosted
LatchRem == IF LatchFailed THEN 0 ELSE state \div NUMBER

Latch == INSTANCE CountdownLatch
            WITH rem <- LatchRem, failed <- LatchFailed,
                 posted <- {p \in Posters : pc[p] = "done"}

\* post() is linearizable: the CAS loop and the last-caller store implement
\* the atomic latch of CountdownLatch under every interleaving.
LatchRefined == Latch!Spec

\* The CAS loop is lock-free: every post() returns.
PostsReturn == <>AllDone
=============================================================================

---------------------------- MODULE CountdownLatch ----------------------------
(***************************************************************************)
(* What countdown_t promises (spec.md sections 3 and 4.1): a latch set to  *)
(* the number of posters; each post(is_error) is one atomic step.  A post  *)
(* with is_error puts the latch into a permanent error state and is the    *)
(* terminal post; once in error, later posts return false; otherwise the  *)
(* post that brings the count to zero is the terminal one.                 *)
(***************************************************************************)
EXTENDS Integers, FiniteSets

CONSTANTS Posters

VARIABLES
    rem,     \* remaining posts; 0 once in error
    failed,  \* the latch is in its error state
    ret,     \* what each poster's post() returned (FALSE until it returns)
    posted,  \* posters whose post() has returned
    err      \* the is_error argument each poster passes

vars == <<rem, failed, ret, posted, err>>

Init ==
    /\ rem = Cardinality(Posters)
    /\ failed = FALSE
    /\ ret = [p \in Posters |-> FALSE]
    /\ posted = {}
    /\ err \in [Posters -> BOOLEAN]

Post(p) ==
    /\ p \notin posted
    /\ posted' = posted \cup {p}
    /\ IF failed
       THEN UNCHANGED <<rem, failed, ret>>
       ELSE IF err[p]
       THEN /\ failed' = TRUE /\ rem' = 0
            /\ ret' = [ret EXCEPT ![p] = TRUE]
       ELSE /\ rem' = rem - 1 /\ UNCHANGED failed
            /\ ret' = [ret EXCEPT ![p] = (rem = 1)]
    /\ UNCHANGED err

Next == (\E p \in Posters : Post(p)) \/ (posted = Posters /\ UNCHANGED vars)

Spec == Init /\ [][Next]_vars
=============================================================================

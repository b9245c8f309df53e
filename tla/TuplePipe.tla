------------------------------- MODULE TuplePipe -------------------------------
(***************************************************************************)
(* What a tuple-FIFO promises its two threads (spec.md section 4.4,        *)
(* Contract, Operations and Failure semantics), with pages and buffering   *)
(* abstracted away.  The producer puts tuples and sends EOF; the consumer  *)
(* takes, one page at a time, a run of the oldest tuples not yet taken,    *)
(* and is told EOF only once the producer sent it and nothing remains.     *)
(* Either side may terminate; "whichever side calls first wins", and the   *)
(* other side's next operation fails with Terminated.                      *)
(***************************************************************************)
EXTENDS Naturals

CONSTANTS MaxTuples   \* how many tuples the producer puts at most

VARIABLES
    put,     \* tuples the producer has put
    got,     \* tuples the consumer has been handed
    closed,  \* send_eof() succeeded
    term,    \* the FIFO is terminated
    wEnd,    \* how the producer stopped: "none" (not yet), "eof", "term"
    rEnd     \* how the consumer stopped: "none", "eof", "term"

pvars == <<put, got, closed, term, wEnd, rEnd>>

Sides == {"writer", "reader"}

End(side) == IF side = "writer" THEN wEnd ELSE rEnd

SetEnd(side, e) ==
    IF side = "writer" THEN wEnd' = e /\ UNCHANGED rEnd
                       ELSE rEnd' = e /\ UNCHANGED wEnd

Init ==
    /\ put = 0 /\ got = 0
    /\ closed = FALSE /\ term = FALSE
    /\ wEnd = "none" /\ rEnd = "none"

\* put_tuple(t).
Put ==
    /\ wEnd = "none" /\ put < MaxTuples
    /\ put' = put + 1
    /\ UNCHANGED <<got, closed, term, wEnd, rEnd>>

\* send_eof() returning true: the producer never touches the FIFO again.
SendEof ==
    /\ wEnd = "none" /\ ~term
    /\ closed' = TRUE /\ wEnd' = "eof"
    /\ UNCHANGED <<put, got, term, rEnd>>

\* get_page(): the next k tuples, in the order they were put.
Get(k) ==
    /\ rEnd = "none" /\ ~term
    /\ got + k <= put
    /\ got' = got + k
    /\ UNCHANGED <<put, closed, term, wEnd, rEnd>>

\* The consumer is told EOF: the producer sent it and no tuple remains.
ReadEof ==
    /\ rEnd = "none"
    /\ closed /\ got = put
    /\ rEnd' = "eof"
    /\ UNCHANGED <<put, got, closed, term, wEnd>>

\* terminate(): the first call on an open FIFO terminates it; a call after
\* the other side terminated, or after EOF was sent, changes nothing.
\* Either way the caller stops.
Terminate(side) ==
    /\ End(side) = "none"
    /\ term' = (term \/ ~closed)
    /\ SetEnd(side, "term")
    /\ UNCHANGED <<put, got, closed>>

\* A side's operation fails with Terminated.
Fail(side) ==
    /\ End(side) = "none" /\ term
    /\ SetEnd(side, "term")
    /\ UNCHANGED <<put, got, closed, term>>

Producer == Put \/ SendEof \/ Fail("writer")
Consumer == (\E k \in 1..MaxTuples : Get(k)) \/ ReadEof \/ Fail("reader")

Next == Producer \/ Consumer \/ (\E s \in Sides : Terminate(s))
        \/ (wEnd # "none" /\ rEnd # "none" /\ UNCHANGED pvars)

\* Neither side stalls while it can go on; terminating is a choice.
Spec == Init /\ [][Next]_pvars /\ WF_pvars(Producer) /\ WF_pvars(Consumer)
=============================================================================

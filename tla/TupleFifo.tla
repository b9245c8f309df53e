------------------------------ MODULE TupleFifo ------------------------------
(***************************************************************************)
(* The QPipe tuple_fifo (src/src/core/tuple_fifo.cpp): a single-producer, *)
(* single-consumer pipe of tuple pages between two query operators, with  *)
(* a bounded in-memory page list and, under the FLUSH_TO_DISK_ON_FULL      *)
(* policy, a temporary file the page list is spilled to.                  *)
(*                                                                         *)
(* One writer thread and one reader thread share the FIFO.  Every method   *)
(* body that runs under the FIFO's mutex is one atomic step here; a        *)
(* thread_cond_wait splits a method in two, since it releases the mutex.  *)
(* A page is abstracted to the tuples it carries: the number of its first *)
(* tuple and its tuple count.  Tuples are numbered 0, 1, 2, ... in the     *)
(* order the writer puts them.                                             *)
(*                                                                         *)
(* Page indices are size_t in the code, and -1 marks an empty list, an     *)
(* empty file or a finished writer; NoIdx is that value, larger than every *)
(* real index, so the code's range tests behave here as they do there.     *)
(***************************************************************************)
EXTENDS Integers, Sequences, FiniteSets

CONSTANTS
    Capacity,             \* _capacity: pages the in-memory list may hold
    Threshold,            \* _threshold: pages a woken waiter waits for
    PageCap,              \* tuples that fit in one page
    MaxTuples,            \* bound: tuples the writer puts before it stops
    FlushToDiskOnFull,    \* FLUSH_TO_DISK_ON_FULL
    WaitForUnsharedToDrain, \* WAIT_FOR_UNSHARED_TUPLE_FIFOS_TO_DRAIN
    ReadModes,            \* copy_page/get_tuple timeouts the reader uses
    NoIdx                 \* (size_t)-1

ASSUME /\ Capacity \in Nat \ {0}
       /\ Threshold \in 1..Capacity
       /\ PageCap \in Nat \ {0}
       /\ MaxTuples \in Nat
       /\ FlushToDiskOnFull \in BOOLEAN
       /\ WaitForUnsharedToDrain \in BOOLEAN
       /\ ReadModes \subseteq {"block", "timed", "poll"}
       /\ NoIdx \in Nat /\ NoIdx > MaxTuples + 1

VARIABLES
    fstate,      \* _state
    pages,       \* _pages: the in-memory page list
    file,        \* contents of the temporary file, one page per slot
    afr,         \* _available_fifo_reads
    listHead,    \* _list_head_page_index
    listTail,    \* _list_tail_page_index
    fileHead,    \* _file_head_page_index
    fileTail,    \* _file_tail_page_index
    writeIdx,    \* _write_page_index
    nextRead,    \* _next_read_page_index
    readPage,    \* _read_page (Sentinel before the first page)
    shared,      \* _is_shared
    wpCount,     \* tuples in _write_page
    wpc,         \* writer: "run", "wait" (in wait_for_reader), "eof", "term"
    wPending,    \* the call the waiting writer is in: "put" or "eof"
    wWaiting,    \* writer blocked on _writer_notify and not yet signalled
    rpc,         \* reader: "run", "wait" (in wait_for_writer), "eof", "term"
    rMode,       \* timeout mode of the reader's pending call
    rWaiting,    \* reader blocked on _reader_notify and not yet signalled
    produced,    \* history: tuples the writer has put
    received,    \* history: tuples the reader has been handed
    written,     \* history: pages handed to the FIFO (list or file)
    nfree,       \* length of _free_pages
    readBuf,     \* _read_page's buffer: "none" (the sentinel), "list" (one
                 \* _add_read_page_to_free_list sends back to _free_pages) or
                 \* "own" (a buffer malloc'ed to read the file into)
    live,        \* history: page buffers allocated and not yet freed
    duty,        \* the threads that left the FIFO owing its deletion
    deleters     \* the threads that have called destroy()

vars == <<fstate, pages, file, afr, listHead, listTail, fileHead, fileTail,
          writeIdx, nextRead, readPage, shared, wpCount, wpc, wPending,
          wWaiting, rpc, rMode, rWaiting, produced, received, written,
          nfree, readBuf, live, duty, deleters>>

Threads == {"writer", "reader"}

States == {"IN_MEMORY", "IN_MEMORY_DONE_WRITING", "ON_DISK",
           "ON_DISK_DONE_WRITING", "IN_MEMORY_TERMINATED", "ON_DISK_TERMINATED"}

Page == [first : 0..MaxTuples, n : 0..PageCap]
\* What a read of a file slot that was never written yields.
Garbage == [first |-> -1, n |-> PageCap]
Sentinel == [first |-> -1, n |-> 0]

-----------------------------------------------------------------------------
(* State predicates of tuple_fifo_state_t. *)

IsInMemory == fstate \in {"IN_MEMORY", "IN_MEMORY_DONE_WRITING", "IN_MEMORY_TERMINATED"}
IsDoneWriting == fstate \in {"IN_MEMORY_DONE_WRITING", "ON_DISK_DONE_WRITING"}
IsTerminated == fstate \in {"IN_MEMORY_TERMINATED", "ON_DISK_TERMINATED"}

\* _available_memory_writes(): free slots of the in-memory list.
AvailableMemoryWrites == Capacity - Len(pages)

\* The page the writer is filling.
WritePage == [first |-> produced - wpCount, n |-> wpCount]

\* write()/lseek(): put 'data' into the file starting at slot 'base'; the
\* file grows when the write runs past its end and never shrinks.
WriteAt(f, base, data) ==
    LET len == IF base + Len(data) > Len(f) THEN base + Len(data) ELSE Len(f)
    IN [i \in 1..len |-> IF i > base /\ i <= base + Len(data)
                         THEN data[i - base] ELSE f[i]]

\* read_full_page() at slot 'pos'; a slot past the end yields Garbage.
ReadSlot(pos) == IF pos \in 0..(Len(file) - 1) THEN file[pos + 1] ELSE Garbage

\* ensure_reader_running() / ensure_writer_running(): thread_cond_signal.
SignalReaderIf(c) == rWaiting' = (rWaiting /\ ~c)
SignalWriterIf(c) == wWaiting' = (wWaiting /\ ~c)

\* Fault model: _alloc_page() mallocs without looking at _free_pages.
AllocAlwaysMalloc == nfree' = nfree /\ live' = live + 1

\* _write_page = _alloc_page(): a buffer from _free_pages when it has one,
\* else a newly allocated one.
Alloc == IF nfree > 0 THEN nfree' = nfree - 1 /\ UNCHANGED live
         ELSE nfree' = nfree /\ live' = live + 1

\* The write page's buffer after it was added to the list: at EOF,
\* _write_page.done() frees it if it stayed (empty) in the guard; otherwise
\* a fresh write page is allocated.
NextWritePage(eof, nonempty) ==
    IF eof THEN nfree' = nfree /\ live' = IF nonempty THEN live ELSE live - 1
    ELSE Alloc

\* A spill writes the list pages out, clears them and moves them onto
\* _free_pages; the write page is written, cleared and kept, unless
\* send_eof()'s _write_page.done() frees it.
SpillBuffers(eof) ==
    /\ nfree' = nfree + Len(pages)
    /\ live' = IF eof THEN live - 1 ELSE live

-----------------------------------------------------------------------------
(* The writer's side of _flush_write_page(done_writing), after its wait   *)
(* loop.  Each operator leaves wpCount, produced and the writer's control *)
(* to the caller.                                                          *)

\* Fault model: the memory-only wait loop tests one page short.
MustWaitOffByOne(thr) ==
    IF FlushToDiskOnFull
    THEN WaitForUnsharedToDrain /\ ~shared /\ AvailableMemoryWrites < thr
    ELSE AvailableMemoryWrites < thr - 1

\* The writer waits (or keeps waiting) for the reader to drain the list.
MustWait(thr) ==
    IF FlushToDiskOnFull
    THEN WaitForUnsharedToDrain /\ ~shared /\ AvailableMemoryWrites < thr
    ELSE AvailableMemoryWrites < thr

\* Fault model: the list-head test made after the page count was bumped
\* (the code tests _pages_in_memory == 1 after the increment).
AddToListHeadLate(eof) ==
    LET nonempty == wpCount > 0
        afr1 == IF nonempty THEN afr + 1 ELSE afr
    IN /\ pages' = IF nonempty THEN Append(pages, WritePage) ELSE pages
       /\ afr' = afr1
       /\ listHead' = IF nonempty /\ Len(pages) = 1 THEN writeIdx ELSE listHead
       /\ listTail' = IF nonempty THEN writeIdx ELSE listTail
       /\ writeIdx' = IF eof THEN NoIdx
                      ELSE IF nonempty THEN writeIdx + 1 ELSE writeIdx
       /\ written' = IF nonempty THEN written + 1 ELSE written
       /\ fstate' = IF ~eof THEN fstate
                    ELSE IF IsInMemory THEN "IN_MEMORY_DONE_WRITING"
                    ELSE "ON_DISK_DONE_WRITING"
       /\ SignalReaderIf(afr1 >= Threshold \/ eof)
       /\ NextWritePage(eof, nonempty)
       /\ UNCHANGED <<file, fileHead, fileTail>>

\* Fault model: the last page, pushed by send_eof(), is not counted.
AddToListEofUncounted(eof) ==
    LET nonempty == wpCount > 0
        afr1 == IF nonempty /\ ~eof THEN afr + 1 ELSE afr
    IN /\ pages' = IF nonempty THEN Append(pages, WritePage) ELSE pages
       /\ afr' = afr1
       /\ listHead' = IF nonempty /\ pages = <<>> THEN writeIdx ELSE listHead
       /\ listTail' = IF nonempty THEN writeIdx ELSE listTail
       /\ writeIdx' = IF eof THEN NoIdx
                      ELSE IF nonempty THEN writeIdx + 1 ELSE writeIdx
       /\ written' = IF nonempty THEN written + 1 ELSE written
       /\ fstate' = IF ~eof THEN fstate
                    ELSE IF IsInMemory THEN "IN_MEMORY_DONE_WRITING"
                    ELSE "ON_DISK_DONE_WRITING"
       /\ SignalReaderIf(afr1 >= Threshold \/ eof)
       /\ NextWritePage(eof, nonempty)
       /\ UNCHANGED <<file, fileHead, fileTail>>

\* Fault model: the done-writing transition copied from the in-memory-only
\* branch, which ignores that the FIFO may be on disk.
AddToListDoneInMemory(eof) ==
    LET nonempty == wpCount > 0
        afr1 == IF nonempty THEN afr + 1 ELSE afr
    IN /\ pages' = IF nonempty THEN Append(pages, WritePage) ELSE pages
       /\ afr' = afr1
       /\ listHead' = IF nonempty /\ pages = <<>> THEN writeIdx ELSE listHead
       /\ listTail' = IF nonempty THEN writeIdx ELSE listTail
       /\ writeIdx' = IF eof THEN NoIdx
                      ELSE IF nonempty THEN writeIdx + 1 ELSE writeIdx
       /\ written' = IF nonempty THEN written + 1 ELSE written
       /\ fstate' = IF ~eof THEN fstate ELSE "IN_MEMORY_DONE_WRITING"
       /\ SignalReaderIf(afr1 >= Threshold \/ eof)
       /\ NextWritePage(eof, nonempty)
       /\ UNCHANGED <<file, fileHead, fileTail>>

\* Fault model: the page pushed onto the front of the list, not the back.
AddToListPushFront(eof) ==
    LET nonempty == wpCount > 0
        afr1 == IF nonempty THEN afr + 1 ELSE afr
    IN /\ pages' = IF nonempty THEN <<WritePage>> \o pages ELSE pages
       /\ afr' = afr1
       /\ listHead' = IF nonempty /\ pages = <<>> THEN writeIdx ELSE listHead
       /\ listTail' = IF nonempty THEN writeIdx ELSE listTail
       /\ writeIdx' = IF eof THEN NoIdx
                      ELSE IF nonempty THEN writeIdx + 1 ELSE writeIdx
       /\ written' = IF nonempty THEN written + 1 ELSE written
       /\ fstate' = IF ~eof THEN fstate
                    ELSE IF IsInMemory THEN "IN_MEMORY_DONE_WRITING"
                    ELSE "ON_DISK_DONE_WRITING"
       /\ SignalReaderIf(afr1 >= Threshold \/ eof)
       /\ NextWritePage(eof, nonempty)
       /\ UNCHANGED <<file, fileHead, fileTail>>

\* There is room in memory: append the write page to the list.
AddToList(eof) ==
    LET nonempty == wpCount > 0
        afr1 == IF nonempty THEN afr + 1 ELSE afr
    IN /\ pages' = IF nonempty THEN Append(pages, WritePage) ELSE pages
       /\ afr' = afr1
       /\ listHead' = IF nonempty /\ pages = <<>> THEN writeIdx ELSE listHead
       /\ listTail' = IF nonempty THEN writeIdx ELSE listTail
       /\ writeIdx' = IF eof THEN NoIdx
                      ELSE IF nonempty THEN writeIdx + 1 ELSE writeIdx
       /\ written' = IF nonempty THEN written + 1 ELSE written
       /\ fstate' = IF ~eof THEN fstate
                    ELSE IF IsInMemory THEN "IN_MEMORY_DONE_WRITING"
                    ELSE "ON_DISK_DONE_WRITING"
       /\ SignalReaderIf(afr1 >= Threshold \/ eof)
       /\ NextWritePage(eof, nonempty)
       /\ UNCHANGED <<file, fileHead, fileTail>>

\* The list is full and the FIFO still in memory: create the file and write
\* the list and the write page to it.
FirstSpill(eof) ==
    LET nonempty == wpCount > 0
        data == pages \o (IF nonempty THEN <<WritePage>> ELSE <<>>)
    IN /\ file' = data
       /\ pages' = <<>>
       /\ fileHead' = listHead
       /\ fileTail' = IF nonempty THEN writeIdx ELSE listTail
       /\ listHead' = NoIdx
       /\ listTail' = NoIdx
       /\ writeIdx' = IF eof THEN NoIdx
                      ELSE IF nonempty THEN writeIdx + 1 ELSE writeIdx
       /\ written' = IF nonempty THEN written + 1 ELSE written
       /\ fstate' = IF eof THEN "ON_DISK_DONE_WRITING" ELSE "ON_DISK"
       /\ SignalReaderIf(afr >= Threshold \/ eof)
       /\ SpillBuffers(eof)
       /\ UNCHANGED afr

\* Fault model: the file head index moved on every respill, append or not.
RespillAlwaysRebase(eof) ==
    LET nonempty == wpCount > 0
        data == pages \o (IF nonempty THEN <<WritePage>> ELSE <<>>)
        overwrite == nextRead >= listHead /\ nextRead <= listTail
        base == IF overwrite THEN 0 ELSE Len(file)
    IN /\ file' = WriteAt(file, base, data)
       /\ pages' = <<>>
       /\ fileHead' = listHead
       /\ fileTail' = IF nonempty THEN writeIdx ELSE listTail
       /\ listHead' = NoIdx
       /\ listTail' = NoIdx
       /\ writeIdx' = IF eof THEN NoIdx
                      ELSE IF nonempty THEN writeIdx + 1 ELSE writeIdx
       /\ written' = IF nonempty THEN written + 1 ELSE written
       /\ fstate' = IF eof THEN "ON_DISK_DONE_WRITING" ELSE fstate
       /\ SignalReaderIf(afr >= Threshold \/ eof)
       /\ SpillBuffers(eof)
       /\ UNCHANGED afr

\* The list is full and the file exists: overwrite the file from its start
\* when the reader has moved on to the list, append to it otherwise.
Respill(eof) ==
    LET nonempty == wpCount > 0
        data == pages \o (IF nonempty THEN <<WritePage>> ELSE <<>>)
        overwrite == nextRead >= listHead /\ nextRead <= listTail
        base == IF overwrite THEN 0 ELSE Len(file)
    IN /\ file' = WriteAt(file, base, data)
       /\ pages' = <<>>
       /\ fileHead' = IF overwrite THEN listHead ELSE fileHead
       /\ fileTail' = IF nonempty THEN writeIdx ELSE listTail
       /\ listHead' = NoIdx
       /\ listTail' = NoIdx
       /\ writeIdx' = IF eof THEN NoIdx
                      ELSE IF nonempty THEN writeIdx + 1 ELSE writeIdx
       /\ written' = IF nonempty THEN written + 1 ELSE written
       /\ fstate' = IF eof THEN "ON_DISK_DONE_WRITING" ELSE fstate
       /\ SignalReaderIf(afr >= Threshold \/ eof)
       /\ SpillBuffers(eof)
       /\ UNCHANGED afr

\* The rest of _flush_write_page once the writer no longer has to wait: the
\* memory-only policy adds to the list right after its wait loop.
FlushBody(eof) ==
    IF ~FlushToDiskOnFull \/ AvailableMemoryWrites >= 1 THEN AddToList(eof)
    ELSE IF IsInMemory THEN FirstSpill(eof)
    ELSE Respill(eof)

\* The caller's part after a flush: put_tuple appends its tuple to the
\* fresh write page, send_eof returns true.
FinishCall(call) ==
    IF call = "put"
    THEN /\ wpCount' = 1 /\ produced' = produced + 1 /\ wpc' = "run"
    ELSE /\ wpCount' = 0 /\ UNCHANGED produced /\ wpc' = "eof"

\* One pass of the flush after the termination check: wait, or flush.
FlushOrWait(call, thr) ==
    IF MustWait(thr)
    THEN /\ wpc' = "wait" /\ wPending' = call /\ wWaiting' = TRUE
         /\ UNCHANGED <<fstate, pages, file, afr, listHead, listTail,
                        fileHead, fileTail, writeIdx, wpCount, produced,
                        written, rWaiting, nfree, live>>
    ELSE /\ FlushBody(call = "eof")
         /\ FinishCall(call)
         /\ wPending' = "none"
         /\ UNCHANGED wWaiting

\* _termination_check() threw TerminatedBufferException: the writer stops.
WriterThrows ==
    /\ wpc' = "term" /\ wPending' = "none"
    /\ UNCHANGED <<fstate, pages, file, afr, listHead, listTail, fileHead,
                   fileTail, writeIdx, wpCount, produced, written, wWaiting,
                   rWaiting, nfree, live>>

\* Fault model: the writer also deletes the FIFO after send_eof() returned
\* true.
WriterLeavesOnEof ==
    duty' = IF wpc' \in {"eof", "term"} THEN duty \cup {"writer"} ELSE duty

\* A writer that TerminatedBufferException ends (send_eof() returning false:
\* "reader terminated first") is left to delete the FIFO; one whose
\* send_eof() returned true must not touch it again.
WriterLeaves ==
    duty' = IF wpc' = "term" THEN duty \cup {"writer"} ELSE duty

-----------------------------------------------------------------------------
(* Writer operations. *)

\* put_tuple(): append to the write page; a full page is flushed first.
PutTuple ==
    /\ wpc = "run"
    /\ produced < MaxTuples
    /\ IF wpCount < PageCap
       THEN /\ wpCount' = wpCount + 1 /\ produced' = produced + 1
            /\ UNCHANGED <<fstate, pages, file, afr, listHead, listTail,
                           fileHead, fileTail, writeIdx, wpc, wPending,
                           wWaiting, rWaiting, written, nfree, live>>
       ELSE IF IsTerminated THEN WriterThrows
            ELSE FlushOrWait("put", 1)
    /\ UNCHANGED <<nextRead, readPage, shared, rpc, rMode, received, readBuf>>
    /\ WriterLeaves /\ UNCHANGED deleters

\* send_eof(): flush the (possibly empty) write page and mark the end.
SendEof ==
    /\ wpc = "run"
    /\ IF IsTerminated THEN WriterThrows ELSE FlushOrWait("eof", 1)
    /\ UNCHANGED <<nextRead, readPage, shared, rpc, rMode, received, readBuf>>
    /\ WriterLeaves /\ UNCHANGED deleters

\* The writer is woken in wait_for_reader(), checks for termination and
\* re-tests the loop condition, now against _threshold.
WriterWakes ==
    /\ wpc = "wait"
    /\ ~wWaiting
    /\ IF IsTerminated THEN WriterThrows ELSE FlushOrWait(wPending, Threshold)
    /\ UNCHANGED <<nextRead, readPage, shared, rpc, rMode, received, readBuf>>
    /\ WriterLeaves /\ UNCHANGED deleters

\* terminate()'s test "did the other end beat me to it?": it returns false,
\* and its caller is left to delete the FIFO.
TerminateFails == IsTerminated \/ IsDoneWriting

\* terminate(), by either side: unless the other side already terminated,
\* or the writer finished, move to the terminated state and wake both.  A
\* caller it returns true to must not touch the FIFO again; one it returns
\* false to deletes it.
Terminate(self) ==
    /\ IF self = "writer" THEN wpc = "run" ELSE rpc = "run"
    /\ duty' = IF TerminateFails THEN duty \cup {self} ELSE duty
    /\ IF TerminateFails
       THEN UNCHANGED <<fstate, wWaiting, rWaiting>>
       ELSE /\ fstate' = IF IsInMemory THEN "IN_MEMORY_TERMINATED"
                                       ELSE "ON_DISK_TERMINATED"
            /\ rWaiting' = FALSE
            /\ wWaiting' = FALSE
    /\ IF self = "writer" THEN wpc' = "term" /\ UNCHANGED rpc
                          ELSE rpc' = "term" /\ UNCHANGED wpc
    /\ UNCHANGED <<pages, file, afr, listHead, listTail, fileHead, fileTail,
                   writeIdx, nextRead, readPage, shared, wpCount, wPending,
                   rMode, produced, received, written, nfree, readBuf, live,
                   deleters>>

\* set_shared(), by the thread that merges this FIFO's producer packet.
SetShared ==
    /\ ~shared
    /\ shared' = TRUE
    /\ wWaiting' = FALSE
    /\ UNCHANGED <<fstate, pages, file, afr, listHead, listTail, fileHead,
                   fileTail, writeIdx, nextRead, readPage, wpCount, wpc,
                   wPending, rpc, rMode, rWaiting, produced, received, written,
                   nfree, readBuf, live, duty, deleters>>

-----------------------------------------------------------------------------
(* Reader operations: _get_read_page(timeout_ms), reached from get_tuple() *)
(* and copy_page() whenever the current read page is used up.              *)

\* The reader's buffers after the start of a call (nf free pages, read
\* buffer rb), and the page it last read (rp).
\* Take the next page from the head of the in-memory list; its buffer goes
\* back to _free_pages on the next call, and an "own" buffer the guard held
\* is freed.
ReadFromList(nf, rb) ==
    LET pg == Head(pages)
    IN /\ readPage' = pg
       /\ pages' = Tail(pages)
       /\ afr' = afr - 1
       /\ listHead' = IF Len(pages) = 1 THEN NoIdx ELSE listHead + 1
       /\ listTail' = IF Len(pages) = 1 THEN NoIdx ELSE listTail
       /\ nextRead' = nextRead + 1
       /\ received' = received + pg.n
       /\ SignalWriterIf(Capacity - Len(pages') >= Threshold /\ ~IsDoneWriting)
       /\ nfree' = nf /\ readBuf' = "list"
       /\ live' = IF rb = "own" THEN live - 1 ELSE live
       /\ UNCHANGED file

\* The buffer the file is read into: the sentinel is replaced by a buffer
\* from _alloc_page(), sent back to _free_pages later if it came from there;
\* a buffer of our own is cleared and reused.
DiskBuffer(nf, rb) ==
    IF rb = "none"
    THEN IF nf > 0 THEN nfree' = nf - 1 /\ readBuf' = "list" /\ UNCHANGED live
         ELSE nfree' = nf /\ readBuf' = "own" /\ live' = live + 1
    ELSE nfree' = nf /\ UNCHANGED <<readBuf, live>>

\* Fault model: a page read from the file is not taken off the count.
ReadFromDiskNoDecrement(nf, rb) ==
    LET pg == ReadSlot(nextRead - fileHead)
    IN /\ readPage' = pg
       /\ afr' = afr
       /\ nextRead' = nextRead + 1
       /\ received' = received + pg.n
       /\ DiskBuffer(nf, rb)
       /\ UNCHANGED <<pages, file, listHead, listTail, wWaiting>>

\* Read the next page from its slot in the file.
ReadFromDisk(nf, rb) ==
    LET pg == ReadSlot(nextRead - fileHead)
    IN /\ readPage' = pg
       /\ afr' = afr - 1
       /\ nextRead' = nextRead + 1
       /\ received' = received + pg.n
       /\ DiskBuffer(nf, rb)
       /\ UNCHANGED <<pages, file, listHead, listTail, wWaiting>>

\* Fault model: an empty FIFO reports "nothing yet" even after send_eof().
DeliverMissesEof(nf, rb, rp) ==
    /\ IF afr = 0
       THEN /\ rpc' = "run"
            /\ nfree' = nf /\ readBuf' = rb /\ readPage' = rp
            /\ UNCHANGED <<pages, file, afr, listHead, listTail, nextRead,
                           received, wWaiting, live>>
       ELSE /\ rpc' = "run"
            /\ IF nextRead >= listHead /\ nextRead <= listTail
               THEN ReadFromList(nf, rb) ELSE ReadFromDisk(nf, rb)
    /\ UNCHANGED rWaiting

\* After the wait loop: report EOF or "nothing yet", or hand out a page.
Deliver(nf, rb, rp) ==
    /\ IF afr = 0
       THEN /\ rpc' = IF IsDoneWriting THEN "eof" ELSE "run"
            /\ nfree' = nf /\ readBuf' = rb /\ readPage' = rp
            /\ UNCHANGED <<pages, file, afr, listHead, listTail, nextRead,
                           received, wWaiting, live>>
       ELSE /\ rpc' = "run"
            /\ IF nextRead >= listHead /\ nextRead <= listTail
               THEN ReadFromList(nf, rb) ELSE ReadFromDisk(nf, rb)
    /\ UNCHANGED rWaiting

\* _termination_check() threw: the reader stops.
ReaderThrows ==
    /\ rpc' = "term"
    /\ UNCHANGED <<pages, file, afr, listHead, listTail, nextRead, readPage,
                   received, wWaiting, rWaiting, nfree, readBuf, live>>

\* Fault model: the read page goes back to _free_pages, but the flag that
\* says so is not reset.
ReleaseKeepsFlag(rb) == rb

\* A reader handed EOF (-1), or ended by TerminatedBufferException, is left
\* to delete the FIFO.
ReaderLeaves ==
    duty' = IF rpc' \in {"eof", "term"} THEN duty \cup {"reader"} ELSE duty

\* At the start of a call, after the termination check: a read page that
\* came from the list or the free list goes back to _free_pages, the read
\* page becomes the sentinel and _add_read_page_to_free_list is reset.
ReleaseReadBuf(rb) == IF rb = "list" THEN "none" ELSE rb

\* A new call: wait while nothing is readable, unless the call does not
\* block (timeout_ms < 0).
GetReadPage(mode) ==
    LET nf == IF readBuf = "list" THEN nfree + 1 ELSE nfree
        rb == ReleaseReadBuf(readBuf)
        rp == IF readBuf = "list" THEN Sentinel ELSE readPage
    IN /\ rpc = "run"
       /\ IF IsTerminated THEN ReaderThrows
          ELSE IF mode # "poll" /\ ~IsDoneWriting /\ afr < 1
          THEN /\ rpc' = "wait" /\ rWaiting' = TRUE
               /\ nfree' = nf /\ readBuf' = rb /\ readPage' = rp
               /\ UNCHANGED <<pages, file, afr, listHead, listTail, nextRead,
                              received, wWaiting, live>>
          ELSE Deliver(nf, rb, rp)
       /\ rMode' = mode
       /\ UNCHANGED <<fstate, fileHead, fileTail, writeIdx, shared, wpCount,
                      wpc, wPending, produced, written>>
    /\ ReaderLeaves /\ UNCHANGED deleters

\* Signalled in wait_for_writer(): re-test the loop, now against _threshold.
ReaderWakes ==
    /\ rpc = "wait"
    /\ ~rWaiting
    /\ IF IsTerminated THEN ReaderThrows
       ELSE IF ~IsDoneWriting /\ afr < Threshold
       THEN /\ rWaiting' = TRUE
            /\ UNCHANGED <<rpc, pages, file, afr, listHead, listTail, nextRead,
                           readPage, received, wWaiting, nfree, readBuf, live>>
       ELSE Deliver(nfree, readBuf, readPage)
    /\ UNCHANGED <<fstate, fileHead, fileTail, writeIdx, shared, wpCount, wpc,
                   wPending, produced, written, rMode>>
    /\ ReaderLeaves /\ UNCHANGED deleters

\* A timed wait (timeout_ms > 0) expires, whether or not a signal is racing
\* it: the loop ends and the reader takes what is there.
ReaderTimesOut ==
    /\ rpc = "wait"
    /\ rMode = "timed"
    /\ IF IsTerminated THEN ReaderThrows ELSE Deliver(nfree, readBuf, readPage)
    /\ UNCHANGED <<fstate, fileHead, fileTail, writeIdx, shared, wpCount, wpc,
                   wPending, produced, written, rMode>>
    /\ ReaderLeaves /\ UNCHANGED deleters

-----------------------------------------------------------------------------
(* The whole system. *)

Init ==
    /\ fstate = "IN_MEMORY"
    /\ pages = <<>>
    /\ file = <<>>
    /\ afr = 0
    /\ listHead = NoIdx /\ listTail = NoIdx
    /\ fileHead = NoIdx /\ fileTail = NoIdx
    /\ writeIdx = 0
    /\ nextRead = 0
    /\ readPage = Sentinel
    /\ shared = FALSE
    /\ wpCount = 0
    /\ wpc = "run" /\ wPending = "none" /\ wWaiting = FALSE
    /\ rpc = "run" /\ rMode = "block" /\ rWaiting = FALSE
    /\ produced = 0 /\ received = 0 /\ written = 0
    /\ nfree = 0 /\ readBuf = "none" /\ live = 1
    /\ duty = {} /\ deleters = {}

Finished == wpc \in {"eof", "term"} /\ rpc \in {"eof", "term"}

\* destroy(), by a thread left to delete the FIFO: free the pages of _pages
\* and _free_pages, which stay as they are (the page guards free the write
\* and read pages with the FIFO; the file is closed and unlinked).
Destroy(t) ==
    /\ t \in duty \ deleters
    /\ deleters' = deleters \cup {t}
    /\ live' = live - Len(pages) - nfree
    /\ UNCHANGED <<fstate, pages, nfree, file, afr, listHead, listTail, fileHead, fileTail,
                   writeIdx, nextRead, readPage, shared, wpCount, wpc,
                   wPending, wWaiting, rpc, rMode, rWaiting, produced,
                   received, written, readBuf, duty>>

\* The operations a thread makes progress with; terminate() is an option a
\* query operator may take, never one it is obliged to take.
WriterProgress == PutTuple \/ SendEof \/ WriterWakes
ReaderProgress == (\E m \in ReadModes : GetReadPage(m)) \/ ReaderWakes
                  \/ ReaderTimesOut

\* Both threads have stopped using the FIFO: the run is over.
Done == Finished /\ UNCHANGED vars

Next == \/ WriterProgress \/ Terminate("writer")
        \/ ReaderProgress \/ Terminate("reader")
        \/ SetShared
        \/ \E t \in Threads : Destroy(t)
        \/ Done

\* Both threads are OS threads that keep being scheduled while they can run;
\* a timed wait's timer fires.  Nothing obliges set_shared() to happen.
Spec == Init /\ [][Next]_vars /\ WF_vars(WriterProgress) /\ WF_vars(ReaderProgress)
        /\ \A t \in Threads : WF_vars(Destroy(t))

-----------------------------------------------------------------------------
(* Properties. *)

TypeOK ==
    /\ fstate \in States
    /\ pages \in Seq(Page) /\ Len(pages) <= Capacity
    /\ file \in Seq(Page \cup {Garbage})
    /\ afr \in Nat
    /\ {listHead, listTail, fileHead, fileTail, writeIdx} \subseteq Nat
    /\ nextRead \in Nat
    /\ readPage \in Page \cup {Garbage, Sentinel}
    /\ shared \in BOOLEAN
    /\ wpCount \in 0..PageCap
    /\ wpc \in {"run", "wait", "eof", "term"}
    /\ wPending \in {"put", "eof", "none"}
    /\ rpc \in {"run", "wait", "eof", "term"}
    /\ rMode \in ReadModes \cup {"block"}
    /\ {wWaiting, rWaiting} \subseteq BOOLEAN
    /\ {produced, received, written} \subseteq Nat
    /\ nfree \in Nat /\ live \in Nat
    /\ readBuf \in {"none", "list", "own"}
    /\ duty \subseteq Threads /\ deleters \subseteq duty

\* The page the writer made visible as index i, as the writer filled it.
Expected(i) ==
    [first |-> i * PageCap,
     n |-> IF produced - i * PageCap < PageCap THEN produced - i * PageCap
           ELSE PageCap]

\* Where _get_read_page() will look for page i: the list when i is in the
\* list's index range, otherwise the file slot i - _file_head_page_index.
Locate(i) ==
    IF i >= listHead /\ i <= listTail THEN pages[i - listHead + 1]
    ELSE ReadSlot(i - fileHead)

(* Every page the writer handed over and the reader has not read yet is   *)
(* exactly where _get_read_page() will look for it, list or file, with the *)
(* tuples the writer put in it: spilling, overwriting or appending to the  *)
(* file never loses, moves or clobbers a pending page.                     *)
PendingPagesLocated ==
    \A i \in nextRead..(written - 1) : Locate(i) = Expected(i)

(* When get_tuple()/copy_page() reports end of input, the reader has been *)
(* handed every tuple put_tuple() accepted before send_eof().              *)
NoLossAtEof == rpc = "eof" => received = produced

(* Every page _get_read_page() hands out continues the tuple sequence     *)
(* exactly where the previous page ended: no page is skipped, repeated or *)
(* read from a stale file slot.                                            *)
ReadsInOrder ==
    [][received' # received => readPage'.first = received]_<<received, readPage>>

(* _available_fifo_reads never promises a page that has not been written *)
(* or was already read, so the reader never reads past the data.           *)
AvailableReadsSound == afr <= written - nextRead

(* The index bookkeeping the reader relies on (spec, Ordering and indices):*)
(* the file starts at or before the next page to read, the writer is never *)
(* behind the reader, list pages come after the file's pages, and the list *)
(* index range covers exactly the pages in the list.                       *)
IndexOrder ==
    /\ fileHead # NoIdx => fileHead <= nextRead
    /\ writeIdx # NoIdx => nextRead <= writeIdx
    /\ (listHead # NoIdx /\ fileTail # NoIdx) => fileTail < listHead
    /\ listHead # NoIdx => listTail - listHead + 1 = Len(pages)
    /\ listHead = NoIdx => pages = <<>>

\* tuple_fifo_state_t::_transition_ok().
TransitionOk(from, to) ==
    \/ from = "IN_MEMORY" /\ to \in {"IN_MEMORY_DONE_WRITING", "ON_DISK",
                                     "IN_MEMORY_TERMINATED"}
    \/ from = "ON_DISK" /\ to \in {"ON_DISK_DONE_WRITING", "ON_DISK_TERMINATED"}

(* Every change of _state is a transition _transition_ok() allows, or two *)
(* of them made in one critical section (spill then done-writing): no     *)
(* interleaving of terminate(), send_eof() and a spill trips the assertion *)
(* in tuple_fifo_state_t::transition().                                   *)
ValidTransitions ==
    [][fstate' # fstate =>
         \/ TransitionOk(fstate, fstate')
         \/ \E mid \in States : TransitionOk(fstate, mid) /\ TransitionOk(mid, fstate')]_fstate

\* The page buffers the FIFO holds: the list and the free list until
\* destroy() frees them, the write page until send_eof() frees it, and the
\* read page unless it is the sentinel.
HeldBuffers ==
    (IF deleters = {} THEN Len(pages) + nfree ELSE 0)
    + (IF wpc = "eof" THEN 0 ELSE 1)
    + (IF readBuf = "none" THEN 0 ELSE 1)

(* Every page buffer allocated and not freed is held in exactly one place *)
(* that destroy() or a guard frees: no buffer is leaked when a spill      *)
(* moves the list to _free_pages, and none goes onto _free_pages twice    *)
(* (which destroy() would free twice) when _get_read_page() hands back    *)
(* the read page at the start of a call.                                  *)
BuffersAccounted == live = HeldBuffers

(* The FIFO never holds more than Capacity + 2 page buffers: _free_pages *)
(* is never trimmed, so its buffers must be reused by the writer's and    *)
(* the reader's allocations before anything new is allocated.             *)
BuffersBounded == live <= Capacity + 2

(* The FIFO is deleted by exactly one thread, and only once the other one *)
(* has stopped touching it: the side handed EOF, the side ended by          *)
(* TerminatedBufferException and the side terminate() returns false to      *)
(* delete it, the side send_eof() or terminate() returns true to does not. *)
DeletedOnce == deleters # {} => Finished /\ Cardinality(deleters) = 1

\* How a thread stopped, as TuplePipe sees it.
PipeEnd(pc) == IF pc \in {"eof", "term"} THEN pc ELSE "none"

Pipe == INSTANCE TuplePipe
            WITH put <- produced, got <- received, closed <- IsDoneWriting,
                 term <- IsTerminated, wEnd <- PipeEnd(wpc),
                 rEnd <- PipeEnd(rpc)

(* The FIFO implements the pipe of spec.md 4.4: every page handed to the   *)
(* reader continues the tuples it has, EOF reaches it only once the        *)
(* writer sent it and every tuple was read, Terminated only after a        *)
(* terminate(), and neither side stalls while the pipe says it can go on. *)
PipeRefined == Pipe!Spec

(* Neither thread is left blocked or running forever: both end, by EOF or *)
(* by termination, and the thread left with the FIFO deletes it.           *)
Termination == <>(Finished /\ deleters # {})

=============================================================================

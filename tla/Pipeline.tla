------------------------------- MODULE Pipeline -------------------------------
(***************************************************************************)
(* The replay program (src/main.cpp): a parser thread reads the frames of  *)
(* a file, parses each and pushes it into the SPSC queue, spinning while   *)
(* the queue is full; a book thread pops and dispatches, and leaves when   *)
(* it pops nothing, the parser is done and the queue is empty; main joins  *)
(* both and reports.                                                       *)
(*                                                                         *)
(* The threads share the queue and the atomic flag parse_done.  A step is  *)
(* one access to shared memory, with the thread-local work around it.  The *)
(* book is represented by the messages its handlers have been given.       *)
(***************************************************************************)
EXTENDS SPSCQueue, ITCHFileReader, FiniteSets

CONSTANT Files   \* the files that may be replayed, as byte sequences

(* Files are bytes, and the queue's items include every message in them. *)
ASSUME FilesAssumption ==
    /\ \A f \in Files : f \in Seq(0 .. 255)
    /\ monostate \in Messages
    /\ \A f \in Files : \A i \in 0 .. Len(f), t \in DOMAIN SizeOf :
          [kind |-> t, at |-> i] \in Messages

VARIABLES
    buf, pos_,      \* ITCHFileReader: the file's bytes, and the next offset
    raw,            \* the frame the parser thread holds
    parser, book,   \* where the two threads are
    main,           \* "join" until both have ended, then "report"
    parsed, booked, \* the two threads' local counts
    msgs_parsed, msgs_booked, parse_done,
    done_seen,      \* what the book thread reads in parse_done
    applied         \* the messages given to the book's handlers

reader_vars == <<buf, pos_, raw, parser, parsed, msgs_parsed, parse_done>>
book_vars   == <<book, booked, msgs_booked, done_seen, applied>>
vars        == <<queue_vars, reader_vars, book_vars, main>>

Init ==
    /\ QueueInit
    /\ buf \in Files /\ pos_ = 0 /\ raw = NoFrame
    /\ parser = "open" /\ book = "loop" /\ main = "join"
    /\ parsed = 0 /\ booked = 0
    /\ msgs_parsed = 0 /\ msgs_booked = 0
    /\ parse_done = FALSE /\ done_seen = FALSE
    /\ applied = <<>>

-----------------------------------------------------------------------------
(* The parser thread. *)

(* The reader's constructor: a file that cannot be read, or is empty, aborts. *)
OpenFile ==
    /\ parser = "open"
    /\ parser' \in IF buf = <<>> THEN {"aborted"} ELSE {"read", "aborted"}
    /\ UNCHANGED <<buf, pos_, raw, parsed, msgs_parsed, parse_done>>
    /\ UNCHANGED <<queue_vars, book_vars, main>>

(* next_message; nullptr, at the end or on a framing error, ends the loop. *)
ReadFrame ==
    /\ parser = "read"
    /\ LET next == next_message(buf, pos_)
       IN  /\ pos_' = next.pos /\ raw' = next.frame
           /\ parser' = IF next.frame = NoFrame THEN "count" ELSE "push"
    /\ UNCHANGED <<buf, parsed, msgs_parsed, parse_done>>
    /\ UNCHANGED <<queue_vars, book_vars, main>>

(* parse_and_push: try again while try_push returns false. *)
PushSpins ==
    /\ parser = "push"
    /\ TryPushFails
    /\ UNCHANGED <<reader_vars, book_vars, main>>

PushStarts ==
    /\ parser = "push"
    /\ TryPushStarts(parse_message(buf, raw))
    /\ parser' = "pushing"
    /\ UNCHANGED <<buf, pos_, raw, parsed, msgs_parsed, parse_done>>
    /\ UNCHANGED <<book_vars, main>>

PushCopies ==
    /\ parser = "pushing"
    /\ TryPushCopies
    /\ UNCHANGED <<reader_vars, book_vars, main>>

PushPublishes ==
    /\ parser = "pushing"
    /\ TryPushPublishes
    /\ parser' = "read" /\ parsed' = parsed + 1
    /\ UNCHANGED <<buf, pos_, raw, msgs_parsed, parse_done>>
    /\ UNCHANGED <<book_vars, main>>

StoreParsed ==
    /\ parser = "count"
    /\ msgs_parsed' = parsed /\ parser' = "done"
    /\ UNCHANGED <<buf, pos_, raw, parsed, parse_done>>
    /\ UNCHANGED <<queue_vars, book_vars, main>>

(* Mutant: the thread ends without raising the flag. *)
StoreDoneForgotten ==
    /\ parser = "done"
    /\ parser' = "ended"
    /\ UNCHANGED <<buf, pos_, raw, parsed, msgs_parsed, parse_done>>
    /\ UNCHANGED <<queue_vars, book_vars, main>>

StoreDone ==
    /\ parser = "done"
    /\ parse_done' = TRUE /\ parser' = "ended"
    /\ UNCHANGED <<buf, pos_, raw, parsed, msgs_parsed>>
    /\ UNCHANGED <<queue_vars, book_vars, main>>

-----------------------------------------------------------------------------
(* The book thread. *)

PopFails ==
    /\ book = "loop"
    /\ TryPopFails
    /\ book' = "check"
    /\ UNCHANGED <<booked, msgs_booked, done_seen, applied>>
    /\ UNCHANGED <<reader_vars, main>>

PopStarts ==
    /\ book = "loop"
    /\ TryPopStarts
    /\ book' = "popping"
    /\ UNCHANGED <<booked, msgs_booked, done_seen, applied>>
    /\ UNCHANGED <<reader_vars, main>>

PopCopies ==
    /\ book = "popping"
    /\ TryPopCopies
    /\ UNCHANGED <<reader_vars, book_vars, main>>

PopPublishes ==
    /\ book = "popping"
    /\ TryPopPublishes
    /\ book' = "dispatch"
    /\ UNCHANGED <<booked, msgs_booked, done_seen, applied>>
    /\ UNCHANGED <<reader_vars, main>>

(* dispatch routes the message to a handler, or ignores it; it is counted either way. *)
Dispatch ==
    /\ book = "dispatch"
    /\ applied' = IF Handled(pop.item) THEN Append(applied, pop.item) ELSE applied
    /\ booked' = booked + 1 /\ book' = "loop"
    /\ UNCHANGED <<msgs_booked, done_seen>>
    /\ UNCHANGED <<queue_vars, reader_vars, main>>

(* Mutant: a relaxed load of parse_done, which makes no earlier store visible. *)
LoadDoneRelaxed ==
    /\ book = "check"
    /\ book' = IF done_seen THEN "empty" ELSE "loop"
    /\ UNCHANGED <<queue_vars, reader_vars, main>>
    /\ UNCHANGED <<booked, msgs_booked, done_seen, applied>>

(* The acquire load of parse_done: reading TRUE makes every push visible. *)
LoadDone ==
    /\ book = "check"
    /\ IF done_seen THEN book' = "empty" /\ tail_seen' = tail_
                    ELSE book' = "loop" /\ UNCHANGED tail_seen
    /\ UNCHANGED <<producer_vars, head_, pop, reader_vars, main>>
    /\ UNCHANGED <<booked, msgs_booked, done_seen, applied>>

(* Mutant: once the parser is done the loop is left without looking again. *)
LeaveIfEmptyUnchecked ==
    /\ book = "empty"
    /\ book' = "count"
    /\ UNCHANGED <<queue_vars, reader_vars, main>>
    /\ UNCHANGED <<booked, msgs_booked, done_seen, applied>>

LeaveIfEmpty ==
    /\ book = "empty"
    /\ book' = IF empty THEN "count" ELSE "loop"
    /\ UNCHANGED <<queue_vars, reader_vars, main>>
    /\ UNCHANGED <<booked, msgs_booked, done_seen, applied>>

StoreBooked ==
    /\ book = "count"
    /\ msgs_booked' = booked /\ book' = "ended"
    /\ UNCHANGED <<booked, done_seen, applied>>
    /\ UNCHANGED <<queue_vars, reader_vars, main>>

-----------------------------------------------------------------------------
(* Stores become visible to the other thread. *)
DoneVisible ==
    /\ parse_done /\ ~done_seen
    /\ done_seen' = TRUE
    /\ UNCHANGED <<book, booked, msgs_booked, applied>>
    /\ UNCHANGED <<queue_vars, reader_vars, main>>

PushVisible == TailVisible /\ UNCHANGED <<reader_vars, book_vars, main>>
PopVisible  == HeadVisible /\ UNCHANGED <<reader_vars, book_vars, main>>

Join ==
    /\ main = "join" /\ parser = "ended" /\ book = "ended"
    /\ main' = "report"
    /\ UNCHANGED <<queue_vars, reader_vars, book_vars>>

ParserStep ==
    \/ OpenFile \/ ReadFrame
    \/ PushSpins \/ PushStarts \/ PushCopies \/ PushPublishes
    \/ StoreParsed \/ StoreDone

(* std::abort ends every thread. *)
BookStep ==
    /\ parser # "aborted"
    /\ \/ PopFails \/ PopStarts \/ PopCopies \/ PopPublishes \/ Dispatch
       \/ LoadDone \/ LeaveIfEmpty \/ StoreBooked

Next == ParserStep \/ BookStep \/ Join \/ DoneVisible \/ PushVisible \/ PopVisible

(***************************************************************************)
(* Fairness.  The threads are scheduled (each on a core of its own) and    *)
(* never block; and C++ asks that an atomic store becomes visible to other *)
(* threads' loads in a finite time.                                        *)
(***************************************************************************)
Fairness ==
    /\ WF_vars(ParserStep) /\ WF_vars(BookStep) /\ WF_vars(Join)
    /\ WF_vars(DoneVisible) /\ WF_vars(PushVisible) /\ WF_vars(PopVisible)

Spec == Init /\ [][Next]_vars /\ Fairness

-----------------------------------------------------------------------------
(* What a correct replay of the file gives to the book. *)
ParsedFrames == [k \in DOMAIN Frames(buf) |-> parse_message(buf, Frames(buf)[k])]

(* How many of the first n messages of ms have a handler. *)
Rank(ms, n) == Cardinality({j \in 1 .. n : Handled(ms[j])})

(***************************************************************************)
(* The parser only ever looks at bytes inside the file's buffer, whatever  *)
(* lengths the file claims: a frame lies inside the file, and copy_msg     *)
(* copies a struct only from a frame that has all of its bytes.            *)
(***************************************************************************)
BufferSafe ==
    raw # NoFrame =>
        /\ raw.at >= 2 /\ raw.len > 0 /\ raw.at + raw.len <= Len(buf)
        /\ LET msg == parse_message(buf, raw)
           IN  msg # monostate => /\ msg.at = raw.at
                                  /\ msg.at + SizeOf[msg.kind] <= raw.at + raw.len

(***************************************************************************)
(* The book thread leaves its loop only when nothing can follow: the flag  *)
(* parse_done is up, and every message pushed has been popped and counted. *)
(* The failed pop, the load of the flag and the test of the queue are      *)
(* three separate looks at memory that the parser thread is changing.      *)
(***************************************************************************)
NothingLeftBehind ==
    book \in {"count", "ended"} => parse_done /\ head_ = tail_ /\ booked = tail_

(***************************************************************************)
(* When main reports, the book has been given exactly the messages of the  *)
(* file that have a handler, in the order of the file, once each, and the  *)
(* two counters it prints are both the number of frames.                   *)
(***************************************************************************)
EndToEnd ==
    main = "report" =>
        LET ms == ParsedFrames
        IN  /\ Len(applied) = Rank(ms, Len(ms))
            /\ \A k \in DOMAIN ms : Handled(ms[k]) => applied[Rank(ms, k)] = ms[k]
            /\ msgs_parsed = Len(ms)
            /\ msgs_booked = Len(ms)

(***************************************************************************)
(* Every replay ends: full queues drain, spins end, the book thread leaves *)
(* its loop and main reports, unless the file could not be read.           *)
(***************************************************************************)
Terminates == <>(main = "report" \/ parser = "aborted")
=============================================================================

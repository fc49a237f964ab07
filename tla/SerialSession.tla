---------------------------- MODULE SerialSession ----------------------------
(***************************************************************************)
(* One serial session of serial_session.py: the reader thread that drains  *)
(* the port into a bounded buffer, and the calls that read, wait for a     *)
(* line, clear, write and query on worker threads.  _query_lock keeps a    *)
(* query's clear, write and read together; _data_ready's lock is held for  *)
(* the length of one action.  A clear is a handshake with the reader,      *)
(* which alone can throw away a chunk that read() has already returned.    *)
(*                                                                         *)
(* A byte is its number in the order of arrival.  Every wait has a         *)
(* deadline, and a deadline may pass whenever the call waits.              *)
(***************************************************************************)
EXTENDS Integers, Sequences, FiniteSets

CONSTANTS
    Threads,       \* the worker threads that call the session
    NoThread,
    LineEnds,      \* the bytes that end a line, and the `until' of a read
    Wanted,        \* the line ends whose line serial_expect's matcher accepts
    ReadSizes,     \* the max_bytes of reads
    QuerySize,     \* the max_bytes of the read in a query
    BufferLimit,   \* BUFFER_LIMIT
    LineLimit,     \* MAX_LINE
    ReadChunk,     \* READ_CHUNK
    MaxBytes,      \* bound on the bytes the device sends
    MaxClears      \* bound on the clears requested

ASSUME SizesAssumption ==
    /\ BufferLimit \in Nat \ {0} /\ LineLimit \in Nat \ {0}
    /\ ReadChunk \in Nat \ {0} /\ QuerySize \in Nat \ {0}
    /\ ReadSizes \subseteq Nat \ {0}
    /\ MaxBytes \in Nat /\ MaxClears \in Nat
    /\ NoThread \notin Threads

VARIABLES
    arrived,      \* bytes the device has sent
    tty,          \* the operating system's input queue
    chunk,        \* what the reader's read() returned and is not yet buffered
    reader,       \* "read": about to read the port; "have": holds chunk; "done"
    buffer,       \* _buffer
    dropped,      \* _dropped
    closing,      \* _closing
    failed,       \* _failed
    requested,    \* _clear_requested
    completed,    \* _clear_completed
    queryLock,    \* the thread that holds _query_lock
    pc,           \* where each thread is in its call
    op,           \* the call each thread is in
    out,          \* ghost: every byte a call returned or scanned, in order
    cleared,      \* ghost: how many bytes clears threw away
    mark          \* ghost: `arrived' when the last clear was acknowledged

vars == <<arrived, tty, chunk, reader, buffer, dropped, closing, failed,
          requested, completed, queryLock, pc, op, out, cleared, mark>>
ghosts == <<out, cleared, mark>>
clears == <<requested, completed>>
input == <<arrived, tty, chunk, reader>>

-----------------------------------------------------------------------------

Smaller(a, b) == IF a < b THEN a ELSE b
FirstOf(q, n) == SubSeq(q, 1, n)
AfterFirst(q, n) == SubSeq(q, n + 1, Len(q))
LastOf(q, n) == SubSeq(q, Len(q) - n + 1, Len(q))

\* The bytes that were received and can still be read.
InFlight == buffer \o chunk \o tty

Open == ~closing /\ ~failed

\* The positions in the buffer at which a line ends.
Ends == {i \in 1..Len(buffer) : buffer[i] \in LineEnds}

Calls ==
    [kind : {"read"}, max : ReadSizes, until : BOOLEAN]
    \cup [kind : {"query"}, max : {QuerySize}, until : BOOLEAN]
    \cup [kind : {"expect", "clear", "write"}, max : {QuerySize}, until : {FALSE}]

\* What `op' holds between calls.
NoCall == [kind |-> "write", max |-> QuerySize, until |-> FALSE]

Clearing(c) == c.kind \in {"query", "clear"}

Places == {"idle", "lock", "clear", "clearing", "write", "read", "expect", "scan"}

\* No scan for a line is under way, so that _data_ready's lock is free.
Unlocked == \A t \in Threads : pc[t] # "scan"

\* Where a call goes on once it holds the query lock.
Start(kind) == IF kind = "query" THEN "clear" ELSE kind

Init ==
    /\ arrived = 0 /\ tty = << >> /\ chunk = << >> /\ reader = "read"
    /\ buffer = << >> /\ dropped = 0
    /\ closing = FALSE /\ failed = FALSE
    /\ requested = 0 /\ completed = 0
    /\ queryLock = NoThread
    /\ pc = [t \in Threads |-> "idle"]
    /\ op = [t \in Threads |-> NoCall]
    /\ out = << >> /\ cleared = 0 /\ mark = 0

-----------------------------------------------------------------------------
(* The device and the reader thread *)

Arrive ==
    /\ arrived < MaxBytes
    /\ arrived' = arrived + 1
    /\ tty' = Append(tty, arrived + 1)
    /\ UNCHANGED <<chunk, reader, buffer, dropped, closing, failed, clears,
                   queryLock, pc, op, ghosts>>

\* read() returns what has come, perhaps nothing, after at most 0.1 s.
ReaderReads ==
    /\ reader = "read" /\ ~closing
    /\ \E n \in 0..Smaller(Len(tty), ReadChunk) :
         /\ chunk' = FirstOf(tty, n)
         /\ tty' = AfterFirst(tty, n)
    /\ reader' = "have"
    /\ UNCHANGED <<arrived, buffer, dropped, closing, failed, clears, queryLock,
                   pc, op, ghosts>>

\* Mutant: the reader's chunk survives the clear.
ClearSparingChunk ==
    /\ buffer' = chunk /\ chunk' = << >> /\ tty' = << >>
    /\ completed' = requested
    /\ cleared' = cleared + Len(buffer) + Len(tty)
    /\ mark' = arrived
    /\ UNCHANGED <<dropped, out>>

\* A clear was asked for: throw away the buffer, the chunk and the system's
\* queue, and acknowledge.
ClearAll ==
    /\ buffer' = << >> /\ chunk' = << >> /\ tty' = << >>
    /\ completed' = requested
    /\ cleared' = cleared + Len(InFlight)
    /\ mark' = arrived
    /\ UNCHANGED <<dropped, out>>

\* Mutant: the newest bytes go when the buffer is full.
ExtendDroppingNewest ==
    LET all == buffer \o chunk
        excess == Len(all) - Smaller(Len(all), BufferLimit)
    IN  /\ buffer' = FirstOf(all, Len(all) - excess)
        /\ dropped' = dropped + excess
        /\ chunk' = << >>
        /\ UNCHANGED <<tty, completed, ghosts>>

\* Mutant: what overflows is not counted.
ExtendUncounted ==
    LET all == buffer \o chunk
        excess == Len(all) - Smaller(Len(all), BufferLimit)
    IN  /\ buffer' = LastOf(all, Len(all) - excess)
        /\ chunk' = << >>
        /\ UNCHANGED <<tty, dropped, completed, ghosts>>

\* Buffer the chunk; beyond the limit the oldest bytes go, and are counted.
Extend ==
    LET all == buffer \o chunk
        excess == Len(all) - Smaller(Len(all), BufferLimit)
    IN  /\ buffer' = LastOf(all, Len(all) - excess)
        /\ dropped' = dropped + excess
        /\ chunk' = << >>
        /\ UNCHANGED <<tty, completed, ghosts>>

ReaderHandles ==
    /\ reader = "have" /\ Unlocked
    /\ IF requested # completed THEN ClearAll ELSE Extend
    /\ reader' = "read"
    /\ UNCHANGED <<arrived, closing, failed, requested, queryLock, pc, op>>

ReaderStops ==
    /\ reader = "read" /\ closing
    /\ reader' = "done"
    /\ UNCHANGED <<arrived, tty, chunk, buffer, dropped, closing, failed, clears,
                   queryLock, pc, op, ghosts>>

\* The port is gone: any of the reader's calls raises.
ReaderFails ==
    /\ reader # "done" /\ Unlocked
    /\ reader' = "done"
    /\ failed' = TRUE
    /\ UNCHANGED <<arrived, tty, chunk, buffer, dropped, closing, clears,
                   queryLock, pc, op, ghosts>>

\* SerialSession.close(); SessionManager has the waiting that follows.
Close ==
    /\ closing' = TRUE
    /\ UNCHANGED <<input, buffer, dropped, failed, clears, queryLock, pc, op, ghosts>>

-----------------------------------------------------------------------------
(* The calls *)

Call(t, c) ==
    /\ pc[t] = "idle"
    /\ Clearing(c) => requested + Cardinality({u \in Threads : Clearing(op[u])}) < MaxClears
    /\ op' = [op EXCEPT ![t] = c]
    /\ pc' = [pc EXCEPT ![t] = "lock"]
    /\ UNCHANGED <<input, buffer, dropped, closing, failed, clears, queryLock, ghosts>>

Acquire(t) ==
    /\ pc[t] = "lock"
    /\ queryLock = NoThread
    /\ queryLock' = t
    /\ pc' = [pc EXCEPT ![t] = Start(op[t].kind)]
    /\ UNCHANGED <<input, buffer, dropped, closing, failed, clears, op, ghosts>>

\* A read or an expect gives up waiting for the lock and returns nothing.
LockTimesOut(t) ==
    /\ pc[t] = "lock" /\ queryLock # NoThread
    /\ op[t].kind \in {"read", "expect"}
    /\ pc' = [pc EXCEPT ![t] = "idle"]
    /\ op' = [op EXCEPT ![t] = NoCall]
    /\ UNCHANGED <<input, buffer, dropped, closing, failed, clears, queryLock, ghosts>>

\* Mutant: an early return keeps the query lock.
ReturnHoldingLock(t) ==
    /\ pc' = [pc EXCEPT ![t] = "idle"]
    /\ op' = [op EXCEPT ![t] = NoCall]
    /\ queryLock' = IF op[t].kind = "query" /\ ~Open THEN queryLock ELSE NoThread

\* The call returns or raises; either way it gives the query lock back.
Return(t) ==
    /\ pc' = [pc EXCEPT ![t] = "idle"]
    /\ op' = [op EXCEPT ![t] = NoCall]
    /\ queryLock' = NoThread

\* _require_open() raises at the next look at the session.
Refused(t) ==
    /\ pc[t] \in {"clear", "write", "read", "expect", "scan"} /\ ~Open
    /\ Return(t)
    /\ UNCHANGED <<input, buffer, dropped, closing, failed, clears, ghosts>>

ClearRequest(t) ==
    /\ pc[t] = "clear" /\ Open
    /\ requested' = requested + 1
    /\ pc' = [pc EXCEPT ![t] = "clearing"]
    /\ UNCHANGED <<input, buffer, dropped, closing, failed, completed, queryLock, op, ghosts>>

ClearEnds(t) ==
    /\ pc[t] = "clearing" /\ completed = requested
    /\ IF op[t].kind = "query"
       THEN pc' = [pc EXCEPT ![t] = "write"] /\ UNCHANGED <<queryLock, op>>
       ELSE Return(t)
    /\ UNCHANGED <<input, buffer, dropped, closing, failed, clears, ghosts>>

\* The reader did not answer in two seconds, or the session closed or failed
\* meanwhile; a clear that times out fails the session.
ClearGivesUp(t) ==
    /\ pc[t] = "clearing" /\ completed # requested
    /\ failed' = (failed \/ Open)
    /\ Return(t)
    /\ UNCHANGED <<input, buffer, dropped, closing, clears, ghosts>>

\* A write ends a write call, and moves a query on to its read.
Write(t) ==
    /\ pc[t] = "write" /\ Open
    /\ IF op[t].kind = "query"
       THEN pc' = [pc EXCEPT ![t] = "read"] /\ UNCHANGED <<queryLock, op>>
       ELSE Return(t)
    /\ UNCHANGED <<input, buffer, dropped, closing, failed, clears, ghosts>>

\* The write raises or times out.
WriteRaises(t) ==
    /\ pc[t] = "write"
    /\ Return(t)
    /\ UNCHANGED <<input, buffer, dropped, closing, failed, clears, ghosts>>

\* The first n bytes of the buffer are handed out.
Take(n) ==
    /\ out' = out \o FirstOf(buffer, n)
    /\ buffer' = AfterFirst(buffer, n)
    /\ UNCHANGED <<cleared, mark>>

\* How many bytes a read can have at once: up to the first line end if it has
\* an `until', what there is if not; 0 if it must wait.
Ready(c) ==
    IF ~c.until THEN Smaller(Len(buffer), c.max)
    ELSE IF Ends = {} THEN 0
    ELSE Smaller(CHOOSE i \in Ends : \A j \in Ends : i <= j, c.max)

ReadTakes(t) ==
    /\ pc[t] = "read" /\ Open /\ Ready(op[t]) > 0
    /\ Take(Ready(op[t]))
    /\ Return(t)
    /\ UNCHANGED <<input, dropped, closing, failed, clears>>

\* The deadline passes: return what there is, line end or not.
ReadTimesOut(t) ==
    /\ pc[t] = "read" /\ Open /\ Ready(op[t]) = 0
    /\ Take(Smaller(Len(buffer), op[t].max))
    /\ Return(t)
    /\ UNCHANGED <<input, dropped, closing, failed, clears>>

\* The length of the line at the head of the buffer, 0 while it is unfinished;
\* LineLimit bytes without an end count as a line.
LineLength ==
    LET near == {i \in Ends : i <= LineLimit}
    IN  IF near # {} THEN CHOOSE i \in near : \A j \in near : i <= j
        ELSE IF Len(buffer) >= LineLimit THEN LineLimit ELSE 0

\* One line is scanned; the scan ends at the line it waits for.
ExpectScans(t) ==
    /\ pc[t] \in {"expect", "scan"} /\ Open /\ LineLength > 0
    /\ Take(LineLength)
    /\ IF buffer[LineLength] \in Wanted
       THEN Return(t)
       ELSE /\ pc' = [pc EXCEPT ![t] = IF LineLength' > 0 THEN "scan" ELSE "expect"]
            /\ UNCHANGED <<queryLock, op>>
    /\ UNCHANGED <<input, dropped, closing, failed, clears>>

ExpectTimesOut(t) ==
    /\ pc[t] = "expect" /\ Open /\ LineLength = 0
    /\ Return(t)
    /\ UNCHANGED <<input, buffer, dropped, closing, failed, clears, ghosts>>

Step(t) ==
    \/ Acquire(t) \/ LockTimesOut(t) \/ Refused(t)
    \/ ClearRequest(t) \/ ClearEnds(t) \/ ClearGivesUp(t)
    \/ Write(t) \/ WriteRaises(t)
    \/ ReadTakes(t) \/ ReadTimesOut(t) \/ ExpectScans(t) \/ ExpectTimesOut(t)

Next ==
    \/ Arrive \/ ReaderReads \/ ReaderHandles \/ ReaderStops \/ ReaderFails \/ Close
    \/ \E t \in Threads : Step(t) \/ \E c \in Calls : Call(t, c)

Spec == Init /\ [][Next]_vars
FairSpec == Spec /\ \A t \in Threads : WF_vars(Step(t)) /\ SF_vars(Acquire(t))

-----------------------------------------------------------------------------
(* Properties *)

TypeOK ==
    /\ arrived \in Nat /\ dropped \in Nat /\ cleared \in Nat /\ mark \in Nat
    /\ requested \in Nat /\ completed \in Nat
    /\ tty \in Seq(1..arrived) /\ chunk \in Seq(1..arrived)
    /\ buffer \in Seq(1..arrived) /\ out \in Seq(1..arrived)
    /\ Len(buffer) <= BufferLimit
    /\ reader \in {"read", "have", "done"}
    /\ closing \in BOOLEAN /\ failed \in BOOLEAN
    /\ queryLock \in Threads \cup {NoThread}
    /\ pc \in [Threads -> Places]
    /\ op \in [Threads -> Calls]

\* Every byte the device sent was handed to a call, thrown away by a clear,
\* counted in bytes_dropped, or is still to be read.
Accounted == Len(out) + cleared + dropped + Len(InFlight) = arrived

\* The input of a session: its bytes have their places, and none is forgotten.
InputSound == TypeOK /\ Accounted

\* From the acknowledged clear to the reply, a query has the input to itself:
\* nothing that had arrived before is left to be taken for its reply ("only
\* the reader can discard bytes already inside read()"), and no other call has
\* taken anything that arrived since ("ordinary reads must not steal an active
\* query's reply").
QueryOwnsInput ==
    \A t \in Threads :
        op[t].kind = "query" /\ pc[t] \in {"write", "read"} =>
            /\ \A i \in 1..Len(InFlight) : InFlight[i] > mark
            /\ \A i \in 1..Len(out) : out[i] <= mark

\* Every call returns, whatever the device and even the reader thread do ("it
\* can never block indefinitely").
CallsReturn == \A t \in Threads : pc[t] # "idle" ~> pc[t] = "idle"

\* The session keeps the promise of SerialStream.
Stream == INSTANCE SerialStream WITH queue <- InFlight
StreamSpec == Stream!Spec
=============================================================================

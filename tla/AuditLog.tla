------------------------------ MODULE AuditLog ------------------------------
(***************************************************************************)
(* The audit log of audit.py: several server processes, each with several  *)
(* worker threads, append hash-chained records to one file.  An append      *)
(* holds the process's `_lock`, then an exclusive flock on the file, takes  *)
(* the chain head from the process's cache (keyed by the file's size) or    *)
(* from the file, writes one line, fsyncs it and advances the cache.        *)
(*                                                                          *)
(* The file is a sequence of FRAGMENTS, one per write() that left bytes     *)
(* behind.  A write may fall short (a full disk, a kill, a power cut), so a *)
(* fragment has an extent:                                                  *)
(*   "full"  the whole record and its newline,                              *)
(*   "bare"  the whole record, its newline missing,                         *)
(*   "torn"  only a part of the record.                                     *)
(* Every fragment has at least one byte and the file only grows, so the     *)
(* size that keys the cache is told apart exactly by the number of          *)
(* fragments.  SHA-256 is taken to be free of collisions: a digest is a     *)
(* fresh number.                                                            *)
(***************************************************************************)
EXTENDS Naturals, Sequences, FiniteSets

CONSTANTS
    Procs,      \* server processes, one per session
    Threads,    \* worker threads that call record()
    ProcOf,     \* the process a thread belongs to
    NoThread,   \* no holder of a lock
    None,       \* _Chain.head and _Chain.key before any append
    MaxRecords  \* bound: payloads composed over the whole behaviour

ASSUME ThreadsAssumption ==
    /\ ProcOf \in [Threads -> Procs]
    /\ NoThread \notin Threads
ASSUME NoneAssumption == None \notin Nat
ASSUME MaxRecordsAssumption == MaxRecords \in Nat

VARIABLES
    log,      \* the file, as fragments
    durable,  \* how many leading fragments an fsync has made durable
    flock,    \* the thread whose descriptor holds LOCK_EX
    lock,     \* lock[p]: the thread of p inside `with _lock`
    cache,    \* cache[p]: the _Chain object of process p
    pc,       \* where a thread is inside record()
    prev,     \* prev[t]: the `previous` a thread read
    digest,   \* digest[t]: the hash of the payload it composed
    serial,   \* digests handed out so far
    acked     \* digests of the records record() returned for

vars == <<log, durable, flock, lock, cache, pc, prev, digest, serial, acked>>

Genesis == 0              \* the hash before the first record
Digest == Nat             \* Genesis, then one number per payload
Extents == {"full", "bare", "torn"}
Fragment == [id : Digest, prev : Digest, extent : Extents]
Chain == [head : Digest \cup {None}, key : Nat \cup {None}]
Places == {"idle", "opened", "locked", "write", "sync"}

FreshChain == [head |-> None, key |-> None]

-----------------------------------------------------------------------------
(* Reading the file *)

\* Fragment i is a line of its own, which a JSON parser accepts: nothing is
\* glued before it or after it.
Stands(f, i) ==
    /\ f[i].extent # "torn"
    /\ i > 1 => f[i - 1].extent = "full"
    /\ i < Len(f) => f[i].extent = "full"

AllStand(f) == \A i \in 1..Len(f) : Stands(f, i)

LastStanding(f) ==
    CHOOSE i \in 1..Len(f) :
        Stands(f, i) /\ \A j \in 1..Len(f) : Stands(f, j) => j <= i

\* _read_head: the hash of the last line that parses.
ReadHead(f) ==
    IF \E i \in 1..Len(f) : Stands(f, i) THEN f[LastStanding(f)].id ELSE Genesis

\* The hash a whole log ends with, and the one record i has to name.
Before(f, i) == IF i = 1 THEN Genesis ELSE f[i - 1].id
Tip(f) == Before(f, Len(f) + 1)

\* verify(): every line parses and names the line before it.
VerifyOk(f) == AllStand(f) /\ \A i \in 1..Len(f) : f[i].prev = Before(f, i)

-----------------------------------------------------------------------------
Init ==
    /\ log = <<>>
    /\ durable = 0
    /\ flock = NoThread
    /\ lock = [p \in Procs |-> NoThread]
    /\ cache = [p \in Procs |-> FreshChain]
    /\ pc = [t \in Threads |-> "idle"]
    /\ prev = [t \in Threads |-> Genesis]
    /\ digest = [t \in Threads |-> Genesis]
    /\ serial = 0
    /\ acked = {}

\* `with _lock:`, then mkdir, chmod and os.open.
Enter(t) ==
    /\ pc[t] = "idle"
    /\ lock[ProcOf[t]] = NoThread
    /\ lock' = [lock EXCEPT ![ProcOf[t]] = t]
    /\ pc' = [pc EXCEPT ![t] = "opened"]
    /\ UNCHANGED <<log, durable, flock, cache, prev, digest, serial, acked>>

\* Mutant: LOCK_SH, which another holder does not exclude.
FlockShared(t) ==
    /\ pc[t] = "opened"
    /\ flock' = t
    /\ pc' = [pc EXCEPT ![t] = "locked"]
    /\ UNCHANGED <<log, durable, lock, cache, prev, digest, serial, acked>>

\* fcntl.flock(LOCK_EX): a descriptor of its own, so threads exclude each other.
Flock(t) ==
    /\ pc[t] = "opened"
    /\ flock = NoThread
    /\ flock' = t
    /\ pc' = [pc EXCEPT ![t] = "locked"]
    /\ UNCHANGED <<log, durable, lock, cache, prev, digest, serial, acked>>

\* Mutant: the cached head is used whatever the file's size.
TailOfAnySize(p) ==
    IF cache[p].head = None THEN ReadHead(log) ELSE cache[p].head

\* _Chain.tail: the cached head is used only for the file size it was taken at.
TailOf(p) ==
    IF cache[p].head = None \/ cache[p].key # Len(log)
    THEN ReadHead(log) ELSE cache[p].head

\* previous = _chain.tail(...), then the payload and its digest.  A head read
\* from the file is kept, but its key is not: only advance() sets that.
Compose(t) ==
    /\ pc[t] = "locked"
    /\ serial < MaxRecords
    /\ prev' = [prev EXCEPT ![t] = TailOf(ProcOf[t])]
    /\ cache' = [cache EXCEPT ![ProcOf[t]].head = TailOf(ProcOf[t])]
    /\ serial' = serial + 1
    /\ digest' = [digest EXCEPT ![t] = serial + 1]
    /\ pc' = [pc EXCEPT ![t] = "write"]
    /\ UNCHANGED <<log, durable, flock, lock, acked>>

\* Mutant: the file is opened in mode "w".
AppendedTruncating(t, extent) ==
    <<[id |-> digest[t], prev |-> prev[t], extent |-> extent]>>

\* O_APPEND: the bytes go to the end of the file, whatever is there.
Appended(t, extent) ==
    Append(log, [id |-> digest[t], prev |-> prev[t], extent |-> extent])

\* handle.write and flush put the whole line in the file.
Write(t) ==
    /\ pc[t] = "write"
    /\ log' = Appended(t, "full")
    /\ pc' = [pc EXCEPT ![t] = "sync"]
    /\ UNCHANGED <<durable, flock, lock, cache, prev, digest, serial, acked>>

\* Leaving both `with` blocks: closing the file drops the flock, then `_lock`.
Leave(t) ==
    /\ pc' = [pc EXCEPT ![t] = "idle"]
    /\ lock' = [lock EXCEPT ![ProcOf[t]] = NoThread]
    /\ flock' = IF flock = t THEN NoThread ELSE flock

\* Mutant: no fsync before record() returns.
SyncWithoutFsync(t) ==
    /\ pc[t] = "sync"
    /\ cache' = [cache EXCEPT ![ProcOf[t]] = [head |-> digest[t], key |-> Len(log)]]
    /\ acked' = acked \cup {digest[t]}
    /\ Leave(t)
    /\ UNCHANGED <<log, durable, prev, digest, serial>>

\* fsync succeeds, the cache advances to the new size, record() returns.
Sync(t) ==
    /\ pc[t] = "sync"
    /\ durable' = Len(log)
    /\ cache' = [cache EXCEPT ![ProcOf[t]] = [head |-> digest[t], key |-> Len(log)]]
    /\ acked' = acked \cup {digest[t]}
    /\ Leave(t)
    /\ UNCHANGED <<log, prev, digest, serial>>

\* An OSError before any byte is written, or from fsync after all of them:
\* record() raises, the cache is not advanced.
Fail(t) ==
    /\ pc[t] # "idle"
    /\ Leave(t)
    /\ UNCHANGED <<log, durable, cache, prev, digest, serial, acked>>

\* The disk fills during the write: part of the line stays in the file.
ShortWrite(t) ==
    /\ pc[t] = "write"
    /\ \E extent \in {"bare", "torn"} : log' = Appended(t, extent)
    /\ Leave(t)
    /\ UNCHANGED <<durable, cache, prev, digest, serial, acked>>

-----------------------------------------------------------------------------
\* The threads of p stop where they are; the kernel drops p's flock; the next
\* process starts with no cache.
Stopped(P) ==
    /\ pc' = [t \in Threads |-> IF ProcOf[t] \in P THEN "idle" ELSE pc[t]]
    /\ lock' = [p \in Procs |-> IF p \in P THEN NoThread ELSE lock[p]]
    /\ flock' = IF flock \in Threads /\ ProcOf[flock] \in P THEN NoThread ELSE flock
    /\ cache' = [p \in Procs |-> IF p \in P THEN FreshChain ELSE cache[p]]

\* kill -9 and restart of process p, perhaps in the middle of its write.
Crash(p) ==
    /\ Stopped({p})
    /\ \/ UNCHANGED log
       \/ \E t \in Threads, extent \in Extents :
            ProcOf[t] = p /\ pc[t] = "write" /\ log' = Appended(t, extent)
    /\ UNCHANGED <<durable, prev, digest, serial, acked>>

\* What can be left of a fragment cut short.
Shortened(extent) ==
    IF extent = "full" THEN {"full", "bare", "torn"}
    ELSE IF extent = "bare" THEN {"bare", "torn"} ELSE {"torn"}

\* The machine loses power: every process stops, and of the fragments no fsync
\* covered any suffix is lost, the last survivor perhaps shortened.
PowerLoss ==
    /\ Stopped(Procs)
    /\ \E n \in durable..Len(log) :
         \/ log' = SubSeq(log, 1, n)
         \/ /\ n > durable
            /\ \E extent \in Shortened(log[n].extent) :
                 log' = [SubSeq(log, 1, n) EXCEPT ![n].extent = extent]
    /\ UNCHANGED <<durable, prev, digest, serial, acked>>

Next ==
    \/ \E t \in Threads :
         \/ Enter(t) \/ Flock(t) \/ Compose(t) \/ Write(t)
         \/ Sync(t) \/ Fail(t) \/ ShortWrite(t)
    \/ \E p \in Procs : Crash(p)
    \/ PowerLoss

Spec == Init /\ [][Next]_vars

-----------------------------------------------------------------------------
(* Properties *)

TypeOK ==
    /\ log \in Seq(Fragment)
    /\ durable \in 0..Len(log)
    /\ flock \in Threads \cup {NoThread}
    /\ lock \in [Procs -> Threads \cup {NoThread}]
    /\ cache \in [Procs -> Chain]
    /\ pc \in [Threads -> Places]
    /\ prev \in [Threads -> Digest]
    /\ digest \in [Threads -> Digest]
    /\ serial \in Nat
    /\ acked \in SUBSET Digest

\* However the processes interleave, crash and restart, a log whose lines all
\* parse verifies: what verify() reports is always a write that fell short,
\* never a fork made by two appenders ("concurrent writers extend one chain
\* instead of forking it").
BrokenOnlyByDamage == AllStand(log) => VerifyOk(log)

\* The cached head, when its key matches the file, is the head that reading the
\* file again would give, as long as no write fell short.
CacheAgrees ==
    AllStand(log) =>
        \A p \in Procs :
            cache[p].head # None /\ cache[p].key = Len(log)
                => cache[p].head = ReadHead(log)

\* What record() and verify() rely on of the file and of the cached head.
LogSound == TypeOK /\ BrokenOnlyByDamage /\ CacheAgrees

\* A record that record() returned for, so that the operation it announces went
\* ahead, is in the file with all its bytes, through crashes and power cuts.
AckedSurvive ==
    \A d \in acked :
        \E i \in 1..durable : log[i].id = d /\ log[i].extent = "full"

\* Damage is never papered over: only a power cut that takes the damaged end of
\* the file away, and no append, failure or restart, makes a log that verify()
\* rejects acceptable again ("keep the last good hash so verify() still reports
\* the damage rather than accepting a fresh genesis").
DamageStays ==
    [][~VerifyOk(log) /\ VerifyOk(log') => PowerLoss]_vars

\* The log as its callers rely on it: see DurableLog.
Durable == INSTANCE DurableLog WITH
    entries <- [i \in 1..Len(log) |-> log[i].id],
    safe <- durable,
    acked <- acked
DurableSpec == Durable!Spec
=============================================================================

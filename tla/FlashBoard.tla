----------------------------- MODULE FlashBoard -----------------------------
(***************************************************************************)
(* Writing firmware to one ESP32 board: upload_sketch of server.py with    *)
(* flash.py under it, and firmware_restore with backup.py, on several      *)
(* worker threads, beside compiles and serial calls on the same port.      *)
(*                                                                         *)
(* A build is a number; what arduino-cli last left in the build directory  *)
(* is `cache'.  The server compiles, then hashes what it finds and signs a *)
(* token for it; a compile by anyone else only replaces the directory.     *)
(* The flash budget is RollingBudget's: here its window does not end, and  *)
(* what counts is the key each write is charged to, which is the chip's    *)
(* MAC where esptool can read it and the USB identity where it cannot.     *)
(***************************************************************************)
EXTENDS Integers, FiniteSets

CONSTANTS
    Threads,
    Limit,         \* max_uploads_per_hour
    MaxBuilds,     \* bound on the compiles
    MaxCalls,      \* bound on the uploads and restores begun
    MaxSessions    \* bound on the serial sessions opened

ASSUME ThreadsAssumption == IsFiniteSet(Threads)
ASSUME LimitAssumption == Limit \in Nat
ASSUME MaxBuildsAssumption == MaxBuilds \in Nat
ASSUME MaxCallsAssumption == MaxCalls \in Nat
ASSUME MaxSessionsAssumption == MaxSessions \in Nat

VARIABLES
    bridged,    \* the board sits behind a UART bridge, which many boards' serials share
    built,      \* builds made so far
    cache,      \* the build in the build directory
    compiling,  \* a compile_sketch whose arduino-cli has ended
    signed,     \* builds the server signed a token for
    tokens,     \* those whose token has not expired
    session,    \* the session registered for the port
    opened,     \* sessions opened so far
    known,      \* the sessions whose id a caller was given
    unnamed,    \* those opened again by an upload that ended in no ToolError
    calls,      \* uploads and restores begun so far
    spent,      \* what each budget key was charged
    started,    \* upload_started records
    recorded,   \* firmware_restore_started records
    finished,   \* upload_finished records
    unclosed,   \* upload_started records without an end, which a log failure explains
    writes,     \* writes to the board begun
    flashed,    \* builds that uploads have written
    pc,         \* where each thread is in its call
    digest,     \* the artifact_digest an upload was called with
    snap,       \* the build in its private snapshot
    previous,   \* the session it found on the port
    released,   \* it has closed the port's session
    mac,        \* it could read the chip's MAC
    code,       \* how the upload ends
    reopened    \* the session it opened again

vars == <<bridged, built, cache, compiling, signed, tokens, session, opened, known, unnamed,
          calls, spent, started, recorded, finished, unclosed, writes, flashed,
          pc, digest, snap, previous, released, mac, code, reopened>>

buildVars == <<built, cache, compiling, signed, tokens>>
portVars == <<session, opened, known, unnamed>>
logVars == <<started, recorded, finished, unclosed>>
boardVars == <<writes, flashed>>
callVars == <<digest, snap, previous, released, mac, code, reopened>>

None == 0
Keys == {"mac", "usb"}
Codes == {"running", "ok", "failed", "refused", "unaudited", "unlogged", "crashed"}
Places == {"idle", "verify", "copy", "check", "identify", "charge", "log", "write", "note",
           "abort", "reopen", "reply", "chip", "pay", "record", "restore"}

Init ==
    /\ bridged \in BOOLEAN
    /\ built = 0 /\ cache = None /\ compiling = FALSE /\ signed = {} /\ tokens = {}
    /\ session = None /\ opened = 0 /\ known = {} /\ unnamed = {} /\ calls = 0
    /\ spent = [k \in Keys |-> 0]
    /\ started = 0 /\ recorded = 0 /\ finished = 0 /\ unclosed = 0
    /\ writes = 0 /\ flashed = {}
    /\ pc = [t \in Threads |-> "idle"]
    /\ digest = [t \in Threads |-> None] /\ snap = [t \in Threads |-> None]
    /\ previous = [t \in Threads |-> None] /\ released = [t \in Threads |-> FALSE]
    /\ mac = [t \in Threads |-> FALSE] /\ code = [t \in Threads |-> "running"]
    /\ reopened = [t \in Threads |-> None]

Goto(t, place) == pc' = [pc EXCEPT ![t] = place]

-----------------------------------------------------------------------------
(* The surroundings: the build directory, time and the serial tools *)

\* compile_sketch: arduino-cli replaces the build in the directory.
Compile ==
    /\ ~compiling /\ built < MaxBuilds
    /\ built' = built + 1 /\ cache' = built + 1
    /\ compiling' = TRUE
    /\ UNCHANGED <<bridged, signed, tokens, portVars, calls, spent, logVars, boardVars, pc, callVars>>

\* It hashes the directory as it then is, and signs a token for that.
Sign ==
    /\ compiling
    /\ compiling' = FALSE
    /\ signed' = signed \cup {cache} /\ tokens' = tokens \cup {cache}
    /\ UNCHANGED <<bridged, built, cache, portVars, calls, spent, logVars, boardVars, pc, callVars>>

\* The IDE, or another server, builds the sketch into the same directory.
Rebuild ==
    /\ built < MaxBuilds
    /\ built' = built + 1 /\ cache' = built + 1
    /\ UNCHANGED <<bridged, compiling, signed, tokens, portVars, calls, spent, logVars, boardVars, pc, callVars>>

Expire(d) ==
    /\ d \in tokens
    /\ tokens' = tokens \ {d}
    /\ UNCHANGED <<bridged, built, cache, compiling, signed, portVars, calls, spent, logVars, boardVars, pc, callVars>>

\* serial_open by another call on a port without a session.
SerialOpen ==
    /\ session = None /\ opened < MaxSessions
    /\ opened' = opened + 1 /\ session' = opened + 1 /\ known' = known \cup {opened + 1}
    /\ UNCHANGED <<bridged, buildVars, unnamed, calls, spent, logVars, boardVars, pc, callVars>>

SerialClose ==
    /\ session # None
    /\ session' = None
    /\ UNCHANGED <<bridged, buildVars, opened, known, unnamed, calls, spent, logVars, boardVars, pc, callVars>>

-----------------------------------------------------------------------------
(* upload_sketch, up to the write *)

\* The session of the port is noted, to be opened again afterwards.
Upload(t, d) ==
    /\ pc[t] = "idle" /\ calls < MaxCalls
    /\ calls' = calls + 1
    /\ digest' = [digest EXCEPT ![t] = d]
    /\ snap' = [snap EXCEPT ![t] = None]
    /\ previous' = [previous EXCEPT ![t] = session]
    /\ released' = [released EXCEPT ![t] = FALSE]
    /\ mac' = [mac EXCEPT ![t] = FALSE]
    /\ code' = [code EXCEPT ![t] = "running"]
    /\ reopened' = [reopened EXCEPT ![t] = None]
    /\ Goto(t, "verify")
    /\ UNCHANGED <<bridged, buildVars, portVars, spent, logVars, boardVars>>

\* An error before upload_started: nothing to close but what release() closed.
Refuse(t) ==
    /\ code' = [code EXCEPT ![t] = "refused"]
    /\ Goto(t, "reopen")

Verify(t) ==
    /\ pc[t] = "verify"
    /\ IF digest[t] \in tokens THEN Goto(t, "copy") /\ UNCHANGED code ELSE Refuse(t)
    /\ UNCHANGED <<bridged, buildVars, portVars, calls, spent, logVars, boardVars,
                   digest, snap, previous, released, mac, reopened>>

\* A copy that fails, or is made while the directory is replaced, is no build.
Copy(t) ==
    /\ pc[t] = "copy"
    /\ \E copy \in {cache, None} : snap' = [snap EXCEPT ![t] = copy]
    /\ Goto(t, "check")
    /\ UNCHANGED <<bridged, buildVars, portVars, calls, spent, logVars, boardVars,
                   digest, previous, released, mac, code, reopened>>

\* Mutant: the digest of the build directory is compared, not the copy's.
CheckDirectory(t) ==
    /\ pc[t] = "check"
    /\ IF cache = digest[t]
       THEN Goto(t, IF bridged THEN "identify" ELSE "charge") /\ UNCHANGED code
       ELSE Refuse(t)
    /\ UNCHANGED <<bridged, buildVars, portVars, calls, spent, logVars, boardVars,
                   digest, snap, previous, released, mac, reopened>>

\* The digest of the private copy must be the one the token was minted for.
Check(t) ==
    /\ pc[t] = "check"
    /\ IF snap[t] = digest[t]
       THEN Goto(t, IF bridged THEN "identify" ELSE "charge") /\ UNCHANGED code
       ELSE Refuse(t)
    /\ UNCHANGED <<bridged, buildVars, portVars, calls, spent, logVars, boardVars,
                   digest, snap, previous, released, mac, reopened>>

\* release(): whatever session the port has is closed, once, if the call found one.
Release(t) ==
    /\ released' = [released EXCEPT ![t] = @ \/ previous[t] # None]
    /\ session' = IF previous[t] # None /\ ~released[t] THEN None ELSE session
    /\ UNCHANGED <<opened, known, unnamed>>

\* Behind a bridge the chip is asked for its MAC, for which the port must be
\* free; no answer is no error, an exception that is no ToolError ends the call.
Identify(t) ==
    /\ pc[t] = "identify"
    /\ Release(t)
    /\ \/ /\ \E answer \in BOOLEAN : mac' = [mac EXCEPT ![t] = answer]
          /\ Goto(t, "charge")
          /\ UNCHANGED code
       \/ /\ code' = [code EXCEPT ![t] = "crashed"]
          /\ Goto(t, "reopen")
          /\ UNCHANGED mac
    /\ UNCHANGED <<bridged, buildVars, calls, spent, logVars, boardVars,
                   digest, snap, previous, reopened>>

KeyOf(t) == IF mac[t] THEN "mac" ELSE "usb"

\* Mutant: the session is closed before the budget is asked.
ChargeReleasingFirst(t) ==
    /\ pc[t] = "charge"
    /\ Release(t)
    /\ IF spent[KeyOf(t)] < Limit
       THEN /\ spent' = [spent EXCEPT ![KeyOf(t)] = @ + 1]
            /\ Goto(t, "log")
            /\ UNCHANGED code
       ELSE Refuse(t) /\ UNCHANGED spent
    /\ UNCHANGED <<bridged, buildVars, calls, logVars, boardVars,
                   digest, snap, previous, mac, reopened>>

\* The budget first; then the session is closed, if it is not yet.
ChargeBudget(t) ==
    /\ pc[t] = "charge"
    /\ IF spent[KeyOf(t)] < Limit
       THEN /\ spent' = [spent EXCEPT ![KeyOf(t)] = @ + 1]
            /\ Release(t)
            /\ Goto(t, "log")
            /\ UNCHANGED code
       ELSE Refuse(t) /\ UNCHANGED <<spent, portVars, released>>
    /\ UNCHANGED <<bridged, buildVars, calls, logVars, boardVars,
                   digest, snap, previous, mac, reopened>>

\* audit.require: no upload_started, no write.  An fsync that fails leaves the
\* line in the file, a start that gets no end.
LogStarted(t) ==
    /\ pc[t] = "log"
    /\ \/ started' = started + 1 /\ Goto(t, "write") /\ UNCHANGED <<unclosed, code>>
       \/ /\ \/ UNCHANGED <<started, unclosed>>
             \/ started' = started + 1 /\ unclosed' = unclosed + 1
          /\ code' = [code EXCEPT ![t] = "unaudited"]
          /\ Goto(t, "reopen")
    /\ UNCHANGED <<bridged, buildVars, portVars, calls, spent, recorded, finished, boardVars,
                   digest, snap, previous, released, mac, reopened>>

-----------------------------------------------------------------------------
(* The write and what follows *)

\* arduino-cli, and the ELF of what it wrote kept: done, failed with a return
\* code, or raised, whether or not the board has been written by then; some
\* exceptions are no ToolError (output that is not UTF-8, say).
Write(t) ==
    /\ pc[t] = "write"
    /\ writes' = writes + 1
    /\ \/ flashed' = flashed \cup {snap[t]} /\ code' = [code EXCEPT ![t] = "ok"] /\ Goto(t, "note")
       \/ /\ flashed' \in {flashed, flashed \cup {snap[t]}}
          /\ \/ code' = [code EXCEPT ![t] = "failed"] /\ (Goto(t, "note") \/ Goto(t, "abort"))
             \/ code' = [code EXCEPT ![t] = "crashed"] /\ Goto(t, "abort")
    /\ UNCHANGED <<bridged, buildVars, portVars, calls, spent, logVars,
                   digest, snap, previous, released, mac, reopened>>

\* audit.note of the result, or _note_upload_failed of the exception: if the
\* log fails the call ends with AUDIT_LOG_FAILED, with the line in the file or
\* without.
LogFinished(t) ==
    /\ pc[t] \in {"note", "abort"}
    /\ \/ finished' = finished + 1 /\ UNCHANGED <<unclosed, code>>
       \/ /\ \/ finished' = finished + 1 /\ UNCHANGED unclosed
             \/ unclosed' = unclosed + 1 /\ UNCHANGED finished
          /\ code' = [code EXCEPT ![t] = "unlogged"]
    /\ Goto(t, "reopen")
    /\ UNCHANGED <<bridged, buildVars, portVars, calls, spent, started, recorded, boardVars,
                   digest, snap, previous, released, mac, reopened>>

\* finally: sessions.open, which returns the session that another call opened
\* meanwhile, or raises, if there is one at another baud or the port is gone.
Reopen(t) ==
    /\ pc[t] = "reopen"
    /\ \/ UNCHANGED <<portVars, reopened>>
       \/ /\ released[t] /\ session # None
          /\ reopened' = [reopened EXCEPT ![t] = session]
          /\ UNCHANGED portVars
       \/ /\ released[t] /\ session = None /\ opened < MaxSessions
          /\ opened' = opened + 1 /\ session' = opened + 1
          /\ reopened' = [reopened EXCEPT ![t] = opened + 1]
          /\ UNCHANGED <<known, unnamed>>
    /\ Goto(t, "reply")
    /\ UNCHANGED <<bridged, buildVars, calls, spent, logVars, boardVars,
                   digest, snap, previous, released, mac, code>>

\* Mutant: a ToolError is raised on without the session's fields.
ReplyDroppingFields(t) ==
    /\ pc[t] = "reply"
    /\ known' = IF code[t] \in {"ok", "failed"} THEN known \cup {reopened[t]} ELSE known
    /\ unnamed' = IF code[t] = "crashed" THEN unnamed \cup {reopened[t]} ELSE unnamed
    /\ Goto(t, "idle")
    /\ UNCHANGED <<bridged, buildVars, session, opened, calls, spent, logVars, boardVars,
                   digest, snap, previous, released, mac, code, reopened>>

\* The result names the reopened session, also on a ToolError; any other
\* exception goes to guard, which knows nothing of it.
Reply(t) ==
    /\ pc[t] = "reply"
    /\ IF code[t] = "crashed"
       THEN unnamed' = unnamed \cup {reopened[t]} /\ UNCHANGED known
       ELSE known' = known \cup {reopened[t]} /\ UNCHANGED unnamed
    /\ Goto(t, "idle")
    /\ UNCHANGED <<bridged, buildVars, session, opened, calls, spent, logVars, boardVars,
                   digest, snap, previous, released, mac, code, reopened>>

-----------------------------------------------------------------------------
(* firmware_restore *)

restoreVars == <<bridged, buildVars, portVars, started, finished, unclosed, flashed, callVars>>

\* _require_free_port: a port with a live session is refused; a dead one is
\* dropped, which is SerialClose here.
PortIsFree == session = None

Restore(t) ==
    /\ pc[t] = "idle" /\ calls < MaxCalls /\ PortIsFree
    /\ calls' = calls + 1
    /\ Goto(t, "chip")
    /\ UNCHANGED <<restoreVars, spent, recorded, writes>>

\* identify: without the backup's MAC there is no restore.
CheckChip(t) ==
    /\ pc[t] = "chip"
    /\ Goto(t, "pay") \/ Goto(t, "idle")
    /\ UNCHANGED <<restoreVars, calls, spent, recorded, writes>>

PayRestore(t) ==
    /\ pc[t] = "pay"
    /\ IF spent["mac"] < Limit
       THEN spent' = [spent EXCEPT !["mac"] = @ + 1] /\ Goto(t, "record")
       ELSE Goto(t, "idle") /\ UNCHANGED spent
    /\ UNCHANGED <<restoreVars, calls, recorded, writes>>

\* Mutant: the record is only noted, and the restore goes on without it.
NoteRestore(t) ==
    /\ pc[t] = "record"
    /\ recorded' \in {recorded, recorded + 1}
    /\ Goto(t, "restore")
    /\ UNCHANGED <<restoreVars, calls, spent, writes>>

\* audit.require again: refused without a record, or with one in the file that
\* could not be synced.
LogRestore(t) ==
    /\ pc[t] = "record"
    /\ \/ recorded' = recorded + 1 /\ Goto(t, "restore")
       \/ recorded' \in {recorded, recorded + 1} /\ Goto(t, "idle")
    /\ UNCHANGED <<restoreVars, calls, spent, writes>>

WriteFlash(t) ==
    /\ pc[t] = "restore"
    /\ writes' = writes + 1
    /\ Goto(t, "idle")
    /\ UNCHANGED <<restoreVars, calls, spent, recorded>>

Next ==
    \/ Compile \/ Sign \/ Rebuild \/ SerialOpen \/ SerialClose
    \/ \E d \in 1..MaxBuilds : Expire(d) \/ \E t \in Threads : Upload(t, d)
    \/ \E t \in Threads :
         \/ Verify(t) \/ Copy(t) \/ Check(t) \/ Identify(t) \/ ChargeBudget(t) \/ LogStarted(t)
         \/ Write(t) \/ LogFinished(t) \/ Reopen(t) \/ Reply(t)
         \/ Restore(t) \/ CheckChip(t) \/ PayRestore(t) \/ LogRestore(t) \/ WriteFlash(t)

Spec == Init /\ [][Next]_vars

-----------------------------------------------------------------------------
(* Properties *)

TypeOK ==
    /\ bridged \in BOOLEAN
    /\ built \in Nat /\ cache \in Nat /\ compiling \in BOOLEAN
    /\ signed \in SUBSET Nat /\ tokens \in SUBSET Nat
    /\ session \in Nat /\ opened \in Nat /\ calls \in Nat
    /\ known \in SUBSET Nat /\ unnamed \in SUBSET Nat
    /\ spent \in [Keys -> 0..Limit]
    /\ started \in Nat /\ recorded \in Nat /\ finished \in Nat /\ unclosed \in Nat
    /\ writes \in Nat /\ flashed \in SUBSET Nat
    /\ pc \in [Threads -> Places]
    /\ digest \in [Threads -> Nat] /\ snap \in [Threads -> Nat]
    /\ previous \in [Threads -> Nat] /\ released \in [Threads -> BOOLEAN]
    /\ mac \in [Threads -> BOOLEAN] /\ code \in [Threads -> Codes]
    /\ reopened \in [Threads -> Nat]

\* What an upload writes is a build that this server hashed and signed for,
\* though anyone may replace the directory between the compile, the hash, the
\* copy and the write.
FlashedAsSigned == flashed \subseteq signed

\* "Nothing moves unless it is written": every write to the board, by an
\* upload or a restore, was charged to the flash budget and has its record.
WritesAreBacked ==
    /\ writes <= started + recorded
    /\ started + recorded <= spent["mac"] + spent["usb"]

\* "Every upload_started gets its upload_finished, including a timeout or a
\* failed UF2 copy", or its caller was told that the log could not be written:
\* the end is missing, or the start was refused with its line in the file.
StartsAreFinished ==
    started = finished + unclosed + Cardinality({t \in Threads : pc[t] \in {"write", "note", "abort"}})

\* The books of the board's writes balance.
WritesSound == TypeOK /\ WritesAreBacked /\ StartsAreFinished

\* "Close only after the budget accepts the write", and what the code makes of
\* it.  The only refusal that has closed the port's session is the one of the
\* budget for a board behind a UART bridge: the session was closed to ask the
\* chip for the key that the budget then refused.  No refusal of the token or
\* the artifact closes it, and for any other board none at all.
ReleasedOnlyToAsk ==
    \A t \in Threads :
        code[t] = "refused" /\ released[t] =>
            bridged /\ snap[t] = digest[t] /\ spent[KeyOf(t)] = Limit

\* No "orphan reopen whose id never made it back": whatever the uploads and the
\* serial calls on the port have closed and opened, and however the uploads
\* ended, some caller has been given the id of the session that is open, or is
\* about to be.  The uploads that ended in an exception that is no ToolError
\* are the exception: their sessions are `unnamed'.
SessionsAreKnown ==
    session # None =>
        \/ session \in known \cup unnamed
        \/ \E t \in Threads : pc[t] = "reply" /\ reopened[t] = session

\* "Caps uploads per physical board per hour", and a restore is refused unless
\* "the board's flash budget allows it".
BoardCap == writes <= Limit
=============================================================================

----------------------------- MODULE BoardFiles -----------------------------
(***************************************************************************)
(* What the server keeps on disk of one board: its journal of uploads and  *)
(* its label (journal.py), the ELF files of its last uploads, and images   *)
(* of its flash (backup.py).  Every Claude Code session runs a server of   *)
(* its own, and a server runs tools in several threads.                    *)
(*                                                                         *)
(* Abstractions: a firmware is a number, and so are its digest, its ELF    *)
(* and the image of a flash that holds it; the board's USB serial number   *)
(* and its chip's MAC do not change; esptool has the port to itself, and   *)
(* a read takes at least a second.  FlashBoard has the budget and the      *)
(* audit records of uploads and restores.                                  *)
(***************************************************************************)
EXTENDS Naturals, Sequences, FiniteSetsExt

CONSTANTS
    Workers,      \* threads that run tools
    Processes,    \* servers
    Firmwares,    \* what may be flashed; not 0
    MAX_UPLOADS,  \* uploads a journal keeps
    KEEP_ELFS,    \* ELF files kept
    KEEP,         \* backups kept
    MaxOps,       \* bound: calls
    MaxFaults,    \* bound: damages, kills and changes of the clock
    MaxNow        \* bound: the clock

ASSUME Limits ==
    /\ MAX_UPLOADS \in Nat \ {0} /\ KEEP_ELFS \in Nat \ {0} /\ KEEP \in Nat \ {0}
    /\ Firmwares # {} /\ Firmwares \subseteq Nat \ {0}

Garbage == 0      \* what an interrupted write, or a failing disk, leaves

VARIABLES
    process,      \* whose thread a worker is
    at, arg,      \* where a worker's call is, and what it was called with
    held,         \* what the call has read
    chip,         \* the firmware on the chip
    entry,        \* the journal entry: none, damaged or what it says
    elfs,         \* the ELF files, and of each the time it was stored
    temp,         \* of a process, the image esptool read
    images,       \* the images, by the id of their backup
    metas,        \* the ids of the records beside them
    now,          \* local time, in seconds
    applied,      \* history: what the changes made to the entry come to
    placed,       \* history: the ids of the images placed, in order
    made,         \* history: the ids of the backups recorded
    restored,     \* history: which backup was restored, and what was written
    odd,          \* history: unusual circumstances that occurred
    ops           \* history: the number of calls

journal == <<entry, elfs, applied>>
backups == <<temp, images, metas, now, placed, made, restored>>
filesVars == <<process, at, arg, held, chip, journal, backups, odd, ops>>

Newest(s, n) == SubSeq(s, IF Len(s) > n THEN Len(s) - n + 1 ELSE 1, Len(s))
Empty == [uploads |-> << >>, label |-> "none"]

FilesInit ==
    /\ process \in [Workers -> Processes]
    /\ at = [w \in Workers |-> "idle"]
    /\ arg = [w \in Workers |-> 0]
    /\ held = [w \in Workers |-> {}]
    /\ chip = CHOOSE f \in Firmwares : TRUE
    /\ entry = <<"none">> /\ elfs = << >>
    /\ temp = [p \in Processes |-> << >>]
    /\ images = << >> /\ metas = {} /\ now = 1
    /\ applied = Empty /\ placed = << >> /\ made = {} /\ restored = {} /\ odd = {} /\ ops = 0

Goes(w, from, to) == at[w] = from /\ at' = [at EXCEPT ![w] = to]
Holds(w, what) == held' = [held EXCEPT ![w] = what]
Begins(w, to, what) ==
    /\ ops < MaxOps /\ ops' = ops + 1
    /\ Goes(w, "idle", to)
    /\ arg' = [arg EXCEPT ![w] = what]
    /\ held' = [held EXCEPT ![w] = {}]
    /\ UNCHANGED process
Same == UNCHANGED <<process, arg, ops>>

\* Threads of the same process, and of others.
Beside(w) == {v \in Workers \ {w} : process[v] = process[w]}
Abroad(w) == {v \in Workers : process[v] # process[w]}
Somewhere(ws, places) == \E v \in ws : at[v] \in places

\* esptool, or arduino-cli, has the port.
Busy == Somewhere(Workers, {"reading", "writing"})

-----------------------------------------------------------------------------
(* The journal *)

\* A fault of this kind.
Fault(kind) ==
    /\ Cardinality(odd \cap ({"damage", "rot", "clock", "crash"} \ {kind})) < MaxFaults
    /\ kind \notin odd /\ odd' = odd \cup {kind}

\* journal._lock, which the threads of a process share.
Locked(w) == Somewhere(Beside(w), {"listing", "dropping", "updating", "storing"})

\* upload_sketch has flashed firmware f.
Flashed(w, f) ==
    /\ ~Busy /\ Begins(w, "uploaded", <<"upload", f>>)
    /\ chip' = f
    /\ UNCHANGED <<journal, backups, odd>>

\* store_elf, best effort: a private copy beside the others.
StoreElf(w) ==
    /\ Goes(w, "uploaded", "listing") /\ ~Locked(w)
    /\ elfs' = [f \in DOMAIN elfs \cup {arg[w][2]} |->
                  IF f = arg[w][2] THEN 1 + Max({0} \cup {elfs[g] : g \in DOMAIN elfs})
                  ELSE elfs[f]]
    /\ odd' = odd \cup IF Somewhere(Abroad(w), {"listing", "dropping"}) THEN {"elfs"} ELSE {}
    /\ Same /\ UNCHANGED <<held, chip, entry, applied, backups>>

\* It has none, it is too large, or the disk is full.
NoElf(w) ==
    /\ Goes(w, "uploaded", "changing")
    /\ Same /\ UNCHANGED <<held, chip, journal, backups, odd>>

\* Those stored after this one.
StoredAfter(e) == {f \in DOMAIN elfs : elfs[f] > elfs[e]}

\* Mutant: the oldest are sorted to the front.
BeyondReversed == {e \in DOMAIN elfs : Cardinality({f \in DOMAIN elfs : elfs[f] < elfs[e]}) >= KEEP_ELFS}

\* Sorted by their time, all but the newest.
Beyond == {e \in DOMAIN elfs : Cardinality(StoredAfter(e)) >= KEEP_ELFS}

ListElfs(w) ==
    /\ Goes(w, "listing", "dropping")
    /\ Holds(w, Beyond)
    /\ Same /\ UNCHANGED <<chip, journal, backups, odd>>

\* A file that another process has just dropped has no time.
ListFails(w) ==
    /\ Somewhere(Abroad(w), {"dropping"})
    /\ Goes(w, "listing", "changing")
    /\ Same /\ UNCHANGED <<held, chip, journal, backups, odd>>

DropElfs(w) ==
    /\ Goes(w, "dropping", "changing")
    /\ elfs' = [e \in DOMAIN elfs \ held[w] |-> elfs[e]]
    /\ Same /\ UNCHANGED <<held, chip, entry, applied, backups, odd>>

\* board_label
SetLabel(w, text) ==
    /\ Begins(w, "changing", <<"label", text>>)
    /\ UNCHANGED <<chip, journal, backups, odd>>

\* Mutant: the threads of a process exclude each other, processes do not.
LockThreads(w) == ~Locked(w)

\* _update: the lock file, held by one thread of one process.
Lock(w) == ~Locked(w) /\ ~Somewhere(Workers, {"updating", "storing"})

Enter(w) ==
    /\ Lock(w) /\ Goes(w, "changing", "updating")
    /\ Same /\ UNCHANGED <<held, chip, journal, backups, odd>>

\* change(entry): record_upload, set_label
Changed(e, what) ==
    IF what[1] = "upload" THEN [e EXCEPT !.uploads = Newest(Append(@, what[2]), MAX_UPLOADS)]
    ELSE [e EXCEPT !.label = what[2]]

\* The entry is read; one that cannot be read is set aside.
ReadEntry(w) ==
    /\ Goes(w, "updating", "storing")
    /\ Holds(w, IF Len(entry) = 2 THEN entry[2] ELSE Empty)
    /\ entry' = IF entry[1] = "damaged" THEN <<"none">> ELSE entry
    /\ applied' = IF entry[1] = "damaged" THEN Empty ELSE applied
    /\ Same /\ UNCHANGED <<chip, elfs, backups, odd>>

\* A new file replaces it, and the locks are released.
WriteEntry(w) ==
    /\ Goes(w, "storing", "idle")
    /\ entry' = <<"entry", Changed(held[w], arg[w])>>
    /\ applied' = Changed(applied, arg[w])
    /\ Holds(w, {})
    /\ Same /\ UNCHANGED <<chip, elfs, backups, odd>>

\* The disk is full: "recorded": false.
WriteFails(w) ==
    /\ Goes(w, "storing", "idle") /\ Holds(w, {})
    /\ Same /\ UNCHANGED <<chip, journal, backups, odd>>

\* Someone, or the disk, damages the entry.
Damage ==
    /\ entry[1] = "entry" /\ Fault("damage")
    /\ entry' = <<"damaged">>
    /\ UNCHANGED <<process, at, arg, held, chip, elfs, applied, backups, ops>>

-----------------------------------------------------------------------------
(* Backups *)

\* firmware_backup: create finds out the chip's MAC.
Backup(w) ==
    /\ ~Busy /\ Begins(w, "identified", 0)
    /\ UNCHANGED <<chip, journal, backups, odd>>

\* Its finally clause removes the temporary file of the process.
Gone(w) == temp' = [temp EXCEPT ![process[w]] = << >>]

Reading == {"reading", "read", "digested"}

\* read-flash; esptool fails if the port is taken meanwhile.
BeginRead(w) ==
    /\ IF Busy THEN Goes(w, "identified", "idle") /\ Gone(w)
               ELSE Goes(w, "identified", "reading") /\ UNCHANGED temp
    /\ odd' = odd \cup IF Somewhere(Beside(w), Reading) THEN {"temp"} ELSE {}
    /\ Same /\ UNCHANGED <<held, chip, journal, images, metas, now, placed, made, restored>>

EndRead(w) ==
    /\ now < MaxNow /\ now' = now + 1
    /\ Goes(w, "reading", "read")
    /\ temp' = [temp EXCEPT ![process[w]] = <<chip>>]
    /\ Same /\ UNCHANGED <<held, chip, journal, images, metas, placed, made, restored, odd>>

\* It fails or times out, or its file is not there.
ReadFails(w) ==
    /\ \/ Goes(w, "reading", "idle")
       \/ Goes(w, "read", "idle") /\ temp[process[w]] = << >>
    /\ Gone(w)
    /\ Same /\ UNCHANGED <<held, chip, journal, images, metas, now, placed, made, restored, odd>>

Digest(w) ==
    /\ Goes(w, "read", "digested") /\ temp[process[w]] # << >>
    /\ Holds(w, temp[process[w]][1])
    /\ Same /\ UNCHANGED <<chip, journal, backups, odd>>

\* A backup is named by the time and the digest.
Place(w) ==
    LET id == <<now, held[w]>> IN
    /\ at[w] = "digested"
    /\ IF temp[process[w]] = << >>
       THEN Goes(w, "digested", "idle") /\ UNCHANGED <<images, placed, held>>
       ELSE /\ Goes(w, "digested", "placed")
            /\ images' = [i \in DOMAIN images \cup {id} |->
                            IF i = id THEN temp[process[w]][1] ELSE images[i]]
            /\ placed' = Append(placed, id)
            /\ Holds(w, id)
    /\ Gone(w)
    /\ Same /\ UNCHANGED <<chip, journal, metas, now, made, restored, odd>>

\* The record of the backup.
Record(w) ==
    /\ Goes(w, "placed", "recorded")
    /\ metas' = metas \cup {held[w]}
    /\ made' = made \cup {held[w]}
    /\ Same /\ UNCHANGED <<held, chip, journal, temp, images, now, placed, restored, odd>>

\* The disk is full: the image stays without a record.
RecordFails(w) ==
    /\ Goes(w, "placed", "idle") /\ Holds(w, {})
    /\ Same /\ UNCHANGED <<chip, journal, backups, odd>>

Later(i, j) == i[1] > j[1] \/ (i[1] = j[1] /\ i[2] > j[2])

\* Mutant: the oldest are listed first.
OldestFirst(ids) == {i \in ids : Cardinality({j \in ids : Later(i, j)}) >= KEEP}

\* list_backups[KEEP:], the newest first by their ids.
OlderThanKept(ids) == {i \in ids : Cardinality({j \in ids : Later(j, i)}) >= KEEP}

ListBackups(w) ==
    /\ Goes(w, "recorded", "pruning") /\ Holds(w, OlderThanKept(metas))
    /\ Same /\ UNCHANGED <<chip, journal, backups, odd>>

\* Of each the image, then its record.
PruneImage(w, id) ==
    /\ at[w] = "pruning" /\ id \in held[w] \cap DOMAIN images
    /\ images' = [i \in DOMAIN images \ {id} |-> images[i]]
    /\ Same /\ UNCHANGED <<at, held, chip, journal, temp, metas, now, placed, made, restored, odd>>

PruneRecord(w, id) ==
    /\ at[w] = "pruning" /\ id \in held[w] \ DOMAIN images
    /\ metas' = metas \ {id}
    /\ Holds(w, held[w] \ {id})
    /\ Same /\ UNCHANGED <<at, chip, journal, temp, images, now, placed, made, restored, odd>>

Pruned(w) ==
    /\ Goes(w, "pruning", "idle") /\ held[w] = {}
    /\ Same /\ UNCHANGED <<held, chip, journal, backups, odd>>

\* Mutant: the checksum is not looked at.
SoundOfAnyContent(id) == id \in metas /\ id \in DOMAIN images

\* load: it is listed, its image is there and has the checksum of the record.
Sound(id) == id \in metas /\ id \in DOMAIN images /\ images[id] = id[2]

\* firmware_restore of a backup that loads.
LoadBackup(w, id) ==
    /\ Sound(id) /\ Begins(w, "loaded", id)
    /\ UNCHANGED <<chip, journal, backups, odd>>

\* restore: write-flash opens the image, unless it is gone or the port is taken.
BeginWrite(w) ==
    /\ at[w] = "loaded"
    /\ IF Busy \/ arg[w] \notin DOMAIN images
       THEN Goes(w, "loaded", "idle") /\ UNCHANGED held
       ELSE Goes(w, "loaded", "writing") /\ Holds(w, images[arg[w]])
    /\ Same /\ UNCHANGED <<chip, journal, backups, odd>>

EndWrite(w) ==
    /\ Goes(w, "writing", "idle")
    /\ chip' = held[w]
    /\ restored' = restored \cup {<<arg[w], held[w]>>}
    /\ Holds(w, {})
    /\ Same /\ UNCHANGED <<journal, temp, images, metas, now, placed, made, odd>>

\* "A failed restore can always be retried."
WriteStops(w) ==
    /\ Goes(w, "writing", "idle") /\ Holds(w, {})
    /\ chip' = Garbage
    /\ Same /\ UNCHANGED <<journal, backups, odd>>

\* The disk damages an image that no restore has verified.
Rot(id) ==
    /\ Fault("rot") /\ ~Somewhere(Workers, {"loaded"})
    /\ id \in DOMAIN images /\ images' = [images EXCEPT ![id] = Garbage]
    /\ UNCHANGED <<process, at, arg, held, chip, journal, temp, metas, now, placed, made, restored, ops>>

\* Local time goes back: the end of summer time.
SetBack ==
    /\ now > 1 /\ now' = now - 1
    /\ Fault("clock")
    /\ UNCHANGED <<process, at, arg, held, chip, journal, temp, images, metas, placed, made, restored, ops>>

-----------------------------------------------------------------------------
\* A server is killed.  Another is started, with another temporary file.
Crash(p) ==
    /\ \E w \in Workers : process[w] = p /\ at[w] # "idle"
    /\ Fault("crash")
    /\ at' = [w \in Workers |-> IF process[w] = p THEN "idle" ELSE at[w]]
    /\ held' = [w \in Workers |-> IF process[w] = p THEN {} ELSE held[w]]
    /\ temp' = [temp EXCEPT ![p] = << >>]
    /\ chip' = IF \E w \in Workers : process[w] = p /\ at[w] = "writing" THEN Garbage ELSE chip
    /\ UNCHANGED <<process, arg, journal, images, metas, now, placed, made, restored, ops>>

JournalStep(w) ==
    \/ \E f \in Firmwares : Flashed(w, f)
    \/ SetLabel(w, "bench")
    \/ StoreElf(w) \/ NoElf(w) \/ ListElfs(w) \/ ListFails(w) \/ DropElfs(w)
    \/ Enter(w) \/ ReadEntry(w) \/ WriteEntry(w) \/ WriteFails(w)

BackupStep(w) ==
    \/ Backup(w) \/ BeginRead(w) \/ EndRead(w) \/ ReadFails(w) \/ Digest(w) \/ Place(w)
    \/ Record(w) \/ RecordFails(w) \/ ListBackups(w) \/ Pruned(w)
    \/ \E id \in metas : PruneImage(w, id) \/ PruneRecord(w, id) \/ LoadBackup(w, id)
    \/ BeginWrite(w) \/ EndWrite(w) \/ WriteStops(w)

FilesNext ==
    \/ \E w \in Workers : JournalStep(w) \/ BackupStep(w)
    \/ Damage \/ SetBack
    \/ \E id \in DOMAIN images : Rot(id)
    \/ \E p \in Processes : Crash(p)

FilesSpec == FilesInit /\ [][FilesNext]_filesVars

-----------------------------------------------------------------------------
(* Properties *)

\* However the calls of several servers overlap, fail or are killed, the entry
\* says what all the changes made to it say one after the other, since it was
\* last set aside: no upload and no label overwrites another.
NoUpdateLost ==
    Len(entry) = 2 => entry[2] = applied

\* The newest ELF files, which the last crashes are decoded with, are never
\* dropped, unless two servers drop ELF files at once (store_elf has no lock
\* between processes).
ElfsSpared ==
    [][\A e \in DOMAIN elfs :
         Cardinality(StoredAfter(e)) < KEEP_ELFS => e \in DOMAIN elfs' \/ "elfs" \in odd]_filesVars

\* The backups made since one of this id was placed last, or in its second.
MadeAfter(id) ==
    {other \in made \ {id} :
        \/ other[1] = id[1]
        \/ \E k \in DOMAIN placed :
             placed[k] = other /\ \A i \in DOMAIN placed : placed[i] = id => i < k}

\* "Keeps the last 3 backups per board": a backup stays listed, with its image,
\* until that many were made after it, whatever other servers back up, prune or
\* restore and whenever one is killed.  It need not if the clock was set back,
\* or if two threads of one server shared their temporary file.
LastAreKept ==
    odd \cap {"clock", "temp"} = {} =>
        \A id \in made :
            Cardinality(MadeAfter(id)) < KEEP =>
                id \in metas /\ id \in DOMAIN images /\ images[id] \in {id[2], Garbage}

\* A restore that succeeds has written the firmware its backup is named for,
\* though images are pruned and damaged beside it.
RestoredAsNamed == "temp" \notin odd => \A r \in restored : r[2] = r[1][2]
=============================================================================

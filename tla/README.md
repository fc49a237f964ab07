# Formal models of omarchy-hardware

TLA+ specifications of `src/mcp/omarchy_hardware/` (the MCP server that lets an
assistant read serial ports, flash boards, drive pins and publish readings): its
concurrent core, its tools and its configuration; the TLC configurations that model-check them, and
TLAPS proofs of all that they check except liveness. File names without a directory below are in
`src/mcp/omarchy_hardware/`.

## 1. The system

The server is one Python process for each assistant session; several may run
at once on the same machine. FastMCP runs its tool calls on worker threads, so
any two tools interleave. Beside the tool calls run one reader thread for each
open serial session and one thread for each bridge. Processes share files: the
audit log, the board journal, the backups, the build directory.

| Component | State | Operations | Hard part | Correct when |
|---|---|---|---|---|
| Audit log, `audit.py` | the log file, the process's lock, a cached chain head | `record`/`require`/`note`, `verify` | several processes, short writes, kills, power cuts | one hash chain; acknowledged records survive; damage stays visible |
| Rolling budgets, `policy.py:422-507`, `server.py:84-125` | one list of timed events for each target, four module globals | `charge`, `_keep_budget` | threads, limits edited at run time, window edges | no window holds more than the limit |
| Serial session, `serial_session.py:33-270` | buffer, counters, three events, two locks | `read`, `expect`, `write`, `query`, `clear`, `close`, the reader thread | reader against callers, clear handshake, timeouts, lost ports | no byte lost unaccounted; a query gets its own reply; calls return |
| Session manager, `serial_session.py:273-336` | session per port, session per id | `open`, `close`, `close_port` | two-second joins outside the lock | no live session is lost or replaced |
| Bridge, `bridge.py:43-174` | pending reading, counts, stop flag and reason | the thread's loop, `stop` | stop against a publish, rate limit, budget | no duplicate, readings counted, an end with its reason, silent after stop |
| Bridge registry, `bridge.py:177-237`, `server.py:1618-1685` | bridges by id | `add`, `for_port`, the start's audit record | two starts at once, refused records, crashes of a start | no port taken by nothing; every record has its end |
| Flashing, `flash.py`, `server.py:1011-1165` | upload token, private copy of the build, session to reopen | `compile_sketch`, `upload_sketch` | build directory changes, each of ten steps can fail | what was signed is what is written; each write is charged and recorded to its end |
| ESP32 backups, `backup.py`, `server.py:509-584` | images and their records | `create`, `load`, `restore` | crash between image and record, pruning | a backup stays until enough newer ones exist, and is restored as what it is named for |
| Board journal, `journal.py` | one JSON file for each board, kept ELF files | `record_upload`, `set_label`, `history`, `store_elf` | read-modify-write by several processes | no lost update; the last ELF files are kept |
| Fingerprints, `fingerprint.py` | stored fingerprints | `accepts`, `store` | a port changes hands | a fingerprint vouches for one board only |
| Slack bridge, `slack_bridge.py` | queue, worker, seen events, budget | envelope, worker, reconnect | redelivery, full queue, failed replies | each request at most once |
| MQTT, WebSocket, HTTP clients | a socket | connect, publish, ping, frames | fragments, keep-alive, lost acknowledgements | acknowledged means delivered |
| MING, remote GPIO, HMI, MicroPython tools, `ming.py`, `gpio_ssh.py`, `jetson_ssh.py`, `weintek*.py`, `micropython.py` | none beyond a request | one request, or a few in order | each stage can fail, a command outlives its call | what moves was allowed, charged and recorded before |
| Policy and configuration, `policy.py`, `config.py` | `config.toml`, read by every call | `load`, the checks of a target | several values together, wildcards, edges of ranges | nothing insecure unless waived, no target guessed, nothing wider than allowed |
| Bar widget, `src/BoardsModel.js`, `src/Panel.qml` | boards seen, absences | `trackArrivals` | twin serial numbers, late scans | a board is announced once |

How they interact. A tool call asks policy, charges a budget, writes an audit
record (`require` refuses the operation if it cannot), then acts: on a session
of the session manager, on a bridge, on the board through `arduino-cli` or
`esptool`. An upload closes the port's session and opens another afterwards. A
bridge reads through the session's `expect` and publishes through a budget; the
serial tools first ask the bridge registry whether the port is bridged.

## 2. Modules and code

| Module | Models | State and actions |
|---|---|---|
| `AuditLog` | `audit.py` | `log` is the file as fragments; `Enter`, `Flock`, `Compose`, `Write`, `Sync` are the steps of `record`; `Fail`, `ShortWrite`, `Crash`, `PowerLoss` what can go wrong at each; `VerifyOk` is `verify` |
| `DurableLog` | what callers of `require` rely on | abstract specification, implemented by `AuditLog` |
| `RollingBudget` | `RollingBudget.charge` with `_keep_budget` | `Read`, `Keep`, `Return` are the three steps on the module global, `ReadClock` and `Admit`/`Refuse` those of a charge |
| `SerialSession` | `SerialSession` | `Reader*` are the rounds of `_drain`; each call is a path through `pc`: lock, clear, clearing, write, read, expect, scan |
| `SerialStream` | what a reader of a session relies on | a queue of bytes, delivered from the front or given up from it; implemented by `SerialSession` |
| `SessionManager` | `SessionManager` and the ends of a session's life | `OpenLook`, `Construct`, `Register` are the three parts of `open`; `BeginClose`, `EndClose` the wait in `SerialSession.close`; `Unregister` the end of `close` |
| `BridgeLoop` | one `Bridge` and `serial_bridge_stop` | `place` follows `_run`, `_offer`, `_send`; `StopRequest` and `StopItself` are `stop` on either thread, which looks for a reason, names one and sets the event; `IntervalPasses` and `DurationPasses` the clock |
| `BridgeRegistry` | `Registry`, `serial_bridge_start`, `_require_unbridged` | `Reserve`, `Audit`, `Begin`, `StartThread` are the steps of a start, `UseSession` a serial call beside it |
| `SlackBridge` | `slack_bridge.Bridge` between Slack and Claude | `Receive` to `Put` are the main thread's way from an envelope to the queue, `Take` to `Apologise` the worker's from the queue to a reply; `Deliver` is Slack, `Drop` the connection, `Crash` the process |
| `Tools` | the tools of `server.py`, but for those that only list what a directory or a table holds, with their helpers in `gpio_ssh.py`, `jetson_ssh.py`, `weintek*.py`, `ming.py`, `micropython.py`, as data | a tool is the sequence of the stages its function goes through: checks, charge, record, the operation's own judgement, questions, commands, outcome |
| `ToolCalls` | calls of those tools by several threads | `Pass` and `Raise` are a stage that succeeds or fails, `Act`, `ActRaises` and `Arrive` a command and its late effect, `Unwind` and `NoteOutcome` what `_audited` does with a failure; `Edit` is the user, `Crash` the process |
| `Configuration` | `config.py`, the target checks of `policy.py`, the filters of `mqtt_lite.py` | a section of `config.toml` with its tables; `Loads` is `load`, `Pick`, `Listed`, `Secure` and `Grants` are what policy looks at; `Edit` changes one value |
| `BoardFiles` | `journal.py`, `backup.py` | `Enter`, `ReadEntry`, `WriteEntry` are the read-modify-write, `StoreElf` to `DropElfs` the rotation, `BeginRead` to `Pruned` a backup, `LoadBackup` to `EndWrite` a restore, `Flashed` an upload's write; `Damage`, `Rot`, `SetBack`, `Crash` the faults |
| `FlashBoard` | `upload_sketch` in `server.py` and `flash.py`, `firmware_restore` | one action for each step of an upload from `Verify` to `Reply`, and of a restore; `Compile`, `Sign`, `Rebuild`, `SerialOpen`, `SerialClose` are the surroundings |

`MCAuditLog` instantiates `AuditLog` for TLC (two processes, one with two
threads), `MCSlackBridge` `SlackBridge` (four mentions), `MCToolCalls` `ToolCalls`
(the tools that run beside another), `MCConfiguration` `Configuration` (the Modbus
ranges); the other modules are instantiated by their `.cfg` alone. The proof modules take two components each where they
belong together, so `LoopInit`, `FilesInit`, `ConfigInit` and their like keep the names
of one apart from those of the other. The modules
compose by assumption: `SessionManager` keeps of a session what the registry
sees (closing, failed, reading), `BridgeRegistry` of a bridge that its thread is
alive, `FlashBoard` of the session manager the session registered for its port,
and of the budget how much each key was charged. `ToolCalls` takes from
`RollingBudget` and `AuditLog` that a charge and a record succeed or raise, and
from `Configuration` which targets a file allows.

## 3. What the runs check

Every property is explained where it is stated; the line here is its content.

| Run | Bounds | Properties |
|---|---|---|
| `audit_log` | 2 processes, 3 threads, 3 records | `LogSound`: no fork by two appenders (`BrokenOnlyByDamage`), a cached head that matches the size is the file's (`CacheAgrees`). `AckedSurvive`: acknowledged is durable. `DamageStays`: only a power cut hides damage. `DurableSpec`: refinement |
| `budget` | 2 threads, 2 budget objects, limits and counts 1..2, window 2, 3 charges | `BudgetSound`: the limit holds in every window, provided admissions are in timestamp order (`CapInOrder`). `KeptWhenLimitChanges`: a budget in use is replaced only by a call that raced with its creation |
| `session_manager` | 2 threads, 1 port, 3 sessions, 1 baud | `RegistrySound` (`NothingLost`), `LiveStaysRegistered`, `CallsReturn` |
| `serial_session` | 2 threads, 3 bytes, buffer, line and chunk of 2, 2 clears | `InputSound`: every byte is somewhere (`Accounted`). `QueryOwnsInput`: nothing old and nobody else. `StreamSpec`: refinement. `CallsReturn`: liveness |
| `bridge_loop` | 4 readings, 2 kept error messages (5 in the code) | `ReadingsSound`: no reading published twice, each counted while the error messages are all kept, the end has a reason that somebody gave. `QuietAfterStop`, `EndsAtLast` |
| `bridge_registry` | 2 threads, 2 ports, 1 bridge at a time, 3 bridges | `StartsSound`: a start has its record, no port is taken by nothing. `SharedByRaceOnly`: when a bridge shares its port. `EndsAreAudited`: liveness |
| `flash` | 2 threads, 2 builds, 2 calls, 2 sessions, limit 1 | `FlashedAsSigned`, `WritesSound`: each write charged and recorded, to its end. `ReleasedOnlyToAsk`: a refusal closes the session only to ask a chip behind a UART bridge for its MAC. `SessionsAreKnown`: some caller knows the id of the open session |
| `flash_cap` (violated) | 1 thread, 2 calls, limit 1 | `BoardCap` |
| `slack` | 4 mentions by 3 people, 3 deliveries, queue, hourly limit and remembered ids of 1, 1 crash | `ServedSound`: who is charged is served, in order, and a "busy" reply costs nothing. `AskedOnce`: a redelivered mention is not run again while its id is remembered. `RecordedIsReplied`: no record of an answer without the answer. `ServedAtLast`: liveness |
| `tools` | 2 threads, any tool and beside or after it a GPIO write, 1 target, 1 edit | `ActsAreBacked`: what changes, even late, was charged and recorded before. `TouchesAllowed`: what is asked or changed was found, or allowed by a file of the call's own time. `RejectedCostNothing`: a rejected call changed nothing, and was charged and recorded only if the tool's operation judges what it is given. `CallsSound`: a record of an outcome is true, and only a crash or the log leaves one out |
| `configuration` | each section, 2 tables, 3 edits of any value | `SecondLookAgrees`: what loads passes at call time. `CleartextIsWaived`. `NeverAGuess`: the target given is the one meant. `NeverWidened`: every topic or address reached is one allowed |
| `board_files` | 2 threads of one server or of two, 3 calls, 2 faults, 2 firmwares, 1 backup and 1 ELF file kept, 2 uploads kept | `NoUpdateLost`, `ElfsSpared`, `LastAreKept`, `RestoredAsNamed` |

Why the bounds are enough. Each hazard needs two actors at most: two appenders,
a reader and a caller, a close and an open, a start and a serial call. The
counters leave room for one thing more than a hazard needs: three records (two
that race, one on top), three sessions (one closing, one opened, one that
loses), a third byte that overflows a buffer of two and a chunk of two so that a
chunk holds old and new input at once, four readings (one sent, one pending, one
newer, and one whose publish fails when two messages are already kept), a budget
object too many for the race of a first use. One baud is enough for `session_manager`, whose properties do not speak of it: a mismatch
makes `open` return without an effect. In `tools` one call is any tool and the
other drives a pin: the calls share only `config.toml`, so one edit and one
target tell a stale file from a fresh one, and a second tool would add no new
relation. In `configuration` a rule relates at most three values (policy, mode
and waiver; tls, waiver and host), which three edits of a table that loads
reach, and two tables show every clash of keys. In `board_files` the limits of
one kept file make the first prune happen at the second backup, and a clock that
takes four values puts two backups in one second or out of order. The theorems
below remove the bounds for safety.

Deadlock. `audit_log`, `session_manager`, `serial_session` and `slack` check it.
The other configurations switch it off because their behaviours end: a bridge dies, and the bounded
counters of charges, bridges, builds, calls and edits run out.

### Fairness

- `SessionManager`: `WF(Step(t))`, the operating system schedules a thread that
  can go on. The wait for the reader in `close` has a timeout of two seconds, so
  `EndClose` needs nothing of the reader. `CallsReturn` is about the lock that a
  losing `open` holds while it waits (`serial_session.py:295-297`).
- `SerialSession`: `WF(Step(t))`, because every wait has a deadline, and
  `SF(Acquire(t))`: a query or clear waits without a deadline for the query
  lock, which every holder gives back after a bounded wait, and Python's locks
  hand over to a waiter. The device and the reader thread are not fair: it may
  be silent, hang or die.
- `BridgeLoop`: `WF(Run)` and `WF(DurationPasses)`: the thread is scheduled, each
  of its calls has a timeout, and time passes. The board may be silent or print
  for ever.
- `BridgeRegistry`: `WF(Starting(t))` and `WF(Finish(b))`: a start in progress goes
  on, and a running bridge ends, which is `EndsAtLast` of `BridgeLoop`.
- `SlackBridge`: `WF(Put)` and `WF(WorkerStep)`: what follows a charge does not
  block, a run ends at its time limit (`run_group` kills its process group) and
  every call to Slack has a timeout. Slack and the connection are not fair.
- `AuditLog`, `RollingBudget`, `FlashBoard`, `ToolCalls`, `Configuration` and
  `BoardFiles` state safety only.

### Abstractions

- `AuditLog`: a payload is a number, and SHA-256 is free of collisions. The
  cached size is told apart by the number of fragments, as the file only grows.
- `RollingBudget`: one target; the budgets for bytes, uploads, actuations and
  MING writes differ in window and limit only.
- `SerialSession`: a byte is the number of its arrival, so order and loss show;
  what a line says is left out but for whether the matcher wants it.
  `_clear_discarded`, the count that a clear returns, is not kept. The reader's
  wait of 0.1 s is a `ReaderReads` that gets nothing.
- `SessionManager`: a session that nothing refers to keeps its reader; Python's
  collector is not modelled. `MaxSessions` stops new sessions at the bound, where
  `ConstructRaises` remains.
- `BridgeLoop`: the interval and the duration each become over at a moment of
  their own; the budget's answer is a choice. `errors` is the number of messages kept.
- `BridgeRegistry`: `Thread.start` succeeds. `stopped` means that `on_stop` has
  run, also where the log refused its record, as `_note_outcome` only warns. Here
  and in `ToolCalls` a record for which `require` raises counts as not written;
  in `FlashBoard`, as in `AuditLog`, an `fsync` that fails leaves its line in the file.
- `FlashBoard`: one ESP32 board on one port. The budget's window does not end. A
  token may expire at any time. The confirmation, the match of board and FQBN,
  the fingerprint, the bridge check, the UF2 volume and the journal entry after
  the write are left out: they end the call before it has an effect, or follow
  the last one.
- `Tools`: a loop over an answer is one stage, a file sent by `mpy_put` has two
  chunks. `ToolCalls`: a check that depends on the arguments, on another component
  or on the world may go either way; the configuration is the set of targets it
  allows, and each call uses one target. A call is rejected by a check or by its
  operation's judgement of the code or value it was given; whatever else raises, a missing
  credential for instance, is a failure.
- `Configuration`: a value is one of the few a rule tells apart; a topic has up to
  three levels and a filter two. The three HTTP services are one.
- `BoardFiles`: a firmware, its digest, ELF and flash image are one number; time
  is in seconds, and a read takes at least one. `applied` is a history value: what the
  changes of an entry come to since it was last set aside as damaged. Not the budget
  and the records, which are in `FlashBoard`.
- `SlackBridge`: the hour is not measured, a charge leaves the window at a
  moment of its own. The short replies of the main thread change nothing and are
  left out, with `refused`, which only decides whether a stranger gets one. So are
  the wait before a new connection and `Outcome.ok`, which words the record.
  The audit log is the set of records that could be written. Slack delivers
  a mention until an acknowledgement arrives, at most `MaxDeliveries` times in all.

## 4. What is proved

TLAPS checks the proofs for every value of the constants, under the named
assumptions of the modules: which thread belongs to which process, natural
numbers for the bounds, positive ones for the sizes, limits and numbers of files
kept, `NoThread` and its like no member of the set they stand beside, Modbus
ranges made of an area and two natural numbers.

- `AuditLogProofs`: `TypeCorrect`, `Integrity` (`BrokenOnlyByDamage`),
  `CacheCorrect`, `SoundLog` (`LogSound`), `AckedDurable`, `DamageIsPermanent`,
  `ImplementsDurableLog`. The
  inductive invariant adds who holds which lock (`Holding`), that each fragment
  names the last standing record before it unless damage came between
  (`Chained`), that a writer's head is still the tip of the file (`WriterReady`)
  and what it has written is the end of it (`SyncReady`), and that a cached head
  is the digest at its size (`CacheSound`). The locks make `WriterReady` stable:
  nobody else appends between `Compose` and `Write`.
- `PolicyProofs`, of `RollingBudget`: `TypeCorrect`, `BudgetSafe` (`CapInOrder`) and with them
  `SoundBudget` (`BudgetSound`), by induction
  on the admissions: an event forgotten by the last charge is outside every
  window that the next one in order can fall in. `KeptOnLimitChange`
  (`KeptWhenLimitChanges`) needs only the type invariant.
  Of `Configuration`: `LoadedIsAccepted` (`SecondLookAgrees`),
  `CleartextOnlyIfWaived` (`CleartextIsWaived`), `GivenAsNamed` (`NeverAGuess`) and
  `GivenAsAllowed` (`NeverWidened`), for any names, topics, ranges, tables and
  edits. The invariant says that a call works on a file that loads, whose tables
  are a sequence, and is given what that file grants; the rest is about the rules
  of `load`, and rests on `CoversIsSound`, which holds for filters and topics of
  any length, and on `RangeCoversIsSound`.
- `SessionManagerProofs`: `TypeCorrect`, `NoSessionLost` (`NothingLost`),
  `SoundRegistry` (`RegistrySound`), `OnlyClosePortRemoves` (`LiveStaysRegistered`). The invariant says that a
  session in a call's hands is on the port of the call, that the manager's lock
  is held exactly by a losing open, and that what an open found stale is dead.
- `BridgeProofs`, of `BridgeLoop`: `LoopTypeCorrect`, `ReadingsCounted`, `NoDuplicates`,
  `ReasonRecorded`, together `SoundReadings` (`ReadingsSound`), and `QuietOnceStopped`. The invariant separates the readings in
  the thread's hands (the pending one, the one being sent) from those published,
  and says of whoever is inside `stop` that a reason is named before the event is set,
  so that the end finds one, and one that was given (`ReasonGiven`). `ReadingsCounted`
  counts every reading until as many publishes failed as messages are kept, and never
  too many.
  Of `BridgeRegistry`: `TypeCorrect`, `SoundStarts` (`StartsSound`), `OnlyRacesShare`
  (`SharedByRaceOnly`). The invariant says at which stage the bridge in a
  thread's hands is, that every bridge which is neither running nor ended is in
  somebody's hands, and that a bridge which holds its port and was not
  overlooked is seen by the registry (`HoldingIsSeen`), so that a reservation of
  its port, or a serial call, is refused.
- `BoardProofs`, of `FlashBoard`: `TypeCorrect`, `OnlySignedIsFlashed` (`FlashedAsSigned`),
  `RefusalsReleaseOnlyToAsk` (`ReleasedOnlyToAsk`), `NoSessionUnknown`
  (`SessionsAreKnown`), `EveryWriteBacked` (`WritesAreBacked`),
  `EveryStartFinished` (`StartsAreFinished`), together `SoundWrites` (`WritesSound`), for
  finitely many threads. The
  invariant follows one call: past the check its copy is a signed build, before
  the budget accepts nothing is released unless the board sits behind a bridge,
  and the threads between charge, record and write are counted, so that a record
  serves one write and a charge one record.
  Of `BoardFiles`, for any threads, servers, firmwares, limits, faults and calls:
  `NoUpdateIsLost` (`NoUpdateLost`), `ElfsAreSpared` (`ElfsSpared`),
  `RestoresAreNamed` (`RestoredAsNamed`), `LastOnesAreKept` (`LastAreKept`).
  `JournalInv`: the lock of the entry lets one worker of all servers be between its
  read and its write, so what it holds is what the changes so far come to.
  `ElfInv`: while one server drops ELF files, one worker lists and drops, and what
  it listed has enough newer ones, as none but it removes any. `NamedInv`: without
  a shared temporary file, an image bears the name of what was read into it.
  `KeptInv`: while the clock goes forward, images are placed in the order of their
  ids, so that what a prune has chosen (`PrunesOld`) has `KEEP` backups made after it,
  and what has fewer keeps its image and its record (`ImagesStay`, `MetasStay`).
- `SerialSessionProofs`: `InputIsSound` (`InputSound`), `QueriesOwnTheirInput`
  (`QueryOwnsInput`), `SessionIsAStream` (`StreamSpec`, the refinement of
  `SerialStream`), and `ReadsAreInOrder`, which no run checks: no byte is handed out
  twice or after a younger one. Each step does one of four things to the bytes in
  flight (`Flow`): they rest, one more comes, the oldest are lost, or the oldest are
  handed to a call. The count and the refinement follow from that. For the query,
  the invariant adds that a call past the lock holds it (`Held`), that the bytes in
  flight are the newest in order without a gap (`InPlace`), and that from the
  acknowledged clear on they are younger than the clear and all that was handed
  out is older (`Owned`): nobody but the holder of the lock hands out, and nothing
  comes back from the chunk that the reader held.
- `ToolCallsProofs`: `CallsAreSound` (`CallsSound`), `EveryActIsBacked`
  (`ActsAreBacked`), `EveryTouchIsAllowed` (`TouchesAllowed`), `RejectionsCostNothing`
  (`RejectedCostNothing`), for any threads, calls and edits, and all tools at once.
  `EveryToolIsProper` is about the tools alone: in each of them a command comes after
  charge, record and the checks of its target, a record before an outcome, and the
  operation of two tools judges before its first command (`Ordered`, `Noted`,
  `Judging`). The invariant then follows a call: each stage left fits those
  that have passed (`AllOnCourse`), what it has done is backed, judged and told as it
  should be (`AllSound`), one that is rejected has only its failure left to record, and a record without an outcome belongs to a call that has
  still something to do (`AllNoted`, `OneEach`).
- `SlackBridgeProofs`: `TypeCorrect`, `ChargedAreServed` (`ServedInOrder`),
  `SoundService` (`ServedSound`), `NobodyAskedTwice` (`AskedOnce`), `RecordsAreTrue`
  (`RecordedIsReplied`). The
  invariant adds that a queue found not full stays so until the request is put
  (`Roomy`), and that a charge's mention sits in `seen` at the distance of its
  place from the last id (`Placed`), so that it leaves only when `SeenLimit`
  others have come.

Checked by TLC only: liveness (`CallsReturn` of `SerialSession` and of
`SessionManager`, `EndsAtLast`, `EndsAreAudited`, `ServedAtLast`), since the prover
has neither fairness nor `ENABLED`.
The invariants of the runs, the action properties and the refinements are all
theorems.

## 5. Where code and documentation differ

A run that TLC finds violated:

- `BoardCap` (`server.py:113`): restores are charged to the chip's MAC, uploads to
  the USB identity or, behind a UART bridge and when `esptool` answers, to the
  MAC; each key has the whole limit.

Met while modelling, described here and allowed by the models, without a run:

- A record written behind a fragment without a newline (`audit.py:124`) shares its
  line, and no reader gets it back, though the operation went ahead;
  `audit.py:133` has "Record, or refuse the operation outright". `verify` does
  report the damage (`DamageStays`).
- A newer reading is sent directly while an older one is pending, and the older
  one follows it (`bridge.py:148`); `bridge.py:11-12` has "the newest pending one
  is sent when the interval ends".
- "While a bridge runs it owns the session's input" (`bridge.py:19`), but the check
  for a bridge and the use of the session are two steps (`server.py:247`), and
  between `_started = True` and the start of its thread a bridge looks finished
  (`bridge.py:98`): a serial call, or a second bridge, is let through.
  `SharedByRaceOnly` says that nothing else is.
- Backup ids begin with the local time (`backup.py:129`) and are pruned in their
  order: when summer time ends, a new backup sorts before the last ones, and the
  one just made may be pruned at once; `server.py:530` has "Keeps the last 3
  backups per board". `LastAreKept` excludes a clock set back.
- The temporary image is `.reading-<pid>.bin` (`backup.py:122`): two backups in
  threads of one server write to the same file, and the `finally` of one removes
  the other's. `LastAreKept` and `RestoredAsNamed` exclude it.
- The oldest ELF files are listed and dropped under a lock of one process only
  (`journal.py:218-230`): two servers may drop a file that one has just kept, or
  fail on one that is gone. `ElfsSpared` excludes it.
- A server that dies, or a disk that fills, between the image and its record
  leaves an image that no list shows and no prune removes (`backup.py:131-139`).
- The failure of a restore is recorded as `firmware_restore_failed` also when its
  `started` record was never written (`server.py:580-582`).
- Control characters in MicroPython code, and text that a node's type does not
  take, are refused only after the charge and the record (`micropython.py:84`,
  `weintek_opcua.py:134`), where "a rejected call neither spends the budget nor leaves
  a record of a change that never happened" (`server.py:1240`, of `gpio_set_mode`).
  `RejectedCostNothing` names these two tools (`Judges`) and says that of no other
  tool a rejected call has cost anything, and that of none it has changed anything.
- A bridge charges through the limit it was started with, and puts it back after
  the user lowered it (`server.py:84-95`, `:1649`).
- A command whose call timed out may still take effect (`gpio_ssh.py:97`): its record
  says that it failed.

- The clock is read before the budget's lock is taken (`policy.py:443`), so
  charges can be admitted against the order of their timestamps, and a window
  then holds more than the limit. The Lean proof in `src/formal` assumes
  timestamps that never go back and says the monotonic clock guarantees them;
  `CapInOrder` keeps the condition.
- Not every Slack request is in the audit log, as `slack_bridge.py:27` has it: a
  "busy" refusal, a run that raises and a reply that Slack does not confirm
  leave no record (`:390-392`, `:422-438`).
- A post that fails although Slack took the message is followed by an apology
  (`slack_bridge.py:432-436`): the thread shows an answer and "Something went wrong".
- A Slack request that was acknowledged or queued is lost when the bridge dies:
  the acknowledgement comes first (`slack_bridge.py:353`) and the queue is in memory.
- Two first calls may each create a budget (`server.py:99`); what the overwritten
  one was charged is forgotten. `KeptWhenLimitChanges` allows just that.
- `open` overwrites a registered session that has failed (`serial_session.py:298`)
  and leaves its reader on the port, after a `clear` that timed out.
- Two opens of one port that overlap: the slower gets the other's session
  whatever its baud (`serial_session.py:295-297`).
- An upload that ends with an exception that is no `ToolError`, output that is
  not UTF-8 for instance, reopens the session and reports no id
  (`server.py:1131-1138`): `SessionsAreKnown` allows it, as `unnamed`.
- For an ESP32 behind a UART bridge the session is closed before the budget is
  asked, since the chip must be asked for its MAC first (`server.py:1106`), and
  `RATE_LIMITED` then has torn it down; the comment at `server.py:1087-1089` has "Close
  only after the budget accepts the write". The session is opened again and its new id
  returned. `ReleasedOnlyToAsk` says that no other refusal does this.
- An `upload_started` or `serial_bridge_started` whose `fsync` fails leaves its line in
  the log although the operation is refused, and no end follows it: `flash.py:500` has
  "Every upload_started gets its upload_finished", and `server.py:1663` "a refused start
  leaves no "started" record without a "stopped"". `StartsAreFinished` counts the first
  as `unclosed`; `BridgeRegistry` leaves the second out.
- A bridge keeps the messages of the last five failed publishes (`bridge.py:130`), and
  the record of its end has neither these nor their number (`server.py:1654`): from the
  sixth on, a reading that could not be published is in no count.
  `EveryReadingCounted` says how far the counts go.
- The reason of a bridge's end is looked at and then named (`bridge.py:102-103`): if a
  stop request meets the end of the duration or of the session, both may name one, and
  the audit record and the status asked for later need not agree.

## 6. Not modelled, and the plan

What is left, in the order it is worth doing:

1. A composition of `SessionManager` with the tools that own a port for a while:
   `fingerprint_board` checks that a port is free and then opens it
   (`server.py:486`), and may close a session that another call opened meanwhile.
2. `MqttClient` and `WsClient`: packet identifiers, acknowledgements, keep-alive,
   fragments.
3. `BoardArrivals`: `src/BoardsModel.js:158-232`: scans, absences and the grace
   window; boards with the same serial number.
4. What `upload_sketch` does with a port that comes back under another name, and
   with a UF2 volume.

Left out for good: static reference data (`boards.py`, `ids.py`, `parts.py` and
their kin), which has no state; the layout of the widget; the native and .NET
libraries, pure validators; the Lean files, which are not part of the program.

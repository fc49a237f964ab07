----------------------------- MODULE BoardProofs ----------------------------
(***************************************************************************)
(* Proofs about a board: FlashBoard, what is written to it, and            *)
(* BoardFiles, what the server keeps on disk of it.                        *)
(*                                                                         *)
(* Uploads and restores, for any number of threads, builds, calls and      *)
(* sessions and any limit: each property follows one call through its      *)
(* steps.  Past the check its private copy is a signed build, before the   *)
(* budget accepts it has closed the session only to ask the chip, and      *)
(* every thread between its record and its write has a charge and a record *)
(* of its own.  What opens a session again is about to name it.            *)
(*                                                                         *)
(* The files, for any threads, servers, firmwares, limits, faults and      *)
(* calls.  Of the entry: one worker at a time is between its read and its  *)
(* write.  Of the backups: what is placed is placed in the order of the    *)
(* ids, so that a pruned id has KEEP younger ones, which were made after   *)
(* it.                                                                     *)
(***************************************************************************)
EXTENDS FlashBoard, BoardFiles, SequenceTheorems, FiniteSetTheorems, TLAPS

-----------------------------------------------------------------------------
(* Uploads and restores *)

\* A build a call goes on with is one that was signed for; past the check it is
\* also what the call has copied.
BuildSigned ==
    /\ tokens \subseteq signed
    /\ flashed \subseteq signed
    /\ \A t \in Threads :
         /\ pc[t] \in {"copy", "check", "identify", "charge", "log", "write"} => digest[t] \in signed
         /\ pc[t] \in {"identify", "charge", "log", "write"} => snap[t] = digest[t]

\* Up to the write a call has no outcome, and until the budget accepts it has
\* closed nothing, but to ask the chip behind a bridge.
StillOpen ==
    \A t \in Threads :
      /\ pc[t] \in {"verify", "copy", "check", "identify", "charge", "log", "write"} => code[t] = "running"
      /\ pc[t] \in {"verify", "copy", "check", "identify"} => ~released[t]
      /\ pc[t] = "identify" \/ (pc[t] = "charge" /\ released[t]) => bridged

\* The threads that are at one of some places, under a given assignment.
At(f, P) == {t \in Threads : f[t] \in P}
Count(f, P) == Cardinality(At(f, P))

Charged == {"log", "record"}
Recorded == {"write", "restore"}
Unfinished == {"write", "note", "abort"}

\* A record is used by one write at most, a charge by one record.
Backed ==
    /\ writes + Count(pc, Recorded) <= started + recorded
    /\ started + recorded + Count(pc, Charged) <= spent["mac"] + spent["usb"]

CallInv == TypeOK /\ BuildSigned /\ StillOpen /\ SessionsAreKnown /\ ReleasedOnlyToAsk
CountInv == Backed /\ StartsAreFinished

-----------------------------------------------------------------------------
(* Types *)

LEMMA InitTypes == Init => TypeOK
<1> SUFFICES ASSUME Init PROVE TypeOK
  OBVIOUS
<1> USE DEF Init, None
<1>1. released \in [Threads -> BOOLEAN] /\ mac \in [Threads -> BOOLEAN]
  OBVIOUS
<1>2. pc \in [Threads -> Places] /\ code \in [Threads -> Codes]
  BY DEF Places, Codes
<1>3. spent \in [Keys -> 0..Limit]
  BY LimitAssumption
<1> QED
  BY <1>1, <1>2, <1>3 DEF TypeOK

\* What the surroundings of the calls do leaves the calls alone.
Surroundings ==
    \/ Compile \/ Sign \/ Rebuild \/ SerialOpen \/ SerialClose
    \/ \E d \in 1..MaxBuilds : Expire(d)

LEMMA SurroundingsFrame ==
    ASSUME Surroundings
    PROVE  UNCHANGED <<bridged, calls, spent, logVars, boardVars, pc, callVars>>
  BY DEF Surroundings, Compile, Sign, Rebuild, SerialOpen, SerialClose, Expire

LEMMA SurroundingsType ==
    ASSUME TypeOK, Surroundings
    PROVE  TypeOK'
<1>1. UNCHANGED <<bridged, calls, spent, logVars, boardVars, pc, callVars>>
  BY SurroundingsFrame
<1> USE DEF Compile, Sign, Rebuild, SerialOpen, SerialClose, Expire, None, buildVars, portVars
<1>2. built' \in Nat /\ cache' \in Nat
  BY DEF TypeOK, Surroundings
<1>3. compiling' \in BOOLEAN
  BY Zenon DEF TypeOK, Surroundings
<1>4. signed' \in SUBSET Nat /\ tokens' \in SUBSET Nat
  BY DEF TypeOK, Surroundings
<1>5. session' \in Nat /\ opened' \in Nat
  BY DEF TypeOK, Surroundings
<1>6. known' \in SUBSET Nat /\ unnamed' \in SUBSET Nat
  <2>1. known \cup {opened + 1} \in SUBSET Nat
    BY DEF TypeOK
  <2>2. known' \in {known, known \cup {opened + 1}} /\ unnamed' = unnamed
    BY DEF Surroundings
  <2> QED
    BY <2>1, <2>2 DEF TypeOK
<1> QED
  BY <1>1, <1>2, <1>3, <1>4, <1>5, <1>6 DEF TypeOK, logVars, boardVars, callVars

\* A function whose value at one thread changes keeps its type.
LEMMA Updated ==
    ASSUME NEW S, NEW f \in [Threads -> S], NEW t \in Threads, NEW v \in S
    PROVE  [f EXCEPT ![t] = v] \in [Threads -> S]
  OBVIOUS

\* Where a step sends its thread is a place.
LEMMA GotoType ==
    ASSUME TypeOK, NEW t \in Threads, NEW place \in Places, Goto(t, place)
    PROVE  pc' \in [Threads -> Places]
  BY DEF TypeOK, Goto

LEMMA UploadType ==
    ASSUME TypeOK, NEW t \in Threads, NEW d \in 1..MaxBuilds, Upload(t, d)
    PROVE  TypeOK'
<1> USE DEF Upload, TypeOK, None
<1>1. pc' \in [Threads -> Places]
  BY GotoType DEF Places
<1>2. released' \in [Threads -> BOOLEAN] /\ mac' \in [Threads -> BOOLEAN]
  BY Updated
<1>3. code' \in [Threads -> Codes]
  BY DEF Codes
<1>4. /\ digest' \in [Threads -> Nat] /\ snap' \in [Threads -> Nat]
      /\ previous' \in [Threads -> Nat] /\ calls' \in Nat
      /\ reopened' \in [Threads -> Nat]
  BY MaxBuildsAssumption
<1> QED
  BY <1>1, <1>2, <1>3, <1>4 DEF buildVars, portVars, logVars, boardVars

\* Steps that only look at something and go on or give up.
LEMMA CheckType ==
    ASSUME TypeOK, NEW t \in Threads, Verify(t) \/ Copy(t) \/ Check(t) \/ LogStarted(t) \/ LogFinished(t)
    PROVE  TypeOK'
<1> USE DEF Verify, Copy, Check, LogStarted, LogFinished, Refuse, TypeOK, None
<1>1. pc' \in [Threads -> Places]
  BY DEF Places, Goto
<1>2. code' \in [Threads -> Codes]
  BY DEF Codes
<1>3. snap' \in [Threads -> Nat]
  BY DEF callVars
<1>4. started' \in Nat /\ finished' \in Nat /\ unclosed' \in Nat
  BY DEF logVars
<1>5. UNCHANGED <<bridged, buildVars, portVars, calls, spent, recorded, boardVars, digest, previous,
                  released, mac, reopened>>
  BY DEF logVars
<1> QED
  BY <1>1, <1>2, <1>3, <1>4, <1>5 DEF buildVars, portVars, boardVars

LEMMA ReleaseType ==
    ASSUME TypeOK, NEW t \in Threads, Release(t)
    PROVE  /\ released' \in [Threads -> BOOLEAN]
           /\ session' \in Nat /\ opened' \in Nat /\ known' \in SUBSET Nat /\ unnamed' \in SUBSET Nat
<1>1. (released[t] \/ previous[t] # None) \in BOOLEAN
  OBVIOUS
<1>2. released' \in [Threads -> BOOLEAN]
  BY <1>1, Updated DEF TypeOK, Release
<1> QED
  BY <1>2 DEF TypeOK, Release, None

LEMMA IdentifyType ==
    ASSUME TypeOK, NEW t \in Threads, Identify(t)
    PROVE  TypeOK'
<1> USE DEF Identify, TypeOK
<1>1. pc' \in [Threads -> Places]
  BY DEF Places, Goto
<1>2. code' \in [Threads -> Codes]
  BY DEF Codes
<1>3. mac' \in [Threads -> BOOLEAN]
  BY Updated
<1>4. /\ released' \in [Threads -> BOOLEAN]
      /\ session' \in Nat /\ opened' \in Nat /\ known' \in SUBSET Nat /\ unnamed' \in SUBSET Nat
  BY ReleaseType
<1> QED
  BY <1>1, <1>2, <1>3, <1>4 DEF buildVars, logVars, boardVars

LEMMA ChargeType ==
    ASSUME TypeOK, NEW t \in Threads, ChargeBudget(t)
    PROVE  TypeOK'
<1> USE DEF ChargeBudget, TypeOK, Refuse
<1>1. pc' \in [Threads -> Places]
  BY DEF Places, Goto
<1>2. code' \in [Threads -> Codes]
  BY DEF Codes
<1>3. spent' \in [Keys -> 0..Limit]
  BY LimitAssumption DEF KeyOf, Keys
<1>4. /\ released' \in [Threads -> BOOLEAN]
      /\ session' \in Nat /\ opened' \in Nat /\ known' \in SUBSET Nat /\ unnamed' \in SUBSET Nat
  BY ReleaseType DEF portVars
<1> QED
  BY <1>1, <1>2, <1>3, <1>4 DEF buildVars, logVars, boardVars

LEMMA WriteType ==
    ASSUME TypeOK, NEW t \in Threads, Write(t)
    PROVE  TypeOK'
<1> USE DEF Write, TypeOK
<1>1. pc' \in [Threads -> Places]
  BY DEF Places, Goto
<1>2. code' \in [Threads -> Codes]
  BY DEF Codes
<1>3. writes' \in Nat
  OBVIOUS
<1>4. flashed' \in SUBSET Nat
  <2>1. flashed \cup {snap[t]} \in SUBSET Nat
    BY ONLY TypeOK, t \in Threads DEF TypeOK
  <2>2. flashed' = flashed \/ flashed' = flashed \cup {snap[t]}
    OBVIOUS
  <2> QED
    BY <2>1, <2>2
<1> QED
  BY <1>1, <1>2, <1>3, <1>4 DEF buildVars, portVars, logVars

LEMMA ReopenReplyType ==
    ASSUME TypeOK, NEW t \in Threads, Reopen(t) \/ Reply(t)
    PROVE  TypeOK'
<1> USE DEF Reopen, Reply, TypeOK, None
<1>1. pc' \in [Threads -> Places]
  BY DEF Places, Goto
<1>2. reopened' \in [Threads -> Nat]
  OBVIOUS
<1>3. session' \in Nat /\ opened' \in Nat
  BY DEF portVars
<1>4. known' \in SUBSET Nat /\ unnamed' \in SUBSET Nat
  <2>1. known \cup {reopened[t]} \in SUBSET Nat /\ unnamed \cup {reopened[t]} \in SUBSET Nat
    OBVIOUS
  <2>2. known' \in {known, known \cup {reopened[t]}} /\ unnamed' \in {unnamed, unnamed \cup {reopened[t]}}
    BY DEF portVars
  <2> QED
    BY <2>1, <2>2
<1> QED
  BY <1>1, <1>2, <1>3, <1>4 DEF buildVars, logVars, boardVars

LEMMA RestoreType ==
    ASSUME TypeOK, NEW t \in Threads,
           Restore(t) \/ CheckChip(t) \/ PayRestore(t) \/ LogRestore(t) \/ WriteFlash(t)
    PROVE  TypeOK'
<1> USE DEF Restore, CheckChip, PayRestore, LogRestore, WriteFlash, TypeOK
<1>1. pc' \in [Threads -> Places]
  BY DEF Places, Goto
<1>2. spent' \in [Keys -> 0..Limit]
  BY LimitAssumption DEF Keys
<1>3. calls' \in Nat /\ recorded' \in Nat /\ writes' \in Nat
  OBVIOUS
<1>4. UNCHANGED restoreVars
  OBVIOUS
<1> QED
  BY <1>1, <1>2, <1>3, <1>4 DEF restoreVars, buildVars, portVars, callVars

\* Every step keeps the types.
LEMMA NextTypes == TypeOK /\ [Next]_vars => TypeOK'
<1> SUFFICES ASSUME TypeOK, [Next]_vars PROVE TypeOK'
  OBVIOUS
<1>1. CASE Surroundings
  BY <1>1, SurroundingsType
<1>2. ASSUME NEW t \in Threads, NEW d \in 1..MaxBuilds, Upload(t, d)
      PROVE  TypeOK'
  BY <1>2, UploadType
<1>3. ASSUME NEW t \in Threads,
             \/ Verify(t) \/ Copy(t) \/ Check(t) \/ LogStarted(t) \/ LogFinished(t)
             \/ Identify(t) \/ ChargeBudget(t) \/ Write(t) \/ Reopen(t) \/ Reply(t)
             \/ Restore(t) \/ CheckChip(t) \/ PayRestore(t) \/ LogRestore(t) \/ WriteFlash(t)
      PROVE  TypeOK'
  BY <1>3, CheckType, IdentifyType, ChargeType, WriteType, ReopenReplyType, RestoreType
<1>4. CASE UNCHANGED vars
  BY <1>4 DEF TypeOK, vars
<1> QED
  BY <1>1, <1>2, <1>3, <1>4 DEF Next, Surroundings

-----------------------------------------------------------------------------
(* One call, step by step *)

LEMMA InitCall == Init => BuildSigned /\ StillOpen /\ SessionsAreKnown /\ ReleasedOnlyToAsk
  BY DEF Init, BuildSigned, StillOpen, SessionsAreKnown, ReleasedOnlyToAsk, None

LEMMA SurroundingsCall ==
    ASSUME CallInv, Surroundings
    PROVE  BuildSigned' /\ StillOpen' /\ SessionsAreKnown' /\ ReleasedOnlyToAsk'
<1>1. UNCHANGED <<bridged, calls, spent, logVars, boardVars, pc, callVars>>
  BY SurroundingsFrame
<1>2. signed \subseteq signed' /\ tokens' \subseteq signed'
  BY DEF CallInv, BuildSigned, Surroundings, Compile, Sign, Rebuild, SerialOpen, SerialClose,
         Expire, buildVars
<1>3. SessionsAreKnown'
  BY <1>1 DEF CallInv, SessionsAreKnown, Surroundings, Compile, Sign, Rebuild, SerialOpen, SerialClose,
              Expire, portVars, callVars
<1> QED
  BY <1>1, <1>2, <1>3 DEF CallInv, BuildSigned, StillOpen, ReleasedOnlyToAsk, KeyOf, callVars, boardVars

LEMMA UploadCall ==
    ASSUME CallInv, NEW t \in Threads, NEW d \in 1..MaxBuilds, Upload(t, d)
    PROVE  BuildSigned' /\ StillOpen' /\ SessionsAreKnown' /\ ReleasedOnlyToAsk'
<1> USE DEF Upload, CallInv, TypeOK, Goto, None
<1>1. BuildSigned'
  BY DEF BuildSigned, buildVars, boardVars
<1>2. StillOpen'
  BY DEF StillOpen
<1>3. SessionsAreKnown'
  BY DEF SessionsAreKnown, portVars
<1>4. ReleasedOnlyToAsk'
  BY DEF ReleasedOnlyToAsk, KeyOf
<1> QED
  BY <1>1, <1>2, <1>3, <1>4

LEMMA CheckCall ==
    ASSUME CallInv, NEW t \in Threads, Verify(t) \/ Copy(t) \/ Check(t) \/ LogStarted(t) \/ LogFinished(t)
    PROVE  BuildSigned' /\ StillOpen' /\ SessionsAreKnown' /\ ReleasedOnlyToAsk'
<1> USE DEF Verify, Copy, Check, LogStarted, LogFinished, Refuse, CallInv, TypeOK, Goto, None
<1>1. BuildSigned'
  BY DEF BuildSigned, buildVars, boardVars
<1>2. StillOpen'
  BY DEF StillOpen
<1>3. SessionsAreKnown'
  BY DEF SessionsAreKnown, portVars
<1>4. ReleasedOnlyToAsk'
  BY DEF ReleasedOnlyToAsk, KeyOf, StillOpen
<1> QED
  BY <1>1, <1>2, <1>3, <1>4

LEMMA ReleasingCall ==
    ASSUME CallInv, NEW t \in Threads, Identify(t) \/ ChargeBudget(t)
    PROVE  BuildSigned' /\ StillOpen' /\ SessionsAreKnown' /\ ReleasedOnlyToAsk'
<1> USE DEF Identify, ChargeBudget, Release, Refuse, CallInv, TypeOK, Goto
<1>1. BuildSigned'
  BY DEF BuildSigned, buildVars, boardVars
<1>2. StillOpen'
  BY DEF StillOpen
<1>3. SessionsAreKnown'
  BY DEF SessionsAreKnown, portVars
<1>4. ReleasedOnlyToAsk'
  <2>1. CASE Identify(t)
    BY <2>1 DEF ReleasedOnlyToAsk, KeyOf, StillOpen
  <2>2. CASE ChargeBudget(t)
    <3>1. code'[t] = "refused" /\ released'[t] => bridged /\ snap[t] = digest[t] /\ spent[KeyOf(t)] = Limit
      BY <2>2, LimitAssumption DEF StillOpen, BuildSigned, KeyOf, Keys
    <3>2. \A u \in Threads \ {t} : code'[u] = code[u] /\ released'[u] = released[u]
      BY <2>2 DEF portVars
    <3>3. UNCHANGED <<bridged, snap, digest, mac>>
      BY <2>2
    <3>4. \A u \in Threads : spent[KeyOf(u)] = Limit => spent'[KeyOf(u)] = Limit
      BY <2>2, LimitAssumption DEF KeyOf, Keys
    <3>5. \A u \in Threads : KeyOf(u)' = KeyOf(u)
      BY <3>3 DEF KeyOf
    <3> QED
      BY ONLY ReleasedOnlyToAsk, <3>1, <3>2, <3>3, <3>4, <3>5 DEF ReleasedOnlyToAsk
  <2> QED
    BY <2>1, <2>2
<1> QED
  BY <1>1, <1>2, <1>3, <1>4

LEMMA WriteCall ==
    ASSUME CallInv, NEW t \in Threads, Write(t) \/ Reopen(t) \/ Reply(t)
    PROVE  BuildSigned' /\ StillOpen' /\ SessionsAreKnown' /\ ReleasedOnlyToAsk'
<1> USE DEF Write, Reopen, Reply, CallInv, TypeOK, Goto, None
<1>1. BuildSigned'
  <2>1. UNCHANGED <<tokens, signed, digest, snap>>
    BY DEF buildVars
  <2>2. pc[t] = "write" => snap[t] \in signed
    BY DEF BuildSigned
  <2>3. flashed' \subseteq signed
    BY <2>2 DEF BuildSigned, boardVars
  <2>4. \E place \in {"note", "abort", "reply", "idle"} : pc' = [pc EXCEPT ![t] = place]
    OBVIOUS
  <2> QED
    BY <2>1, <2>3, <2>4 DEF BuildSigned
<1>2. StillOpen'
  BY DEF StillOpen
<1>3. SessionsAreKnown'
  BY DEF SessionsAreKnown, portVars
<1>4. ReleasedOnlyToAsk'
  BY DEF ReleasedOnlyToAsk, KeyOf
<1> QED
  BY <1>1, <1>2, <1>3, <1>4

LEMMA RestoreCall ==
    ASSUME CallInv, NEW t \in Threads,
           Restore(t) \/ CheckChip(t) \/ PayRestore(t) \/ LogRestore(t) \/ WriteFlash(t)
    PROVE  BuildSigned' /\ StillOpen' /\ SessionsAreKnown' /\ ReleasedOnlyToAsk'
<1> USE DEF Restore, CheckChip, PayRestore, LogRestore, WriteFlash, CallInv, TypeOK, Goto
<1>1. BuildSigned'
  <2>1. UNCHANGED <<tokens, signed, flashed, digest, snap>>
    BY DEF restoreVars, buildVars, callVars
  <2>2. \E place \in {"idle", "chip", "pay", "record", "restore"} : pc' = [pc EXCEPT ![t] = place]
    OBVIOUS
  <2> QED
    BY <2>1, <2>2 DEF BuildSigned
<1>2. StillOpen'
  BY DEF StillOpen, restoreVars, callVars
<1>3. SessionsAreKnown'
  BY DEF SessionsAreKnown, portVars, restoreVars, callVars
<1>4. ReleasedOnlyToAsk'
  <2>1. UNCHANGED <<bridged, code, released, snap, digest, mac>>
    BY DEF restoreVars, callVars
  <2>2. \A k \in Keys : spent[k] = Limit => spent'[k] = Limit
    BY LimitAssumption DEF Keys
  <2>3. \A u \in Threads : KeyOf(u) \in Keys /\ KeyOf(u)' = KeyOf(u)
    BY <2>1 DEF KeyOf, Keys
  <2> QED
    BY ONLY ReleasedOnlyToAsk, <2>1, <2>2, <2>3 DEF ReleasedOnlyToAsk
<1> QED
  BY <1>1, <1>2, <1>3, <1>4

-----------------------------------------------------------------------------
(* Charges, records and writes *)

\* How many threads are at some places is a number.
LEMMA CountType ==
    ASSUME NEW f, NEW P
    PROVE  IsFiniteSet(At(f, P)) /\ Count(f, P) \in Nat
<1>1. At(f, P) \subseteq Threads
  BY DEF At
<1>2. IsFiniteSet(At(f, P))
  BY <1>1, ThreadsAssumption, FS_Subset
<1> QED
  BY <1>2, FS_CardinalityType DEF Count

\* When one thread moves, the count of the threads at some places changes by
\* whether it has entered or left them.
LEMMA Moved ==
    ASSUME NEW f \in [Threads -> Places], NEW t \in Threads, NEW place \in Places, NEW P
    PROVE  LET g == [f EXCEPT ![t] = place]
           IN  /\ f[t] \in P /\ place \notin P => Count(g, P) = Count(f, P) - 1
               /\ f[t] \notin P /\ place \in P => Count(g, P) = Count(f, P) + 1
               /\ (f[t] \in P <=> place \in P) => Count(g, P) = Count(f, P)
<1> DEFINE g == [f EXCEPT ![t] = place]
<1>1. IsFiniteSet(At(f, P)) /\ IsFiniteSet(At(g, P))
  BY CountType
<1>2. ASSUME f[t] \in P, place \notin P
      PROVE  Count(g, P) = Count(f, P) - 1
  <2>1. At(g, P) = At(f, P) \ {t} /\ t \in At(f, P)
    BY <1>2 DEF At
  <2> HIDE DEF g
  <2> QED
    BY <1>1, <2>1, FS_RemoveElement DEF Count
<1>3. ASSUME f[t] \notin P, place \in P
      PROVE  Count(g, P) = Count(f, P) + 1
  <2>1. At(g, P) = At(f, P) \cup {t} /\ t \notin At(f, P)
    BY <1>3 DEF At
  <2> HIDE DEF g
  <2> QED
    BY <1>1, <2>1, FS_AddElement DEF Count
<1>4. ASSUME f[t] \in P <=> place \in P
      PROVE  Count(g, P) = Count(f, P)
  <2>1. At(g, P) = At(f, P)
    BY <1>4 DEF At
  <2> QED
    BY <2>1 DEF Count
<1> QED
  BY <1>2, <1>3, <1>4

\* The same of a step of thread t, with the three counts the invariant uses.
LEMMA Counts ==
    ASSUME TypeOK, NEW t \in Threads, NEW place \in Places, Goto(t, place), NEW P
    PROVE  /\ Count(pc, P) \in Nat
           /\ Count(pc', P) \in Nat
           /\ pc[t] \in P /\ place \notin P => Count(pc', P) = Count(pc, P) - 1
           /\ pc[t] \notin P /\ place \in P => Count(pc', P) = Count(pc, P) + 1
           /\ (pc[t] \in P <=> place \in P) => Count(pc', P) = Count(pc, P)
<1>1. pc \in [Threads -> Places] /\ pc' = [pc EXCEPT ![t] = place]
  BY DEF TypeOK, Goto
<1> QED
  BY <1>1, CountType, Moved

\* A step outside the charge, the record and the write counts for nothing.
LEMMA IdleStep ==
    ASSUME TypeOK, CountInv, NEW t \in Threads, NEW place \in Places, Goto(t, place),
           pc[t] \notin Charged \cup Recorded \cup Unfinished,
           place \notin Charged \cup Recorded \cup Unfinished,
           UNCHANGED <<spent, logVars, writes>>
    PROVE  CountInv'
<1>1. /\ Count(pc', Charged) = Count(pc, Charged)
      /\ Count(pc', Recorded) = Count(pc, Recorded)
      /\ Count(pc', Unfinished) = Count(pc, Unfinished)
  BY Counts
<1> QED
  BY <1>1 DEF CountInv, Backed, StartsAreFinished, Count, At, Unfinished, logVars

LEMMA QuietCount ==
    ASSUME TypeOK, CountInv, NEW t \in Threads,
           \/ Verify(t) \/ Copy(t) \/ Check(t) \/ Identify(t) \/ Reopen(t) \/ Reply(t)
           \/ Restore(t) \/ CheckChip(t)
           \/ \E d \in 1..MaxBuilds : Upload(t, d)
    PROVE  CountInv'
<1>1. \E place \in {"verify", "copy", "check", "identify", "charge", "reopen", "reply", "idle", "chip", "pay"} :
         Goto(t, place)
  BY DEF Verify, Copy, Check, Identify, Reopen, Reply, Restore, CheckChip, Upload, Refuse
<1>2. pc[t] \in {"verify", "copy", "check", "identify", "reopen", "reply", "idle", "chip"}
  BY DEF Verify, Copy, Check, Identify, Reopen, Reply, Restore, CheckChip, Upload
<1>3. UNCHANGED <<spent, logVars, writes>>
  BY DEF Verify, Copy, Check, Identify, Reopen, Reply, Restore, CheckChip, Upload, boardVars,
         restoreVars, logVars
<1> QED
  BY <1>1, <1>2, <1>3, IdleStep DEF Charged, Recorded, Unfinished, Places

\* ChargeBudget and PayRestore: a charge, and a thread that has it.
LEMMA ChargeCount ==
    ASSUME TypeOK, CountInv, NEW t \in Threads, ChargeBudget(t) \/ PayRestore(t)
    PROVE  CountInv'
<1>1. UNCHANGED <<logVars, writes>> /\ pc[t] \in {"charge", "pay"}
  BY DEF ChargeBudget, PayRestore, boardVars, restoreVars, logVars
<1>2. CASE UNCHANGED spent /\ \E place \in {"reopen", "idle"} : Goto(t, place)
  BY <1>1, <1>2, IdleStep DEF Charged, Recorded, Unfinished, Places
<1>3. CASE /\ \E k \in Keys : spent' = [spent EXCEPT ![k] = @ + 1]
           /\ \E place \in Charged : Goto(t, place)
  <2>1. PICK place \in Charged : Goto(t, place)
    BY <1>3
  <2>2. place \in Places /\ place \notin Recorded \cup Unfinished
    BY DEF Charged, Recorded, Unfinished, Places
  <2>3. pc[t] \notin Charged \cup Recorded \cup Unfinished
    BY <1>1 DEF Charged, Recorded, Unfinished
  <2>4. /\ Count(pc, Charged) \in Nat
        /\ Count(pc', Charged) = Count(pc, Charged) + 1
        /\ Count(pc', Recorded) = Count(pc, Recorded)
        /\ Count(pc', Unfinished) = Count(pc, Unfinished)
    BY <2>1, <2>2, <2>3, Counts
  <2>5. spent'["mac"] + spent'["usb"] = spent["mac"] + spent["usb"] + 1
    BY <1>3 DEF TypeOK, Keys
  <2>6. spent["mac"] \in Nat /\ spent["usb"] \in Nat /\ started \in Nat /\ recorded \in Nat
    BY LimitAssumption DEF TypeOK, Keys
  <2> QED
    BY <1>1, <2>4, <2>5, <2>6
    DEF CountInv, Backed, StartsAreFinished, Count, At, Unfinished, logVars
<1> QED
  BY <1>2, <1>3 DEF ChargeBudget, PayRestore, Refuse, KeyOf, Keys, Charged

\* LogStarted and LogRestore: a record, and a thread that is about to write, or
\* a refusal, with a record that stays without a write or with none.
LEMMA RecordCount ==
    ASSUME TypeOK, CountInv, NEW t \in Threads, LogStarted(t) \/ LogRestore(t)
    PROVE  CountInv'
<1>1. UNCHANGED <<spent, finished, writes>> /\ pc[t] \in Charged
  BY DEF LogStarted, LogRestore, boardVars, restoreVars, Charged
<1>2. pc[t] \notin Recorded \cup Unfinished
  BY <1>1 DEF Charged, Recorded, Unfinished
<1>3. /\ spent["mac"] \in Nat /\ spent["usb"] \in Nat
      /\ started \in Nat /\ recorded \in Nat /\ finished \in Nat /\ unclosed \in Nat /\ writes \in Nat
      /\ Count(pc, Charged) \in Nat /\ Count(pc, Recorded) \in Nat /\ Count(pc, Unfinished) \in Nat
  BY LimitAssumption, CountType DEF TypeOK, Keys
<1>4. CASE /\ \E place \in {"reopen", "idle"} : Goto(t, place)
           /\ \/ started' + recorded' = started + recorded
              \/ started' + recorded' = started + recorded + 1
           /\ started' + unclosed = started + unclosed'
           /\ started' \in Nat /\ recorded' \in Nat /\ unclosed' \in Nat
  <2>1. PICK place \in {"reopen", "idle"} : Goto(t, place)
    BY <1>4
  <2>2. place \in Places /\ place \notin Charged \cup Recorded \cup Unfinished
    BY DEF Charged, Recorded, Unfinished, Places
  <2>3. /\ Count(pc', Charged) = Count(pc, Charged) - 1
        /\ Count(pc', Recorded) = Count(pc, Recorded)
        /\ Count(pc', Unfinished) = Count(pc, Unfinished)
    BY <1>1, <1>2, <2>1, <2>2, Counts
  <2>4. Backed'
    <3>1. writes' = writes /\ spent' = spent
      BY <1>1
    <3>2. /\ writes + Count(pc, Recorded) <= started + recorded
          /\ started + recorded + Count(pc, Charged) <= spent["mac"] + spent["usb"]
      BY DEF CountInv, Backed
    <3>3. /\ writes + Count(pc, Recorded) <= started' + recorded'
          /\ started' + recorded' + (Count(pc, Charged) - 1) <= spent["mac"] + spent["usb"]
      <4>1. CASE started' + recorded' = started + recorded
        BY ONLY <1>3, <3>2, <4>1
      <4>2. CASE started' + recorded' = started + recorded + 1
        BY ONLY <1>3, <3>2, <4>2
      <4> QED
        BY <1>4, <4>1, <4>2
    <3> QED
      BY <2>3, <3>1, <3>3 DEF Backed
  <2>5. StartsAreFinished'
    BY <1>1, <1>3, <1>4, <2>3 DEF CountInv, StartsAreFinished, Count, At, Unfinished
  <2> QED
    BY <2>4, <2>5 DEF CountInv
<1>5. CASE LogStarted(t) /\ started' = started + 1 /\ UNCHANGED unclosed /\ Goto(t, "write")
  <2>1. UNCHANGED recorded
    BY <1>5 DEF LogStarted
  <2>2. /\ Count(pc', Charged) = Count(pc, Charged) - 1
        /\ Count(pc', Recorded) = Count(pc, Recorded) + 1
        /\ Count(pc', Unfinished) = Count(pc, Unfinished) + 1
    <3>1. "write" \in Places /\ "write" \notin Charged /\ "write" \in Recorded /\ "write" \in Unfinished
      BY DEF Charged, Recorded, Unfinished, Places
    <3> QED
      BY <1>1, <1>2, <1>5, <3>1, Counts
  <2> QED
    BY <1>1, <1>3, <1>5, <2>1, <2>2 DEF CountInv, Backed, StartsAreFinished, Count, At, Unfinished
<1>6. CASE LogRestore(t) /\ recorded' = recorded + 1 /\ Goto(t, "restore")
  <2>1. UNCHANGED <<started, unclosed>>
    BY <1>6 DEF LogRestore, restoreVars
  <2>2. /\ Count(pc', Charged) = Count(pc, Charged) - 1
        /\ Count(pc', Recorded) = Count(pc, Recorded) + 1
        /\ Count(pc', Unfinished) = Count(pc, Unfinished)
    <3>1. "restore" \in Places /\ "restore" \notin Charged /\ "restore" \in Recorded /\ "restore" \notin Unfinished
      BY DEF Charged, Recorded, Unfinished, Places
    <3> QED
      BY <1>1, <1>2, <1>6, <3>1, Counts
  <2> QED
    BY <1>1, <1>3, <1>6, <2>1, <2>2 DEF CountInv, Backed, StartsAreFinished, Count, At, Unfinished
<1>7. CASE LogStarted(t)
  BY <1>3, <1>4, <1>5, <1>7 DEF LogStarted
<1>8. CASE LogRestore(t)
  BY <1>3, <1>4, <1>6, <1>8 DEF LogRestore, restoreVars
<1> QED
  BY <1>7, <1>8

\* Write and WriteFlash: the record is used.
LEMMA WriteCount ==
    ASSUME TypeOK, CountInv, NEW t \in Threads, Write(t) \/ WriteFlash(t)
    PROVE  CountInv'
<1>1. UNCHANGED <<spent, logVars>> /\ pc[t] \in Recorded /\ writes' = writes + 1
  BY DEF Write, WriteFlash, restoreVars, logVars, Recorded
<1>2. PICK place \in {"note", "abort", "idle"} :
        Goto(t, place) /\ (place \in Unfinished <=> pc[t] \in Unfinished)
  BY DEF Write, WriteFlash, Unfinished
<1>3. place \in Places /\ place \notin Charged \cup Recorded /\ pc[t] \notin Charged
  BY <1>1 DEF Charged, Recorded, Places
<1>4. /\ Count(pc, Recorded) \in Nat
      /\ Count(pc', Charged) = Count(pc, Charged)
      /\ Count(pc', Recorded) = Count(pc, Recorded) - 1
      /\ Count(pc', Unfinished) = Count(pc, Unfinished)
  BY <1>1, <1>2, <1>3, Counts
<1>5. writes \in Nat
  BY DEF TypeOK
<1> QED
  BY <1>1, <1>4, <1>5 DEF CountInv, Backed, StartsAreFinished, Count, At, Unfinished, logVars

\* LogFinished: the record has its end, or its loss is reported.
LEMMA FinishCount ==
    ASSUME TypeOK, CountInv, NEW t \in Threads, LogFinished(t)
    PROVE  CountInv'
<1>1. /\ UNCHANGED <<spent, started, recorded, writes>> /\ Goto(t, "reopen")
      /\ pc[t] \in Unfinished /\ pc[t] \notin Charged \cup Recorded
  BY DEF LogFinished, boardVars, Charged, Recorded, Unfinished
<1>2. "reopen" \in Places /\ "reopen" \notin Charged \cup Recorded \cup Unfinished
  BY DEF Charged, Recorded, Unfinished, Places
<1>3. /\ Count(pc, Unfinished) \in Nat
      /\ Count(pc', Charged) = Count(pc, Charged)
      /\ Count(pc', Recorded) = Count(pc, Recorded)
      /\ Count(pc', Unfinished) = Count(pc, Unfinished) - 1
  BY <1>1, <1>2, Counts
<1>4. finished \in Nat /\ unclosed \in Nat /\ finished' + unclosed' = finished + unclosed + 1
  BY DEF LogFinished, TypeOK
<1>5. Backed'
  BY <1>1, <1>3 DEF CountInv, Backed
<1>6. StartsAreFinished'
  <2>1. started = finished + unclosed + Count(pc, Unfinished)
    BY DEF CountInv, StartsAreFinished, Count, At, Unfinished
  <2>2. started' = finished' + unclosed' + Count(pc', Unfinished)
    BY <1>1, <1>3, <1>4, <2>1
  <2> QED
    BY <2>2 DEF StartsAreFinished, Count, At, Unfinished
<1> QED
  BY <1>5, <1>6 DEF CountInv

-----------------------------------------------------------------------------
(* The inductive invariant *)

IInv == CallInv /\ CountInv

LEMMA InitIInv == Init => IInv
<1> SUFFICES ASSUME Init PROVE IInv
  OBVIOUS
<1>1. CallInv
  BY InitTypes, InitCall DEF CallInv
<1>2. \A P : "idle" \notin P => Count(pc, P) = 0
  <2>1. \A P : "idle" \notin P => At(pc, P) = {}
    BY DEF Init, At
  <2> QED
    BY <2>1, FS_EmptySet DEF Count
<1>3. Count(pc, Charged) = 0 /\ Count(pc, Recorded) = 0 /\ Count(pc, Unfinished) = 0
  BY <1>2 DEF Charged, Recorded, Unfinished
<1>4. Backed
  BY <1>3 DEF Backed, Init, Keys
<1>5. StartsAreFinished
  BY <1>3 DEF StartsAreFinished, Init, Count, At, Unfinished
<1> QED
  BY <1>1, <1>4, <1>5 DEF IInv, CountInv

\* Every step of the calls and of their surroundings keeps the invariant.
LEMMA NextKeeps == IInv /\ [Next]_vars => IInv'
<1> SUFFICES ASSUME IInv, [Next]_vars PROVE IInv'
  OBVIOUS
<1>0. TypeOK /\ CallInv /\ CountInv
  BY DEF IInv, CallInv
<1>1. TypeOK'
  BY <1>0, NextTypes
<1>2. CASE Surroundings
  <2>1. CountInv'
    <3>1. UNCHANGED <<spent, logVars, boardVars, pc>>
      BY <1>2, SurroundingsFrame
    <3> QED
      BY <1>0, <3>1 DEF CountInv, Backed, StartsAreFinished, Count, At, logVars, boardVars
  <2> QED
    BY <1>0, <1>1, <1>2, <2>1, SurroundingsCall DEF IInv, CallInv
<1>3. ASSUME NEW t \in Threads, NEW d \in 1..MaxBuilds, Upload(t, d)
      PROVE  IInv'
  BY <1>0, <1>1, <1>3, UploadCall, QuietCount DEF IInv, CallInv
<1>4. ASSUME NEW t \in Threads, Verify(t) \/ Copy(t) \/ Check(t)
      PROVE  IInv'
  BY <1>0, <1>1, <1>4, CheckCall, QuietCount DEF IInv, CallInv
<1>5. ASSUME NEW t \in Threads, LogStarted(t) \/ LogFinished(t)
      PROVE  IInv'
  BY <1>0, <1>1, <1>5, CheckCall, RecordCount, FinishCount DEF IInv, CallInv
<1>6. ASSUME NEW t \in Threads, Identify(t) \/ ChargeBudget(t)
      PROVE  IInv'
  BY <1>0, <1>1, <1>6, ReleasingCall, QuietCount, ChargeCount DEF IInv, CallInv
<1>7. ASSUME NEW t \in Threads, Write(t) \/ Reopen(t) \/ Reply(t)
      PROVE  IInv'
  BY <1>0, <1>1, <1>7, WriteCall, QuietCount, WriteCount DEF IInv, CallInv
<1>8. ASSUME NEW t \in Threads,
             Restore(t) \/ CheckChip(t) \/ PayRestore(t) \/ LogRestore(t) \/ WriteFlash(t)
      PROVE  IInv'
  BY <1>0, <1>1, <1>8, RestoreCall, QuietCount, ChargeCount, RecordCount, WriteCount DEF IInv, CallInv
<1>9. CASE UNCHANGED vars
  BY <1>9 DEF IInv, CallInv, CountInv, TypeOK, BuildSigned, StillOpen, SessionsAreKnown, ReleasedOnlyToAsk, KeyOf,
              Backed, StartsAreFinished, Count, At, vars
<1> QED
  BY <1>2, <1>3, <1>4, <1>5, <1>6, <1>7, <1>8, <1>9 DEF Next, Surroundings

LEMMA Invariance == Spec => []IInv
  BY InitIInv, NextKeeps, PTL DEF Spec

-----------------------------------------------------------------------------
(* Theorems *)

\* The state of the uploads, the restores and what they share stays within its types.
THEOREM TypeCorrect == Spec => []TypeOK
<1>1. IInv => TypeOK
  BY DEF IInv, CallInv
<1> QED
  BY <1>1, Invariance, PTL

\* However builds, compiles and uploads interleave, an upload writes only a
\* build the server hashed and signed a token for.
THEOREM OnlySignedIsFlashed == Spec => []FlashedAsSigned
<1>1. IInv => FlashedAsSigned
  BY DEF IInv, CallInv, BuildSigned, FlashedAsSigned
<1> QED
  BY <1>1, Invariance, PTL

\* Every write of upload_sketch and firmware_restore has a record, and every
\* record a charge, none of them used twice.
THEOREM EveryWriteBacked == Spec => []WritesAreBacked
<1>1. ASSUME IInv
      PROVE  WritesAreBacked
  <2>1. /\ writes \in Nat /\ started \in Nat /\ recorded \in Nat
        /\ Count(pc, Recorded) \in Nat /\ Count(pc, Charged) \in Nat
        /\ spent["mac"] \in Nat /\ spent["usb"] \in Nat
    BY <1>1, LimitAssumption, CountType DEF IInv, CallInv, TypeOK, Keys
  <2>2. Backed
    BY <1>1 DEF IInv, CountInv
  <2> QED
    BY <2>1, <2>2 DEF Backed, WritesAreBacked
<1> QED
  BY <1>1, Invariance, PTL

\* Every upload_started record is followed by its upload_finished, whatever the
\* write raised, or by the report that one of the two could not be written.
THEOREM EveryStartFinished == Spec => []StartsAreFinished
<1>1. IInv => StartsAreFinished
  BY DEF IInv, CountInv
<1> QED
  BY <1>1, Invariance, PTL

\* A refused upload has closed the port's session only where the budget refused
\* a board behind a UART bridge, whose chip had to be asked for the key.
THEOREM RefusalsReleaseOnlyToAsk == Spec => []ReleasedOnlyToAsk
<1>1. IInv => ReleasedOnlyToAsk
  BY DEF IInv, CallInv
<1> QED
  BY <1>1, Invariance, PTL

\* However uploads and serial calls on a port interleave, the session that is
\* open is one some caller knows or is about to be told of, unless an exception
\* that is no ToolError has ended the upload that opened it.
THEOREM NoSessionUnknown == Spec => []SessionsAreKnown
<1>1. IInv => SessionsAreKnown
  BY DEF IInv, CallInv
<1> QED
  BY <1>1, Invariance, PTL

\* The charges, the records and the writes of a board belong together.
THEOREM SoundWrites == Spec => []WritesSound
BY TypeCorrect, EveryWriteBacked, EveryStartFinished, PTL DEF WritesSound

-----------------------------------------------------------------------------
(* The files *)

\* What a chip, an image or a digest may be.
Content == Firmwares \cup {Garbage}
Ids == Nat \X Content
Placed == {placed[k] : k \in DOMAIN placed}

Shapes ==
    /\ process \in [Workers -> Processes] /\ DOMAIN at = Workers
    /\ DOMAIN arg = Workers /\ DOMAIN held = Workers /\ DOMAIN temp = Processes
Contents ==
    /\ chip \in Content /\ now \in Nat /\ placed \in Seq(Ids)
    /\ \A p \in Processes : temp[p] # << >> => temp[p][1] \in Content
    /\ \A w \in Workers : at[w] \in {"digested", "writing"} => held[w] \in Content
    /\ \A id \in DOMAIN images : images[id] \in Content

JournalPlaces == {"idle", "uploaded", "listing", "dropping", "changing", "updating", "storing"}
BackupPlaces ==
    {"idle", "identified", "reading", "read", "digested", "placed", "recorded", "pruning",
     "loaded", "writing"}

\* A step of worker w leaves the others alone.
Alone(w) ==
    /\ process' = process
    /\ \A v \in Workers \ {w} : at'[v] = at[v] /\ held'[v] = held[v] /\ arg'[v] = arg[v]

LEMMA JournalFrame ==
    ASSUME Shapes, Contents, NEW w \in Workers, JournalStep(w)
    PROVE  /\ Shapes' /\ Contents' /\ Alone(w) /\ odd \subseteq odd' /\ UNCHANGED backups
           /\ odd' \subseteq odd \cup {"elfs"}
           /\ at[w] \in JournalPlaces /\ at'[w] \in JournalPlaces
  <1> USE DEF Shapes, Alone, JournalPlaces, Goes, Holds, Begins, Same, journal
  <1>1. UNCHANGED backups
    BY DEF JournalStep, Flashed, SetLabel, StoreElf, NoElf, ListElfs, ListFails, DropElfs,
           Enter, ReadEntry, WriteEntry, WriteFails
  <1>2. /\ Shapes' /\ Alone(w) /\ odd \subseteq odd' /\ odd' \subseteq odd \cup {"elfs"}
        /\ at[w] \in JournalPlaces /\ at'[w] \in JournalPlaces
        /\ chip' = chip \/ chip' \in Firmwares
    <2>1. CASE \E f \in Firmwares : Flashed(w, f)
      BY <1>1, <2>1 DEF Flashed, backups
    <2>2. CASE SetLabel(w, "bench")
      BY <1>1, <2>2 DEF SetLabel, backups
    <2>3. CASE StoreElf(w)
      BY <1>1, <2>3 DEF StoreElf, backups
    <2>4. CASE NoElf(w)
      BY <1>1, <2>4 DEF NoElf, backups
    <2>5. CASE ListElfs(w)
      BY <1>1, <2>5 DEF ListElfs, backups
    <2>6. CASE ListFails(w)
      BY <1>1, <2>6 DEF ListFails, backups
    <2>7. CASE DropElfs(w)
      BY <1>1, <2>7 DEF DropElfs, backups
    <2>8. CASE Enter(w)
      BY <1>1, <2>8 DEF Enter, backups
    <2>9. CASE ReadEntry(w)
      BY <1>1, <2>9 DEF ReadEntry, backups
    <2>10. CASE WriteEntry(w)
      BY <1>1, <2>10 DEF WriteEntry, backups
    <2>11. CASE WriteFails(w)
      BY <1>1, <2>11 DEF WriteFails, backups
    <2> QED BY <2>1, <2>2, <2>3, <2>4, <2>5, <2>6, <2>7, <2>8, <2>9, <2>10, <2>11 DEF JournalStep
  <1>3. Contents'
    <2>1. chip' \in Content /\ now' \in Nat /\ placed' \in Seq(Ids)
      BY <1>1, <1>2 DEF Contents, backups, Content
    <2>2. \A p \in Processes : temp'[p] # << >> => temp'[p][1] \in Content
      BY <1>1 DEF Contents, backups
    <2>3. \A v \in Workers : at'[v] \in {"digested", "writing"} => held'[v] \in Content
      BY <1>2 DEF Contents
    <2>4. \A id \in DOMAIN images' : images'[id] \in Content
      BY <1>1 DEF Contents, backups
    <2> QED BY <2>1, <2>2, <2>3, <2>4 DEF Contents
  <1> QED BY <1>1, <1>2, <1>3

LEMMA BackupFrame ==
    ASSUME Shapes, Contents, NEW w \in Workers, BackupStep(w)
    PROVE  /\ Shapes' /\ Contents' /\ Alone(w) /\ odd \subseteq odd' /\ UNCHANGED journal
           /\ odd' \subseteq odd \cup {"temp"}
           /\ at[w] \in BackupPlaces /\ at'[w] \in BackupPlaces
  <1> USE DEF Shapes, Alone, BackupPlaces, Goes, Holds, Begins, Same, backups, Gone
  <1>1. UNCHANGED journal
    BY DEF BackupStep, Backup, BeginRead, EndRead, ReadFails, Digest, Place, Record,
           RecordFails, ListBackups, Pruned, PruneImage, PruneRecord, LoadBackup, BeginWrite,
           EndWrite, WriteStops
  <1> DEFINE Framed ==
        /\ Shapes' /\ Contents' /\ Alone(w) /\ odd \subseteq odd'
        /\ odd' \subseteq odd \cup {"temp"}
        /\ at[w] \in BackupPlaces /\ at'[w] \in BackupPlaces
  <1>2. CASE Backup(w)
    BY <1>2 DEF Backup, Contents
  <1>3. CASE BeginRead(w)
    BY <1>3 DEF BeginRead, Contents
  <1>4. CASE EndRead(w)
    BY <1>4 DEF EndRead, Contents
  <1>5. CASE ReadFails(w)
    BY <1>5 DEF ReadFails, Contents
  <1>6. CASE Digest(w)
    BY <1>6 DEF Digest, Contents
  <1>7. CASE Place(w)
    <2>1. placed' \in Seq(Ids)
      <3>1. <<now, held[w]>> \in Ids /\ placed \in Seq(Ids)
        BY <1>7 DEF Place, Contents, Ids
      <3>2. Append(placed, <<now, held[w]>>) \in Seq(Ids)
        BY <3>1, AppendProperties
      <3> QED BY <1>7, <3>1, <3>2 DEF Place
    <2>2. \A id \in DOMAIN images' : images'[id] \in Content
      BY <1>7 DEF Place, Contents
    <2> QED BY <1>7, <2>1, <2>2 DEF Place, Contents
  <1>8. CASE Record(w)
    BY <1>8 DEF Record, Contents
  <1>9. CASE RecordFails(w)
    BY <1>9 DEF RecordFails, Contents
  <1>10. CASE ListBackups(w)
    BY <1>10 DEF ListBackups, Contents
  <1>11. CASE Pruned(w)
    BY <1>11 DEF Pruned, Contents
  <1>12. ASSUME NEW id \in metas, PruneImage(w, id) PROVE Framed
    BY <1>12 DEF PruneImage, Contents
  <1>13. ASSUME NEW id \in metas, PruneRecord(w, id) PROVE Framed
    BY <1>13 DEF PruneRecord, Contents
  <1>14. ASSUME NEW id \in metas, LoadBackup(w, id) PROVE Framed
    BY <1>14 DEF LoadBackup, Contents
  <1>15. CASE BeginWrite(w)
    BY <1>15 DEF BeginWrite, Contents
  <1>16. CASE EndWrite(w)
    BY <1>16 DEF EndWrite, Contents
  <1>17. CASE WriteStops(w)
    BY <1>17 DEF WriteStops, Contents, Content
  <1> QED BY <1>1, <1>2, <1>3, <1>4, <1>5, <1>6, <1>7, <1>8, <1>9, <1>10, <1>11, <1>12, <1>13,
             <1>14, <1>15, <1>16, <1>17 DEF BackupStep

\* A fault, or a server that is killed: its threads and its temporary file.
Killed(p) ==
    /\ \A w \in Workers : IF process[w] = p THEN at'[w] = "idle"
                          ELSE at'[w] = at[w] /\ held'[w] = held[w]
    /\ temp' = [temp EXCEPT ![p] = << >>] /\ arg' = arg /\ process' = process

LEMMA FaultFrame ==
    ASSUME Shapes, Contents
    PROVE  /\ Damage => Shapes' /\ Contents' /\ odd \subseteq odd' /\ UNCHANGED <<at, held>>
           /\ SetBack => Shapes' /\ Contents' /\ odd \subseteq odd' /\ UNCHANGED <<at, held>>
           /\ \A id \in DOMAIN images :
                Rot(id) => Shapes' /\ Contents' /\ odd \subseteq odd' /\ UNCHANGED <<at, held>>
           /\ \A p \in Processes : Crash(p) => Shapes' /\ Contents' /\ odd \subseteq odd' /\ Killed(p)
  <1> USE DEF Shapes, Contents, Fault, journal, Content
  <1>1. Damage => Shapes' /\ Contents' /\ odd \subseteq odd' /\ UNCHANGED <<at, held>>
    BY DEF Damage, backups
  <1>2. SetBack => Shapes' /\ Contents' /\ odd \subseteq odd' /\ UNCHANGED <<at, held>>
    BY DEF SetBack
  <1>3. ASSUME NEW id \in DOMAIN images, Rot(id)
        PROVE  Shapes' /\ Contents' /\ odd \subseteq odd' /\ UNCHANGED <<at, held>>
    BY <1>3 DEF Rot
  <1>4. ASSUME NEW p \in Processes, Crash(p)
        PROVE  Shapes' /\ Contents' /\ odd \subseteq odd' /\ Killed(p)
    BY <1>4 DEF Crash, Killed
  <1> QED BY <1>1, <1>2, <1>3, <1>4

-----------------------------------------------------------------------------
(* The journal: one change at a time *)

Changing == {"updating", "storing"}
OneChanges == \A v, w \in Workers : at[v] \in Changing /\ at[w] \in Changing => v = w
HeldIsEntry == \A w \in Workers : at[w] = "storing" => held[w] = applied
EntryIsApplied ==
    \/ entry = <<"none">> /\ applied = Empty
    \/ entry = <<"damaged">>
    \/ entry = <<"entry", applied>>
JournalInv == OneChanges /\ HeldIsEntry /\ EntryIsApplied

LEMMA JournalKept ==
    ASSUME Shapes, Contents, JournalInv, FilesNext
    PROVE  JournalInv'
  <1> USE DEF JournalInv, Shapes, Changing
  <1>1. ASSUME NEW w \in Workers, JournalStep(w) PROVE JournalInv'
    <2>1. Alone(w)
      BY <1>1, JournalFrame
    <2> USE <2>1 DEF Alone, Goes, Holds, OneChanges, HeldIsEntry, EntryIsApplied
    <2>2. ASSUME UNCHANGED <<entry, applied>>, at'[w] \notin Changing PROVE JournalInv'
      BY <2>2
    <2>3. CASE \E f \in Firmwares : Flashed(w, f)
      BY <2>2, <2>3 DEF Flashed, Begins, journal
    <2>4. CASE SetLabel(w, "bench")
      BY <2>2, <2>4 DEF SetLabel, Begins, journal
    <2>5. CASE StoreElf(w)
      BY <2>2, <2>5 DEF StoreElf
    <2>6. CASE NoElf(w)
      BY <2>2, <2>6 DEF NoElf, journal
    <2>7. CASE ListElfs(w)
      BY <2>2, <2>7 DEF ListElfs, journal
    <2>8. CASE ListFails(w)
      BY <2>2, <2>8 DEF ListFails, journal
    <2>9. CASE DropElfs(w)
      BY <2>2, <2>9 DEF DropElfs
    <2>10. CASE WriteFails(w)
      BY <2>2, <2>10 DEF WriteFails, journal
    <2>11. CASE Enter(w)
      <3>1. \A v \in Workers : at[v] \notin Changing
        BY <2>11 DEF Enter, Lock, Somewhere
      <3>2. at'[w] = "updating" /\ UNCHANGED <<entry, applied, held>>
        BY <2>11 DEF Enter, journal
      <3>3. OneChanges' /\ HeldIsEntry'
        BY <3>1, <3>2
      <3> QED BY <3>2, <3>3
    <2>12. CASE ReadEntry(w)
      <3>1. at[w] = "updating" /\ at'[w] = "storing"
        BY <2>12 DEF ReadEntry
      <3>2. OneChanges'
        BY <3>1
      <3>3. \A v \in Workers \ {w} : at[v] # "storing"
        BY <3>1
      <3>4. held'[w] = applied' /\ EntryIsApplied'
        <4>1. CASE entry = <<"none">> /\ applied = Empty
          BY <2>12, <4>1 DEF ReadEntry
        <4>2. CASE entry = <<"damaged">>
          BY <2>12, <4>2 DEF ReadEntry
        <4>3. CASE entry = <<"entry", applied>>
          BY <2>12, <4>3 DEF ReadEntry
        <4> QED BY <4>1, <4>2, <4>3
      <3> QED BY <3>2, <3>3, <3>4
    <2>13. CASE WriteEntry(w)
      <3>1. at[w] = "storing" /\ at'[w] = "idle"
        BY <2>13 DEF WriteEntry
      <3>2. OneChanges'
        BY <3>1
      <3>3. \A v \in Workers \ {w} : at[v] # "storing"
        BY <3>1
      <3>4. entry' = <<"entry", applied'>>
        BY <2>13, <3>1 DEF WriteEntry
      <3> QED BY <3>1, <3>2, <3>3, <3>4
    <2> QED BY <1>1, <2>3, <2>4, <2>5, <2>6, <2>7, <2>8, <2>9, <2>10, <2>11, <2>12, <2>13 DEF JournalStep
  <1>2. ASSUME NEW w \in Workers, BackupStep(w) PROVE JournalInv'
    <2>1. Alone(w) /\ UNCHANGED journal /\ at'[w] \in BackupPlaces
      BY <1>2, BackupFrame
    <2> QED BY <2>1 DEF Alone, journal, BackupPlaces, OneChanges, HeldIsEntry, EntryIsApplied
  <1>3. CASE Damage
    BY <1>3 DEF Damage, OneChanges, HeldIsEntry, EntryIsApplied
  <1>4. CASE SetBack
    BY <1>4 DEF SetBack, journal, OneChanges, HeldIsEntry, EntryIsApplied
  <1>5. ASSUME NEW id \in DOMAIN images, Rot(id) PROVE JournalInv'
    BY <1>5 DEF Rot, journal, OneChanges, HeldIsEntry, EntryIsApplied
  <1>6. ASSUME NEW p \in Processes, Crash(p) PROVE JournalInv'
    <2>1. Killed(p) /\ UNCHANGED journal
      BY <1>6, FaultFrame DEF Crash
    <2> QED BY <2>1 DEF Killed, journal, OneChanges, HeldIsEntry, EntryIsApplied
  <1> QED BY <1>1, <1>2, <1>3, <1>4, <1>5, <1>6 DEF FilesNext

-----------------------------------------------------------------------------
(* The ELF files: one drops them at a time, or "elfs" has occurred *)

Listing == {"listing", "dropping"}
OneDrops == \A v, w \in Workers : at[v] \in Listing /\ at[w] \in Listing => v = w
DropsOld ==
    \A w \in Workers : at[w] = "dropping" =>
        \A e \in held[w] : ~(Cardinality(StoredAfter(e)) < KEEP_ELFS)
ElfInv == IsFiniteSet(DOMAIN elfs) /\ ("elfs" \notin odd => OneDrops /\ DropsOld)

LEMMA ElfsKept ==
    ASSUME Shapes, Contents, ElfInv, FilesNext
    PROVE  /\ ElfInv'
           /\ \A e \in DOMAIN elfs :
                Cardinality(StoredAfter(e)) < KEEP_ELFS => e \in DOMAIN elfs' \/ "elfs" \in odd
  <1> DEFINE Spared ==
        \A e \in DOMAIN elfs :
           Cardinality(StoredAfter(e)) < KEEP_ELFS => e \in DOMAIN elfs' \/ "elfs" \in odd
  <1> USE DEF Shapes, Listing
  \* A step that stores, lists and drops nothing.
  <1>1. ASSUME elfs' = elfs, odd \subseteq odd',
               \A w \in Workers : \/ at'[w] = at[w] /\ held'[w] = held[w]
                                  \/ at'[w] \notin Listing
        PROVE  ElfInv' /\ Spared
    <2>1. ASSUME "elfs" \notin odd' PROVE OneDrops' /\ DropsOld'
      BY <1>1, <2>1 DEF ElfInv, OneDrops, DropsOld, StoredAfter
    <2> QED BY <1>1, <2>1 DEF ElfInv
  <1>2. ASSUME NEW w \in Workers, JournalStep(w) PROVE ElfInv' /\ Spared
    <2>1. Alone(w) /\ odd \subseteq odd' /\ process' = process
      BY <1>2, JournalFrame DEF Alone
    <2> USE <2>1 DEF Alone, Goes, Holds
    <2>2. ASSUME elfs' = elfs, at'[w] \notin Listing PROVE ElfInv' /\ Spared
      BY <1>1, <2>2
    <2>3. CASE \E f \in Firmwares : Flashed(w, f)
      BY <2>2, <2>3 DEF Flashed, Begins, journal
    <2>4. CASE SetLabel(w, "bench")
      BY <2>2, <2>4 DEF SetLabel, Begins, journal
    <2>5. CASE NoElf(w)
      BY <2>2, <2>5 DEF NoElf, journal
    <2>6. CASE ListFails(w)
      BY <2>2, <2>6 DEF ListFails, journal
    <2>7. CASE Enter(w)
      BY <2>2, <2>7 DEF Enter, journal
    <2>8. CASE ReadEntry(w)
      BY <2>2, <2>8 DEF ReadEntry
    <2>9. CASE WriteEntry(w)
      BY <2>2, <2>9 DEF WriteEntry
    <2>10. CASE WriteFails(w)
      BY <2>2, <2>10 DEF WriteFails, journal
    <2>11. CASE StoreElf(w)
      <3>1. DOMAIN elfs' = DOMAIN elfs \cup {arg[w][2]} /\ at[w] = "uploaded" /\ at'[w] = "listing"
        BY <2>11 DEF StoreElf
      <3>2. IsFiniteSet(DOMAIN elfs') /\ Spared
        BY <3>1, FS_AddElement DEF ElfInv
      <3>3. ASSUME "elfs" \notin odd' PROVE \A v \in Workers \ {w} : at[v] \notin Listing
        <4>1. ~Somewhere(Beside(w), Listing) /\ ~Somewhere(Abroad(w), Listing)
          BY <2>11, <3>3 DEF StoreElf, Locked, Somewhere
        <4> QED BY <4>1 DEF Somewhere, Beside, Abroad
      <3>4. ASSUME "elfs" \notin odd' PROVE OneDrops' /\ DropsOld'
        BY <3>1, <3>3, <3>4 DEF OneDrops, DropsOld
      <3> QED BY <3>2, <3>4 DEF ElfInv
    <2>12. CASE ListElfs(w)
      <3>1. at[w] = "listing" /\ at'[w] = "dropping" /\ held'[w] = Beyond /\ UNCHANGED <<elfs, odd>>
        BY <2>12 DEF ListElfs, journal
      <3>2. \A e \in held'[w] : ~(Cardinality(StoredAfter(e)) < KEEP_ELFS)
        <4> SUFFICES ASSUME NEW e \in DOMAIN elfs, Cardinality(StoredAfter(e)) >= KEEP_ELFS
                     PROVE  ~(Cardinality(StoredAfter(e)) < KEEP_ELFS)
          BY <3>1 DEF Beyond
        <4>1. Cardinality(StoredAfter(e)) \in Nat
          BY FS_Subset, FS_CardinalityType DEF ElfInv, StoredAfter
        <4> QED BY <4>1, Limits
      <3>3. ASSUME "elfs" \notin odd PROVE OneDrops' /\ DropsOld'
        <4>1. OneDrops'
          BY <3>1, <3>3 DEF ElfInv, OneDrops
        <4>2. \A v \in Workers \ {w} : at[v] # "dropping"
          BY <3>1, <3>3 DEF ElfInv, OneDrops
        <4>3. \A e : StoredAfter(e)' = StoredAfter(e)
          BY <3>1 DEF StoredAfter
        <4> QED BY <3>1, <3>2, <4>1, <4>2, <4>3 DEF DropsOld
      <3> QED BY <3>1, <3>3 DEF ElfInv
    <2>13. CASE DropElfs(w)
      <3>1. at[w] = "dropping" /\ at'[w] = "changing" /\ DOMAIN elfs' = DOMAIN elfs \ held[w]
            /\ odd' = odd
        BY <2>13 DEF DropElfs
      <3>2. IsFiniteSet(DOMAIN elfs')
        BY <3>1, FS_Subset DEF ElfInv
      <3>3. Spared
        BY <3>1 DEF ElfInv, DropsOld
      <3>4. ASSUME "elfs" \notin odd PROVE OneDrops' /\ DropsOld'
        BY <3>1, <3>4 DEF ElfInv, OneDrops, DropsOld
      <3> QED BY <3>1, <3>2, <3>3, <3>4 DEF ElfInv
    <2> HIDE DEF Spared
    <2> QED BY <1>2, <2>3, <2>4, <2>5, <2>6, <2>7, <2>8, <2>9, <2>10, <2>11, <2>12, <2>13 DEF JournalStep
  <1>3. ASSUME NEW w \in Workers, BackupStep(w) PROVE ElfInv' /\ Spared
    <2>1. Alone(w) /\ UNCHANGED journal /\ at'[w] \in BackupPlaces /\ odd \subseteq odd'
      BY <1>3, BackupFrame
    <2> QED BY <1>1, <2>1 DEF Alone, journal, BackupPlaces
  <1>4. CASE Damage \/ SetBack
    <2>1. UNCHANGED <<at, held, elfs>> /\ odd \subseteq odd'
      BY <1>4, FaultFrame DEF Damage, SetBack, journal
    <2> QED BY <1>1, <2>1
  <1>5. ASSUME NEW id \in DOMAIN images, Rot(id) PROVE ElfInv' /\ Spared
    <2>1. UNCHANGED <<at, held, elfs>> /\ odd \subseteq odd'
      BY <1>5, FaultFrame DEF Rot, journal
    <2> QED BY <1>1, <2>1
  <1>6. ASSUME NEW p \in Processes, Crash(p) PROVE ElfInv' /\ Spared
    <2>1. Killed(p) /\ elfs' = elfs /\ odd \subseteq odd'
      BY <1>6, FaultFrame DEF Crash, journal
    <2> QED BY <1>1, <2>1 DEF Killed
  <1>7. Spared
    BY <1>2, <1>3, <1>4, <1>5, <1>6 DEF FilesNext
  <1>8. ElfInv'
    BY <1>2, <1>3, <1>4, <1>5, <1>6 DEF FilesNext
  <1> QED BY <1>7, <1>8

-----------------------------------------------------------------------------
(* The images: each holds what it is named for, or "temp" has occurred *)

OneReads ==
    \A v, w \in Workers :
        at[v] \in Reading /\ at[w] \in Reading /\ process[v] = process[w] => v = w
DigestOfTemp ==
    \A w \in Workers : at[w] = "digested" /\ temp[process[w]] # << >> =>
        temp[process[w]][1] = held[w]
LoadedAsNamed ==
    \A w \in Workers : at[w] = "loaded" /\ arg[w] \in DOMAIN images => images[arg[w]] = arg[w][2]
WrittenAsNamed == \A w \in Workers : at[w] = "writing" => held[w] = arg[w][2]
WroteAsNamed == \A r \in restored : r[2] = r[1][2]
Named == OneReads /\ DigestOfTemp /\ LoadedAsNamed /\ WrittenAsNamed /\ WroteAsNamed
NamedInv == "temp" \notin odd => Named

LEMMA NamedKept ==
    ASSUME Shapes, Contents, NamedInv, FilesNext
    PROVE  NamedInv'
  <1> USE DEF Shapes, Reading
  <1> SUFFICES ASSUME "temp" \notin odd' PROVE Named'
    BY DEF NamedInv
  <1> USE DEF Named, OneReads, DigestOfTemp, LoadedAsNamed, WrittenAsNamed, WroteAsNamed
  <1>1. ASSUME odd \subseteq odd' PROVE Named
    BY <1>1 DEF NamedInv
  <1>2. ASSUME NEW w \in Workers, JournalStep(w) PROVE Named'
    <2>1. /\ Alone(w) /\ odd \subseteq odd' /\ UNCHANGED backups /\ at'[w] \in JournalPlaces
      BY <1>2, JournalFrame
    <2> QED BY <1>1, <2>1 DEF Alone, JournalPlaces, backups
  <1>3. ASSUME NEW w \in Workers, BackupStep(w) PROVE Named'
    <2>1. Alone(w) /\ odd \subseteq odd'
      BY <1>3, BackupFrame
    <2>2. Named
      BY <1>1, <2>1
    <2> HIDE DEF Named
    <2> USE <2>1, <2>2 DEF Alone, Goes, Holds, Begins, Same, backups
    \* A step that only changes the place of w.
    <2>3. ASSUME UNCHANGED <<temp, images, restored>>,
                 at'[w] \notin {"read", "digested", "loaded", "writing", "reading"}
          PROVE  Named'
      BY <2>3 DEF Named
    <2>4. CASE Backup(w)
      BY <2>3, <2>4 DEF Backup
    <2>5. CASE BeginRead(w)
      <3>1. \A v \in Workers \ {w} : process[v] = process[w] => at[v] \notin Reading
        BY <2>5 DEF BeginRead, Somewhere, Beside
      <3>2. \A v \in Workers : process[v] # process[w] => temp'[process[v]] = temp[process[v]]
        BY <2>5 DEF BeginRead, Gone
      <3>3. at'[w] \in {"reading", "idle"} /\ UNCHANGED <<images, restored, process>>
        BY <2>5 DEF BeginRead
      <3> QED BY <3>1, <3>2, <3>3 DEF Named
    <2>6. CASE EndRead(w)
      <3>1. \A v \in Workers \ {w} : process[v] = process[w] => at[v] \notin Reading
        BY <2>6 DEF EndRead, Named
      <3>2. \A v \in Workers : process[v] # process[w] => temp'[process[v]] = temp[process[v]]
        BY <2>6 DEF EndRead
      <3>3. at'[w] = "read" /\ UNCHANGED <<images, restored, process>>
        BY <2>6 DEF EndRead
      <3> QED BY <3>1, <3>2, <3>3 DEF Named
    <2>7. CASE ReadFails(w)
      <3>1. \A v \in Workers : temp'[process[v]] # << >> => temp'[process[v]] = temp[process[v]]
        BY <2>7 DEF ReadFails, Gone
      <3>2. at'[w] = "idle" /\ UNCHANGED <<images, restored, process>>
        BY <2>7 DEF ReadFails
      <3> QED BY <3>1, <3>2 DEF Named
    <2>8. CASE Digest(w)
      <3>1. at[w] = "read" /\ at'[w] = "digested" /\ held'[w] = temp[process[w]][1]
            /\ UNCHANGED <<temp, images, restored>>
        BY <2>8 DEF Digest
      <3>2. \A v \in Workers \ {w} : process[v] = process[w] => at[v] \notin Reading
        BY <3>1 DEF Named
      <3> QED BY <3>1, <3>2 DEF Named
    <2>9. CASE Place(w)
      <3> DEFINE id == <<now, held[w]>>
      <3>1. at[w] = "digested" /\ at'[w] \in {"idle", "placed"} /\ UNCHANGED <<restored, process>>
        BY <2>9 DEF Place
      <3>2. \A v \in Workers : temp'[process[v]] # << >> => temp'[process[v]] = temp[process[v]]
        BY <2>9 DEF Place, Gone
      <3>3. \A i \in DOMAIN images' :
              \/ i \in DOMAIN images /\ images'[i] = images[i]
              \/ images'[i] = i[2]
        <4>1. CASE temp[process[w]] = << >>
          <5>1. images' = images
            BY <2>9, <4>1 DEF Place
          <5> QED BY <5>1
        <4>2. CASE temp[process[w]] # << >>
          <5>1. temp[process[w]][1] = held[w]
            BY <3>1, <4>2 DEF Named
          <5>2. images' = [i \in DOMAIN images \cup {id} |->
                             IF i = id THEN held[w] ELSE images[i]]
            BY <2>9, <4>2, <5>1 DEF Place
          <5> QED BY <5>2
        <4> QED BY <4>1, <4>2
      <3> QED BY <3>1, <3>2, <3>3 DEF Named
    <2>10. CASE Record(w)
      BY <2>3, <2>10 DEF Record
    <2>11. CASE RecordFails(w)
      BY <2>3, <2>11 DEF RecordFails
    <2>12. CASE ListBackups(w)
      BY <2>3, <2>12 DEF ListBackups
    <2>13. CASE Pruned(w)
      BY <2>3, <2>13 DEF Pruned
    <2>14. ASSUME NEW id \in metas, PruneImage(w, id) PROVE Named'
      BY <2>14 DEF PruneImage, Named
    <2>15. ASSUME NEW id \in metas, PruneRecord(w, id) PROVE Named'
      BY <2>15 DEF PruneRecord, Named
    <2>16. ASSUME NEW id \in metas, LoadBackup(w, id) PROVE Named'
      <3>1. at'[w] = "loaded" /\ arg'[w] = id /\ images[id] = id[2]
            /\ UNCHANGED <<temp, images, restored, process>>
        BY <2>16 DEF LoadBackup, Sound
      <3> QED BY <3>1 DEF Named
    <2>17. CASE BeginWrite(w)
      <3>1. UNCHANGED <<temp, images, restored, process>> /\ arg' = arg /\ at[w] = "loaded"
        BY <2>17 DEF BeginWrite
      <3>2. \/ at'[w] = "idle"
            \/ at'[w] = "writing" /\ held'[w] = images[arg[w]] /\ arg[w] \in DOMAIN images
        BY <2>17 DEF BeginWrite
      <3> QED BY <3>1, <3>2 DEF Named
    <2>18. CASE EndWrite(w)
      <3>1. at'[w] = "idle" /\ UNCHANGED <<temp, images, process>> /\ arg' = arg
            /\ at[w] = "writing" /\ restored' = restored \cup {<<arg[w], held[w]>>}
        BY <2>18 DEF EndWrite
      <3> QED BY <3>1 DEF Named
    <2>19. CASE WriteStops(w)
      BY <2>3, <2>19 DEF WriteStops
    <2> QED BY <1>3, <2>4, <2>5, <2>6, <2>7, <2>8, <2>9, <2>10, <2>11, <2>12, <2>13, <2>14, <2>15,
               <2>16, <2>17, <2>18, <2>19 DEF BackupStep
  <1>4. CASE Damage \/ SetBack
    <2>1. UNCHANGED <<process, at, arg, held, temp, images, restored>> /\ odd \subseteq odd'
      BY <1>4, FaultFrame DEF Damage, SetBack, backups
    <2> QED BY <1>1, <2>1
  <1>5. ASSUME NEW id \in DOMAIN images, Rot(id) PROVE Named'
    <2>1. UNCHANGED <<process, at, arg, held, temp, restored>> /\ odd \subseteq odd'
          /\ \A w \in Workers : at[w] # "loaded"
      BY <1>5, FaultFrame DEF Rot, Somewhere
    <2> QED BY <1>1, <2>1
  <1>6. ASSUME NEW p \in Processes, Crash(p) PROVE Named'
    <2>1. Killed(p) /\ UNCHANGED <<images, restored>> /\ odd \subseteq odd'
      BY <1>6, FaultFrame DEF Crash
    <2> QED BY <1>1, <2>1 DEF Killed
  <1> HIDE DEF Named
  <1> QED BY <1>2, <1>3, <1>4, <1>5, <1>6 DEF FilesNext

-----------------------------------------------------------------------------
(* The newest backups stay, or "clock" or "temp" has occurred *)

InOrder ==
    /\ \A i, k \in DOMAIN placed : i <= k => placed[i][1] <= placed[k][1]
    /\ \A k \in DOMAIN placed : placed[k][1] <= now
RecordedArePlaced ==
    /\ metas \subseteq made /\ made \subseteq Placed /\ IsFiniteSet(made)
    /\ \A w \in Workers : at[w] \in {"placed", "recorded"} => held[w] \in Placed
PrunesOld ==
    \A w \in Workers : at[w] = "pruning" =>
        \A id \in held[w] : id \in made /\ ~(Cardinality(MadeAfter(id)) < KEEP)
ImagesStay ==
    \A id \in Placed : Cardinality(MadeAfter(id)) < KEEP =>
        id \in DOMAIN images /\ images[id] \in {id[2], Garbage}
MetasStay == \A id \in made : Cardinality(MadeAfter(id)) < KEEP => id \in metas
Kept == InOrder /\ PrunesOld /\ ImagesStay /\ MetasStay
KeptInv == RecordedArePlaced /\ (odd \cap {"clock", "temp"} = {} => Kept)

\* As more backups are placed and recorded, more are made after each.
LEMMA MoreAfter ==
    ASSUME NEW id \in Placed, Shapes, Contents, InOrder, now' = now,
           made \subseteq made', IsFiniteSet(made'),
           placed' = placed \/ \E new \in Ids : placed' = Append(placed, new) /\ new[1] = now
    PROVE  Cardinality(MadeAfter(id)') < KEEP => Cardinality(MadeAfter(id)) < KEEP
  <1>1. MadeAfter(id) \subseteq MadeAfter(id)'
    <2> SUFFICES ASSUME NEW other \in MadeAfter(id) PROVE other \in MadeAfter(id)'
      OBVIOUS
    <2>1. CASE other[1] = id[1]
      BY <2>1 DEF MadeAfter
    <2>2. CASE other[1] # id[1]
      <3>1. PICK k \in DOMAIN placed :
               placed[k] = other /\ \A i \in DOMAIN placed : placed[i] = id => i < k
        BY <2>2 DEF MadeAfter
      <3>2. CASE placed' = placed
        BY <3>1, <3>2 DEF MadeAfter
      <3>3. ASSUME NEW new \in Ids, placed' = Append(placed, new), new[1] = now
            PROVE  other \in MadeAfter(id)'
        <4>1. /\ placed \in Seq(Ids) /\ Len(placed) \in Nat /\ DOMAIN placed = 1..Len(placed)
              /\ DOMAIN placed' = 1..Len(placed) + 1
              /\ \A i \in 1..Len(placed) : placed'[i] = placed[i]
              /\ placed'[Len(placed) + 1] = new
          BY <3>3, AppendProperties DEF Contents
        <4>2. PICK i \in DOMAIN placed : placed[i] = id
          BY DEF Placed
        <4>3. new # id
          <5>1. placed[i][1] <= placed[k][1] /\ placed[k][1] <= now
            BY <3>1, <4>1, <4>2 DEF InOrder
          <5>2. placed[i][1] \in Nat /\ placed[k][1] \in Nat /\ now \in Nat
            BY <3>1, <4>1, <4>2 DEF Contents, Ids
          <5> QED BY <2>2, <3>1, <3>3, <4>2, <5>1, <5>2
        <4>4. \A j \in DOMAIN placed' : placed'[j] = id => j < k
          BY <3>1, <4>1, <4>3
        <4>5. k \in DOMAIN placed' /\ placed'[k] = other
          BY <3>1, <4>1
        <4> QED BY <4>4, <4>5 DEF MadeAfter
      <3> QED BY <3>2, <3>3
    <2> QED BY <2>1, <2>2
  <1>2. IsFiniteSet(MadeAfter(id)')
    BY FS_Subset DEF MadeAfter
  <1>3. /\ Cardinality(MadeAfter(id)) \in Nat /\ Cardinality(MadeAfter(id)') \in Nat
        /\ Cardinality(MadeAfter(id)) <= Cardinality(MadeAfter(id)')
    BY <1>1, <1>2, FS_Subset, FS_CardinalityType
  <1> QED BY <1>3, Limits

\* What is listed after a backup was made after it.
LEMMA LaterIsAfter ==
    ASSUME Contents, InOrder, RecordedArePlaced, NEW id \in made
    PROVE  {other \in metas : Later(other, id)} \subseteq MadeAfter(id)
  <1> SUFFICES ASSUME NEW other \in metas, Later(other, id)
               PROVE  other \in MadeAfter(id)
    OBVIOUS
  <1>1. PICK k \in DOMAIN placed : placed[k] = other
    BY DEF RecordedArePlaced, Placed
  <1>2. PICK n \in DOMAIN placed : placed[n] = id
    BY DEF RecordedArePlaced, Placed
  <1>3. DOMAIN placed = 1..Len(placed) /\ Len(placed) \in Nat
        /\ \A i \in DOMAIN placed : placed[i] \in Ids
    BY DEF Contents
  <1>4. other[1] \in Nat /\ id[1] \in Nat /\ other[2] \in Content /\ id[2] \in Content
    BY <1>1, <1>2, <1>3 DEF Ids
  <1>5. other \in made
    BY DEF RecordedArePlaced
  <1>6. CASE other[1] = id[1]
    <2>1. other[2] > id[2]
      BY <1>4, <1>6 DEF Later
    <2>2. other # id
      <3>1. other[2] \in Nat /\ id[2] \in Nat
        <4>1. Content \subseteq Nat
          BY Limits DEF Content, Garbage
        <4> QED BY <1>4, <4>1
      <3> QED BY <2>1, <3>1
    <2> QED BY <1>5, <1>6, <2>2 DEF MadeAfter
  <1>7. CASE other[1] # id[1]
    <2>1. other[1] > id[1] /\ other # id
      BY <1>4, <1>7 DEF Later
    <2>2. ASSUME NEW i \in DOMAIN placed, placed[i] = id PROVE i < k
      <3>1. CASE k <= i
        BY <1>1, <1>3, <1>4, <2>1, <2>2, <3>1 DEF InOrder
      <3> QED BY <1>1, <1>3, <3>1
    <2> QED BY <1>1, <1>5, <2>1, <2>2 DEF MadeAfter
  <1> QED BY <1>6, <1>7

LEMMA LastKept ==
    ASSUME Shapes, Contents, NamedInv, KeptInv, FilesNext
    PROVE  KeptInv'
  <1> DEFINE Odd == odd \cap {"clock", "temp"} # {}
             Later3 == {"placed", "recorded", "pruning"}
  <1> USE DEF Shapes
  \* A step that places, records, lists and prunes nothing.
  <1>1. ASSUME UNCHANGED <<placed, made, metas, images>>, now <= now', odd \subseteq odd',
               \A w \in Workers : \/ at'[w] = at[w] /\ held'[w] = held[w]
                                  \/ at'[w] \notin Later3,
               now' \in Nat
        PROVE  KeptInv'
    <2>1. RecordedArePlaced'
      BY <1>1 DEF KeptInv, RecordedArePlaced, Placed
    <2>2. ASSUME ~Odd' PROVE Kept'
      <3>1. Kept
        BY <1>1, <2>2 DEF KeptInv
      <3>2. Placed' = Placed /\ \A id : MadeAfter(id)' = MadeAfter(id)
        BY <1>1 DEF Placed, MadeAfter
      <3>3. InOrder'
        <4>1. \A k \in DOMAIN placed : placed[k][1] \in Nat
          BY DEF Contents, Ids
        <4> QED BY <1>1, <3>1, <4>1 DEF Kept, InOrder, Contents
      <3>4. PrunesOld'
        BY <1>1, <3>1, <3>2 DEF Kept, PrunesOld
      <3>5. ImagesStay' /\ MetasStay'
        BY <1>1, <3>1, <3>2 DEF Kept, ImagesStay, MetasStay
      <3> QED BY <3>3, <3>4, <3>5 DEF Kept
    <2> QED BY <2>1, <2>2 DEF KeptInv
  <1>2. ASSUME NEW w \in Workers, JournalStep(w) PROVE KeptInv'
    <2>1. /\ Alone(w) /\ odd \subseteq odd' /\ UNCHANGED backups /\ at'[w] \in JournalPlaces
      BY <1>2, JournalFrame
    <2>2. now \in Nat /\ now <= now' /\ now' \in Nat
      BY <2>1 DEF backups, Contents
    <2> QED BY <1>1, <2>1, <2>2 DEF Alone, JournalPlaces, backups
  <1>3. ASSUME NEW w \in Workers, BackupStep(w) PROVE KeptInv'
    <2>1. Alone(w) /\ odd \subseteq odd' /\ Contents'
      BY <1>3, BackupFrame
    <2>2. now \in Nat /\ now' \in Nat
      BY <2>1 DEF Contents
    <2> USE <2>1, <2>2 DEF Alone, Goes, Holds, Begins, Same, backups
    <2>3. ASSUME UNCHANGED <<placed, made, metas, images>>, now <= now', at'[w] \notin Later3
          PROVE  KeptInv'
      BY <1>1, <2>3
    <2>4. CASE Backup(w)
      BY <2>3, <2>4 DEF Backup
    <2>5. CASE BeginRead(w)
      BY <2>3, <2>5 DEF BeginRead
    <2>6. CASE EndRead(w)
      BY <2>3, <2>6 DEF EndRead
    <2>7. CASE ReadFails(w)
      BY <2>3, <2>7 DEF ReadFails
    <2>8. CASE Digest(w)
      BY <2>3, <2>8 DEF Digest
    <2>9. CASE RecordFails(w)
      BY <2>3, <2>9 DEF RecordFails
    <2>10. CASE Pruned(w)
      BY <2>3, <2>10 DEF Pruned
    <2>11. ASSUME NEW id \in metas, LoadBackup(w, id) PROVE KeptInv'
      BY <2>3, <2>11 DEF LoadBackup
    <2>12. CASE BeginWrite(w)
      BY <2>3, <2>12 DEF BeginWrite
    <2>13. CASE EndWrite(w)
      BY <2>3, <2>13 DEF EndWrite
    <2>14. CASE WriteStops(w)
      BY <2>3, <2>14 DEF WriteStops
    <2>15. CASE Place(w)
      <3> DEFINE id == <<now, held[w]>>
      <3>1. CASE temp[process[w]] = << >>
        BY <2>3, <2>15, <3>1 DEF Place
      <3>2. CASE temp[process[w]] # << >>
        <4>1. /\ at[w] = "digested" /\ at'[w] = "placed" /\ held'[w] = id
              /\ placed' = Append(placed, id) /\ UNCHANGED <<made, metas, now, odd>>
              /\ images' = [i \in DOMAIN images \cup {id} |->
                              IF i = id THEN temp[process[w]][1] ELSE images[i]]
          BY <2>15, <3>2 DEF Place
        <4>2. id \in Ids
          BY <4>1 DEF Contents, Ids
        <4> HIDE DEF id
        <4>3. /\ placed \in Seq(Ids) /\ Len(placed) \in Nat /\ DOMAIN placed = 1..Len(placed)
              /\ DOMAIN placed' = 1..Len(placed) + 1
              /\ \A i \in 1..Len(placed) : placed'[i] = placed[i]
              /\ placed'[Len(placed) + 1] = id
          BY <4>1, <4>2, AppendProperties DEF Contents
        <4>4. Placed' = Placed \cup {id}
          <5>1. \A x \in Placed' : x \in Placed \cup {id}
            BY <4>3 DEF Placed
          <5>2. \A x \in Placed \cup {id} : x \in Placed'
            BY <4>3 DEF Placed
          <5> QED BY <5>1, <5>2
        <4>5. RecordedArePlaced'
          BY <4>1, <4>4 DEF KeptInv, RecordedArePlaced
        <4>6. ASSUME ~Odd PROVE Kept'
          <5>1. Kept /\ IsFiniteSet(made) /\ "temp" \notin odd
            BY <4>6 DEF KeptInv, RecordedArePlaced
          <5>2. temp[process[w]][1] = held[w] /\ id[1] = now /\ id[2] = held[w]
            BY <3>2, <4>1, <5>1 DEF NamedInv, Named, DigestOfTemp, id
          <5>3. \A i \in Placed :
                  Cardinality(MadeAfter(i)') < KEEP => Cardinality(MadeAfter(i)) < KEEP
            BY <4>1, <4>2, <5>1, <5>2, MoreAfter DEF Kept
          <5>4. InOrder'
            <6>1. \A k \in DOMAIN placed : placed[k][1] <= now /\ placed[k][1] \in Nat
              BY <4>3, <5>1 DEF Kept, InOrder, Ids
            <6> QED BY <4>1, <4>3, <5>1, <5>2, <6>1 DEF Kept, InOrder
          <5>5. PrunesOld'
            BY <4>1, <5>1, <5>3 DEF Kept, PrunesOld, KeptInv, RecordedArePlaced
          <5>6. ImagesStay'
            BY <4>1, <4>4, <5>1, <5>2, <5>3 DEF Kept, ImagesStay
          <5>7. MetasStay'
            BY <4>1, <5>1, <5>3 DEF Kept, MetasStay, KeptInv, RecordedArePlaced
          <5> QED BY <5>4, <5>5, <5>6, <5>7 DEF Kept
        <4> QED BY <4>1, <4>5, <4>6 DEF KeptInv
      <3> QED BY <3>1, <3>2
    <2>16. CASE Record(w)
      <3>1. /\ at[w] = "placed" /\ at'[w] = "recorded" /\ held' = held
            /\ made' = made \cup {held[w]} /\ metas' = metas \cup {held[w]}
            /\ UNCHANGED <<placed, images, now, odd>>
        BY <2>16 DEF Record
      <3>2. held[w] \in Placed /\ Placed' = Placed
        BY <3>1 DEF KeptInv, RecordedArePlaced, Placed
      <3>3. IsFiniteSet(made')
        BY <3>1, FS_AddElement DEF KeptInv, RecordedArePlaced
      <3>4. RecordedArePlaced'
        BY <3>1, <3>2, <3>3 DEF KeptInv, RecordedArePlaced
      <3>5. ASSUME ~Odd PROVE Kept'
        <4>1. Kept
          BY <3>5 DEF KeptInv
        <4>2. \A i \in Placed :
                Cardinality(MadeAfter(i)') < KEEP => Cardinality(MadeAfter(i)) < KEEP
          BY <3>1, <3>3, <4>1, MoreAfter DEF Kept
        <4>3. InOrder'
          BY <3>1, <4>1 DEF Kept, InOrder
        <4>4. PrunesOld'
          BY <3>1, <4>1, <4>2 DEF Kept, PrunesOld, KeptInv, RecordedArePlaced
        <4>5. ImagesStay'
          BY <3>1, <3>2, <4>1, <4>2 DEF Kept, ImagesStay
        <4>6. MetasStay'
          BY <3>1, <4>1, <4>2 DEF Kept, MetasStay, KeptInv, RecordedArePlaced
        <4> QED BY <4>3, <4>4, <4>5, <4>6 DEF Kept
      <3> QED BY <3>1, <3>4, <3>5 DEF KeptInv
    <2>17. CASE ListBackups(w)
      <3>1. /\ at'[w] = "pruning" /\ held'[w] = OlderThanKept(metas)
            /\ UNCHANGED <<placed, made, metas, images, now, odd>>
        BY <2>17 DEF ListBackups
      <3>2. RecordedArePlaced'
        BY <3>1 DEF KeptInv, RecordedArePlaced, Placed
      <3>3. ASSUME ~Odd PROVE Kept'
        <4>1. Kept /\ RecordedArePlaced
          BY <3>3 DEF KeptInv
        <4>2. Placed' = Placed /\ \A id : MadeAfter(id)' = MadeAfter(id)
          BY <3>1 DEF Placed, MadeAfter
        <4>3. ASSUME NEW id \in OlderThanKept(metas)
              PROVE  id \in made /\ ~(Cardinality(MadeAfter(id)) < KEEP)
          <5>1. id \in metas /\ Cardinality({j \in metas : Later(j, id)}) >= KEEP
            BY <4>3 DEF OlderThanKept
          <5>2. id \in made
            BY <4>1, <5>1 DEF RecordedArePlaced
          <5>3. {j \in metas : Later(j, id)} \subseteq MadeAfter(id)
            BY <4>1, <5>2, LaterIsAfter DEF Kept
          <5>4. IsFiniteSet(MadeAfter(id))
            BY <4>1, FS_Subset DEF RecordedArePlaced, MadeAfter
          <5>5. /\ Cardinality({j \in metas : Later(j, id)}) <= Cardinality(MadeAfter(id))
                /\ Cardinality(MadeAfter(id)) \in Nat
                /\ Cardinality({j \in metas : Later(j, id)}) \in Nat
            BY <5>3, <5>4, FS_Subset, FS_CardinalityType
          <5> QED BY <5>1, <5>2, <5>5, Limits
        <4>4. InOrder' /\ ImagesStay' /\ MetasStay'
          BY <3>1, <4>1, <4>2 DEF Kept, InOrder, ImagesStay, MetasStay
        <4>5. PrunesOld'
          BY <3>1, <4>1, <4>2, <4>3 DEF Kept, PrunesOld
        <4> QED BY <4>4, <4>5 DEF Kept
      <3> QED BY <3>1, <3>2, <3>3 DEF KeptInv
    <2>18. ASSUME NEW id \in metas, PruneImage(w, id) PROVE KeptInv'
      <3>1. /\ at' = at /\ held' = held /\ UNCHANGED <<placed, made, metas, now, odd>>
            /\ at[w] = "pruning" /\ id \in held[w]
            /\ images' = [i \in DOMAIN images \ {id} |-> images[i]]
        BY <2>18 DEF PruneImage
      <3>2. RecordedArePlaced'
        BY <3>1 DEF KeptInv, RecordedArePlaced, Placed
      <3>3. ASSUME ~Odd PROVE Kept'
        <4>1. Kept
          BY <3>3 DEF KeptInv
        <4>2. Placed' = Placed /\ \A i : MadeAfter(i)' = MadeAfter(i)
          BY <3>1 DEF Placed, MadeAfter
        <4>3. ~(Cardinality(MadeAfter(id)) < KEEP)
          BY <3>1, <4>1 DEF Kept, PrunesOld
        <4>4. InOrder' /\ PrunesOld' /\ MetasStay'
          BY <3>1, <4>1, <4>2 DEF Kept, InOrder, PrunesOld, MetasStay
        <4>5. ImagesStay'
          BY <3>1, <4>1, <4>2, <4>3 DEF Kept, ImagesStay
        <4> QED BY <4>4, <4>5 DEF Kept
      <3> QED BY <3>1, <3>2, <3>3 DEF KeptInv
    <2>19. ASSUME NEW id \in metas, PruneRecord(w, id) PROVE KeptInv'
      <3>1. /\ at' = at /\ held'[w] = held[w] \ {id}
            /\ UNCHANGED <<placed, made, images, now, odd>>
            /\ at[w] = "pruning" /\ id \in held[w] /\ metas' = metas \ {id}
        BY <2>19 DEF PruneRecord
      <3>2. RecordedArePlaced'
        BY <3>1 DEF KeptInv, RecordedArePlaced, Placed
      <3>3. ASSUME ~Odd PROVE Kept'
        <4>1. Kept
          BY <3>3 DEF KeptInv
        <4>2. Placed' = Placed /\ \A i : MadeAfter(i)' = MadeAfter(i)
          BY <3>1 DEF Placed, MadeAfter
        <4>3. ~(Cardinality(MadeAfter(id)) < KEEP)
          BY <3>1, <4>1 DEF Kept, PrunesOld
        <4>4. InOrder' /\ ImagesStay'
          BY <3>1, <4>1, <4>2 DEF Kept, InOrder, ImagesStay
        <4>5. PrunesOld'
          BY <3>1, <4>1, <4>2 DEF Kept, PrunesOld
        <4>6. MetasStay'
          BY <3>1, <4>1, <4>2, <4>3 DEF Kept, MetasStay
        <4> QED BY <4>4, <4>5, <4>6 DEF Kept
      <3> QED BY <3>1, <3>2, <3>3 DEF KeptInv
    <2> QED BY <1>3, <2>4, <2>5, <2>6, <2>7, <2>8, <2>9, <2>10, <2>11, <2>12, <2>13, <2>14, <2>15,
               <2>16, <2>17, <2>18, <2>19 DEF BackupStep
  <1>4. CASE Damage
    <2>1. UNCHANGED <<at, held, placed, made, metas, images, now>> /\ odd \subseteq odd'
      BY <1>4, FaultFrame DEF Damage, backups
    <2>2. now <= now' /\ now' \in Nat
      BY <2>1 DEF Contents
    <2> QED BY <1>1, <2>1, <2>2
  <1>5. CASE SetBack
    <2>1. RecordedArePlaced' /\ "clock" \in odd'
      BY <1>5 DEF SetBack, Fault, KeptInv, RecordedArePlaced, Placed
    <2> QED BY <2>1 DEF KeptInv
  <1>6. ASSUME NEW id \in DOMAIN images, Rot(id) PROVE KeptInv'
    <2>1. UNCHANGED <<at, held, placed, made, metas, now>> /\ odd \subseteq odd'
          /\ images' = [images EXCEPT ![id] = Garbage]
      BY <1>6, FaultFrame DEF Rot
    <2>2. RecordedArePlaced'
      BY <2>1 DEF KeptInv, RecordedArePlaced, Placed
    <2>3. ASSUME ~Odd' PROVE Kept'
      <3>1. Kept
        BY <2>1, <2>3 DEF KeptInv
      <3>2. Placed' = Placed /\ \A i : MadeAfter(i)' = MadeAfter(i)
        BY <2>1 DEF Placed, MadeAfter
      <3>3. InOrder' /\ PrunesOld' /\ MetasStay'
        BY <2>1, <3>1, <3>2 DEF Kept, InOrder, PrunesOld, MetasStay
      <3>4. ImagesStay'
        BY <2>1, <3>1, <3>2 DEF Kept, ImagesStay
      <3> QED BY <3>3, <3>4 DEF Kept
    <2> QED BY <2>2, <2>3 DEF KeptInv
  <1>7. ASSUME NEW p \in Processes, Crash(p) PROVE KeptInv'
    <2>1. Killed(p) /\ UNCHANGED <<placed, made, metas, images, now>> /\ odd \subseteq odd'
      BY <1>7, FaultFrame DEF Crash
    <2>2. now <= now' /\ now' \in Nat
      BY <2>1 DEF Contents
    <2> QED BY <1>1, <2>1, <2>2 DEF Killed
  <1> QED BY <1>2, <1>3, <1>4, <1>5, <1>6, <1>7 DEF FilesNext

-----------------------------------------------------------------------------
FilesInv == Shapes /\ Contents /\ JournalInv /\ ElfInv /\ NamedInv /\ KeptInv

LEMMA FilesInitially == FilesInit => FilesInv
  <1> SUFFICES ASSUME FilesInit PROVE FilesInv
    OBVIOUS
  <1>1. Shapes /\ JournalInv
    BY DEF FilesInit, Shapes, JournalInv, OneChanges, HeldIsEntry, EntryIsApplied, Changing
  <1>2. chip \in Content
    BY Limits, Zenon DEF FilesInit, Content
  <1>3. Contents
    BY <1>2 DEF FilesInit, Contents
  <1>4. ElfInv
    <2>1. DOMAIN elfs = {}
      BY DEF FilesInit
    <2> QED BY <2>1, FS_EmptySet DEF FilesInit, ElfInv, OneDrops, DropsOld, Listing
  <1>5. NamedInv
    BY DEF FilesInit, NamedInv, Named, OneReads, DigestOfTemp, LoadedAsNamed, WrittenAsNamed,
           WroteAsNamed, Reading
  <1>6. KeptInv
    <2>1. placed = << >> /\ DOMAIN placed = {} /\ made = {} /\ metas = {}
          /\ \A w \in Workers : at[w] = "idle"
      BY DEF FilesInit
    <2> QED BY <2>1, FS_EmptySet
            DEF KeptInv, RecordedArePlaced, Kept, InOrder, PrunesOld, ImagesStay, MetasStay, Placed
  <1> QED BY <1>1, <1>3, <1>4, <1>5, <1>6 DEF FilesInv

LEMMA FilesKept == FilesInv /\ [FilesNext]_filesVars => FilesInv'
  <1> SUFFICES ASSUME FilesInv, [FilesNext]_filesVars PROVE FilesInv'
    OBVIOUS
  <1>1. CASE FilesNext
    <2>1. Shapes' /\ Contents'
      BY <1>1, JournalFrame, BackupFrame, FaultFrame DEF FilesInv, FilesNext
    <2> QED BY <1>1, <2>1, JournalKept, ElfsKept, NamedKept, LastKept DEF FilesInv
  <1>2. CASE UNCHANGED filesVars
    <2>1. UNCHANGED <<process, at, arg, held, chip, entry, elfs, temp, images, metas, now,
                      applied, placed, made, restored, odd>>
      BY <1>2 DEF filesVars, journal, backups
    <2>2. Shapes' /\ Contents' /\ JournalInv'
      BY <2>1 DEF FilesInv, Shapes, Contents, JournalInv, OneChanges, HeldIsEntry, EntryIsApplied
    <2>3. ElfInv'
      BY <2>1 DEF FilesInv, ElfInv, OneDrops, DropsOld, StoredAfter
    <2>4. NamedInv'
      BY <2>1 DEF FilesInv, NamedInv, Named, OneReads, DigestOfTemp, LoadedAsNamed,
                  WrittenAsNamed, WroteAsNamed
    <2>5. \A id : MadeAfter(id)' = MadeAfter(id)
      BY <2>1 DEF MadeAfter
    <2>6. KeptInv'
      BY <2>1, <2>5 DEF FilesInv, KeptInv, RecordedArePlaced, Kept, InOrder, PrunesOld, ImagesStay,
                         MetasStay, Placed
    <2> QED BY <2>2, <2>3, <2>4, <2>6 DEF FilesInv
  <1> QED BY <1>1, <1>2

LEMMA FilesAlways == FilesSpec => []FilesInv
  BY FilesInitially, FilesKept, PTL DEF FilesSpec

-----------------------------------------------------------------------------
\* No upload and no label overwrites another, for any number of servers and
\* threads (_update under its two locks).
THEOREM NoUpdateIsLost == FilesSpec => []NoUpdateLost
  <1>1. FilesInv => NoUpdateLost
    BY DEF FilesInv, JournalInv, EntryIsApplied, NoUpdateLost
  <1> QED BY FilesAlways, <1>1, PTL

\* The newest ELF files stay, whatever is stored, listed and dropped beside,
\* unless two servers drop ELF files at once (store_elf).
THEOREM ElfsAreSpared == FilesSpec => ElfsSpared
  <1>1. ASSUME FilesInv, [FilesNext]_filesVars
        PROVE  [\A e \in DOMAIN elfs :
                  Cardinality(StoredAfter(e)) < KEEP_ELFS => e \in DOMAIN elfs' \/ "elfs" \in odd]_filesVars
    BY <1>1, ElfsKept DEF FilesInv
  <1> QED BY FilesAlways, <1>1, PTL DEF FilesSpec, ElfsSpared

\* A restore that succeeds wrote what its backup is named for (create, load,
\* restore), unless two threads of a server shared their temporary file.
THEOREM RestoresAreNamed == FilesSpec => []RestoredAsNamed
  <1>1. FilesInv => RestoredAsNamed
    BY DEF FilesInv, NamedInv, Named, WroteAsNamed, RestoredAsNamed
  <1> QED BY FilesAlways, <1>1, PTL

\* A backup stays listed, with its image, until KEEP were made after it, for any
\* KEEP (create's pruning of list_backups[KEEP:]).
THEOREM LastOnesAreKept == FilesSpec => []LastAreKept
  <1>1. FilesInv => LastAreKept
    BY DEF FilesInv, KeptInv, RecordedArePlaced, Kept, ImagesStay, MetasStay, LastAreKept
  <1> QED BY FilesAlways, <1>1, PTL
=============================================================================

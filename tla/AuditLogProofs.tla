--------------------------- MODULE AuditLogProofs ---------------------------
(***************************************************************************)
(* Proofs about AuditLog for any set of processes and threads and any      *)
(* number of records.  The inductive invariant says, besides the types,    *)
(* that only the holder of the flock is between reading the head and       *)
(* syncing, that a head it is about to use is the tip of an undamaged log,  *)
(* and that a cache whose key matches the file holds the file's last hash. *)
(***************************************************************************)
EXTENDS AuditLog, TLAPS, FiniteSetTheorems, WellFoundedInduction

\* A non-empty set of positions has a last one: of the intervals i..n, the
\* smallest, which well-founded inclusion provides.
LEMMA MaxExists ==
    ASSUME NEW n \in Nat, NEW S \in SUBSET (1..n), S # {}
    PROVE  \E m \in S : \A j \in S : j <= m
<1> DEFINE Above == {i..n : i \in S}
<1>1. ASSUME NEW i \in S
      PROVE  i..n \in FiniteSubsetsOf(1..n)
  <2>1. IsFiniteSet(i..n)
    BY FS_Interval
  <2>2. i..n \subseteq 1..n
    OBVIOUS
  <2> QED
    BY <2>1, <2>2 DEF FiniteSubsetsOf
<1>2. Above \subseteq FiniteSubsetsOf(1..n) /\ Above # {}
  BY <1>1
<1>3. PICK x \in Above : \A y \in Above : ~(<<y, x>> \in StrictSubsetOrdering(1..n))
  <2> HIDE DEF Above
  <2> QED
    BY <1>2, WFMin, FS_StrictSubsetOrderingWellFounded
<1>4. PICK m \in S : x = m..n
  OBVIOUS
<1>5. ASSUME NEW j \in S, j > m
      PROVE  FALSE
  <2>1. j..n \in Above
    OBVIOUS
  <2>2. j..n \subseteq m..n /\ m \in m..n /\ m \notin j..n
    BY <1>5
  <2>3. <<j..n, m..n>> \in StrictSubsetOrdering(1..n)
    BY <2>2 DEF StrictSubsetOrdering
  <2> QED
    BY <1>3, <1>4, <2>1, <2>3
<1> QED
  BY <1>5

AllFull(f) == \A i \in 1..Len(f) : f[i].extent = "full"

\* Only the flock's holder is past fcntl.flock.
Holding == \A t \in Threads : pc[t] \in {"locked", "write", "sync"} => flock = t

\* A record with only whole lines before it names the line before it.
Chained ==
    \A i \in 1..Len(log) :
        (\A j \in 1..(i - 1) : log[j].extent = "full") => log[i].prev = Before(log, i)

\* The head a thread has read is still the tip when it writes.
WriterReady ==
    \A t \in Threads : pc[t] = "write" => (AllFull(log) => prev[t] = Tip(log))

\* The line a thread is syncing is the last one in the file, and whole.
SyncReady ==
    \A t \in Threads : pc[t] = "sync" =>
        /\ Len(log) > 0
        /\ log[Len(log)].id = digest[t]
        /\ log[Len(log)].extent = "full"

\* A key never runs ahead of the file, and one that matches goes with its tip.
CacheSound ==
    \A p \in Procs : cache[p].key # None =>
        /\ cache[p].head # None
        /\ cache[p].key <= Len(log)
        /\ cache[p].key = Len(log) => Len(log) > 0 /\ cache[p].head = log[Len(log)].id

IInv ==
    /\ TypeOK
    /\ Holding
    /\ Chained
    /\ WriterReady
    /\ SyncReady
    /\ CacheSound
    /\ AckedSurvive

-----------------------------------------------------------------------------
(* Reading the file *)

\* A log whose lines all parse ends at its tip: _read_head finds it.
LEMMA ReadHeadIsTip ==
    ASSUME NEW f \in Seq(Fragment), AllStand(f)
    PROVE  ReadHead(f) = Tip(f)
<1>1. CASE Len(f) = 0
  BY <1>1 DEF ReadHead, Tip, Before
<1>2. CASE Len(f) > 0
  <2>1. \A i \in 1..Len(f) : Stands(f, i)
    BY DEF AllStand
  <2>2. Len(f) \in 1..Len(f)
    BY <1>2
  <2>3. /\ LastStanding(f) \in 1..Len(f)
        /\ \A j \in 1..Len(f) : j <= LastStanding(f)
    BY <2>1, <2>2 DEF LastStanding
  <2>4. LastStanding(f) = Len(f)
    BY <2>2, <2>3
  <2>5. ReadHead(f) = f[Len(f)].id
    BY <2>1, <2>2, <2>4 DEF ReadHead
  <2> QED
    BY <1>2, <2>5 DEF Tip, Before
<1> QED
  BY <1>1, <1>2

\* A log of whole lines is one whose lines all parse.
LEMMA FullStands ==
    ASSUME NEW f \in Seq(Fragment), AllFull(f)
    PROVE  AllStand(f)
BY DEF AllFull, AllStand, Stands, Fragment

\* What a thread takes as the chain head of a log of whole lines is its tip.
LEMMA TailIsTip ==
    ASSUME TypeOK, CacheSound, NEW p \in Procs, AllFull(log)
    PROVE  TailOf(p) = Tip(log)
<1>1. log \in Seq(Fragment) /\ cache[p] \in Chain
  BY DEF TypeOK
<1>2. CASE cache[p].head = None \/ cache[p].key # Len(log)
  BY <1>1, <1>2, FullStands, ReadHeadIsTip DEF TailOf
<1>3. CASE cache[p].head # None /\ cache[p].key = Len(log)
  <2>1. cache[p].key # None
    BY <1>1, <1>3, NoneAssumption
  <2>2. Len(log) > 0 /\ cache[p].head = log[Len(log)].id
    BY <1>3, <2>1 DEF CacheSound
  <2> QED
    BY <1>1, <1>3, <2>2 DEF TailOf, Tip, Before
<1> QED
  BY <1>2, <1>3

\* The head a thread reads is a digest.
LEMMA TailType ==
    ASSUME TypeOK, NEW p \in Procs
    PROVE  TailOf(p) \in Digest
<1>1. log \in Seq(Fragment) /\ cache[p] \in Chain
  BY DEF TypeOK
<1>2. ReadHead(log) \in Digest
  <2>1. CASE \E i \in 1..Len(log) : Stands(log, i)
    <3> DEFINE S == {i \in 1..Len(log) : Stands(log, i)}
    <3>1. S \in SUBSET (1..Len(log)) /\ S # {} /\ Len(log) \in Nat
      BY <1>1, <2>1
    <3>2. \E m \in S : \A j \in S : j <= m
      <4> HIDE DEF S
      <4> QED
        BY <3>1, MaxExists
    <3>3. LastStanding(log) \in 1..Len(log)
      BY <3>2 DEF LastStanding
    <3>4. log[LastStanding(log)] \in Fragment
      BY <1>1, <3>3
    <3> QED
      BY <2>1, <3>4 DEF ReadHead, Fragment
  <2> QED
    BY <2>1 DEF ReadHead, Genesis, Digest
<1> QED
  BY <1>1, <1>2 DEF TailOf, Chain

-----------------------------------------------------------------------------
(* The steps, by what they do to the file *)

\* Steps that leave the file as it is.
QuietStep ==
    \/ \E t \in Threads : Enter(t) \/ Flock(t) \/ Compose(t) \/ Sync(t) \/ Fail(t)
    \/ \E p \in Procs : Crash(p) /\ UNCHANGED log
    \/ UNCHANGED vars

\* The thread that writes puts one fragment at the end.
WriteStep(t, extent) ==
    /\ pc[t] = "write"
    /\ log' = Appended(t, extent)
    /\ \/ Write(t) /\ extent = "full"
       \/ ShortWrite(t)
       \/ Crash(ProcOf[t])

LEMMA StepShapes ==
    ASSUME [Next]_vars
    PROVE  \/ QuietStep
           \/ \E t \in Threads, extent \in Extents : WriteStep(t, extent)
           \/ PowerLoss
BY DEF Next, QuietStep, WriteStep, Write, ShortWrite, Crash, Extents

LEMMA InitIInv == Init => IInv
BY ThreadsAssumption
   DEF Init, IInv, TypeOK, Holding, Chained, WriterReady, SyncReady, CacheSound,
       AckedSurvive, FreshChain, Chain, Digest, Genesis, Places

-----------------------------------------------------------------------------
(* Steps that leave the file as it is *)

LEMMA EnterKeeps ==
    ASSUME IInv, NEW t \in Threads, Enter(t)
    PROVE  IInv'
<1>1. TypeOK'
  BY ThreadsAssumption DEF IInv, TypeOK, Enter, Places
<1>2. Holding' /\ Chained' /\ CacheSound' /\ AckedSurvive'
  BY DEF IInv, TypeOK, Holding, Chained, CacheSound, AckedSurvive, Enter, Before
<1>3. WriterReady' /\ SyncReady'
  BY DEF IInv, TypeOK, WriterReady, SyncReady, Enter, AllFull, Tip, Before
<1> QED
  BY <1>1, <1>2, <1>3 DEF IInv

LEMMA FlockKeeps ==
    ASSUME IInv, NEW t \in Threads, Flock(t)
    PROVE  IInv'
<1>1. TypeOK'
  BY ThreadsAssumption DEF IInv, TypeOK, Flock, Places
<1>2. Holding'
  BY ThreadsAssumption DEF IInv, TypeOK, Holding, Flock
<1>3. Chained' /\ CacheSound' /\ AckedSurvive'
  BY DEF IInv, Chained, CacheSound, AckedSurvive, Flock, Before
<1>4. WriterReady' /\ SyncReady'
  BY DEF IInv, TypeOK, WriterReady, SyncReady, Flock, AllFull, Tip, Before
<1> QED
  BY <1>1, <1>2, <1>3, <1>4 DEF IInv

LEMMA FailKeeps ==
    ASSUME IInv, NEW t \in Threads, Fail(t)
    PROVE  IInv'
<1>1. TypeOK'
  BY ThreadsAssumption DEF IInv, TypeOK, Fail, Leave, Places
<1>2. Holding' /\ Chained' /\ CacheSound' /\ AckedSurvive'
  BY DEF IInv, TypeOK, Holding, Chained, CacheSound, AckedSurvive, Fail, Leave, Before
<1>3. WriterReady' /\ SyncReady'
  BY DEF IInv, TypeOK, WriterReady, SyncReady, Fail, Leave, AllFull, Tip, Before
<1> QED
  BY <1>1, <1>2, <1>3 DEF IInv

LEMMA ComposeKeeps ==
    ASSUME IInv, NEW t \in Threads, Compose(t)
    PROVE  IInv'
<1> DEFINE p == ProcOf[t]
<1>1. p \in Procs /\ TypeOK
  BY ThreadsAssumption DEF IInv
<1>2. TailOf(p) \in Digest
  BY <1>1, TailType
<1>3. TypeOK'
  <2>1. cache' \in [Procs -> Chain]
    BY <1>1, <1>2 DEF TypeOK, Compose, Chain
  <2>2. /\ prev' \in [Threads -> Digest]
        /\ digest' \in [Threads -> Digest]
        /\ serial' \in Nat
        /\ pc' \in [Threads -> Places]
    BY <1>1, <1>2 DEF TypeOK, Compose, Digest, Places
  <2> QED
    BY <1>1, <2>1, <2>2 DEF TypeOK, Compose
<1>4. Holding' /\ Chained' /\ SyncReady' /\ AckedSurvive'
  BY <1>1 DEF IInv, TypeOK, Holding, Chained, SyncReady, AckedSurvive, Compose, Before
<1>5. WriterReady'
  <2>1. AllFull(log) => TailOf(p) = Tip(log)
    BY <1>1, TailIsTip DEF IInv
  <2> QED
    BY <1>1, <2>1 DEF IInv, TypeOK, WriterReady, Compose, AllFull, Tip, Before
<1>6. CacheSound'
  <2>1. ASSUME NEW q \in Procs, cache'[q].key # None
        PROVE  /\ cache'[q].head # None
               /\ cache'[q].key <= Len(log)
               /\ cache'[q].key = Len(log) =>
                    Len(log) > 0 /\ cache'[q].head = log[Len(log)].id
    <3>1. cache[q] \in Chain
      BY <2>1 DEF IInv, TypeOK
    <3>2. cache'[q].key = cache[q].key
      BY <1>1, <2>1, <3>1 DEF Compose, TypeOK, Chain
    <3>3. CASE q # p
      BY <1>1, <2>1, <3>1, <3>3 DEF IInv, CacheSound, Compose, TypeOK, Chain
    <3>4. CASE q = p
      <4>1. cache'[q].head = TailOf(p)
        BY <1>1, <3>1, <3>4 DEF Compose, TypeOK, Chain
      <4>2. cache[p].key = Len(log) => TailOf(p) = cache[p].head
        BY <2>1, <3>2, <3>4, <1>1 DEF TailOf, IInv, CacheSound
      <4> QED
        BY <1>2, <2>1, <3>1, <3>2, <3>4, <4>1, <4>2, <1>1, NoneAssumption
           DEF IInv, CacheSound, Digest
    <3> QED
      BY <3>3, <3>4
  <2> QED
    BY <2>1 DEF CacheSound, Compose
<1> QED
  BY <1>3, <1>4, <1>5, <1>6 DEF IInv

LEMMA SyncKeeps ==
    ASSUME IInv, NEW t \in Threads, Sync(t)
    PROVE  IInv'
<1> DEFINE p == ProcOf[t]
<1>1. p \in Procs /\ TypeOK
  BY ThreadsAssumption DEF IInv
<1>2. /\ log \in Seq(Fragment) /\ Len(log) \in Nat /\ Len(log) > 0
      /\ log[Len(log)].id = digest[t] /\ log[Len(log)].extent = "full"
      /\ digest[t] \in Digest
  BY <1>1 DEF IInv, TypeOK, SyncReady, Sync
<1>3. TypeOK'
  BY <1>1, <1>2 DEF TypeOK, Sync, Leave, Places, Chain
<1>4. Holding' /\ Chained' /\ WriterReady' /\ SyncReady'
  BY <1>1
     DEF IInv, TypeOK, Holding, Chained, WriterReady, SyncReady, Sync, Leave,
         AllFull, Tip, Before
<1>5. CacheSound'
  <2>1. ASSUME NEW q \in Procs, q # p
        PROVE  cache'[q] = cache[q]
    BY <1>1, <2>1 DEF TypeOK, Sync
  <2>2. cache'[p].head = digest[t] /\ cache'[p].key = Len(log)
    BY <1>1 DEF TypeOK, Sync
  <2>3. digest[t] # None
    BY <1>2, NoneAssumption DEF Digest
  <2> QED
    BY <1>1, <1>2, <2>1, <2>2, <2>3 DEF IInv, CacheSound, Sync
<1>6. AckedSurvive'
  BY <1>1, <1>2 DEF IInv, TypeOK, AckedSurvive, Sync
<1> QED
  BY <1>3, <1>4, <1>5, <1>6 DEF IInv

\* Processes that stop leave no lock and no cache behind.
LEMMA StoppedKeeps ==
    ASSUME IInv, NEW P \in SUBSET Procs, Stopped(P),
           UNCHANGED <<log, durable, prev, digest, serial, acked>>
    PROVE  IInv'
BY ThreadsAssumption
   DEF IInv, TypeOK, Holding, Chained, WriterReady, SyncReady, CacheSound, AckedSurvive,
       Stopped, FreshChain, Chain, Places, Before, Tip, AllFull

-----------------------------------------------------------------------------
(* Steps that append a fragment *)

LEMMA WriteKeeps ==
    ASSUME IInv, NEW t \in Threads, NEW extent \in Extents, WriteStep(t, extent)
    PROVE  IInv'
<1> DEFINE new == [id |-> digest[t], prev |-> prev[t], extent |-> extent]
<1>1. /\ TypeOK /\ log \in Seq(Fragment) /\ new \in Fragment
      /\ log' = Append(log, new) /\ pc[t] = "write"
  BY DEF IInv, TypeOK, WriteStep, Appended, Fragment
<1>2. /\ log' \in Seq(Fragment) /\ Len(log) \in Nat /\ Len(log') = Len(log) + 1
      /\ log'[Len(log) + 1] = new
      /\ \A i \in 1..Len(log) : log'[i] = log[i]
  BY <1>1
<1>3. UNCHANGED <<durable, prev, digest, serial, acked>>
  BY DEF WriteStep, Write, ShortWrite, Crash
<1>4. ASSUME NEW u \in Threads, u # t
      PROVE  pc'[u] \in {"idle", "opened"}
  <2>1. pc[u] \in {"idle", "opened"}
    BY <1>1, <1>4 DEF IInv, TypeOK, Holding, Places
  <2> QED
    BY <1>1, <1>4, <2>1 DEF WriteStep, Write, ShortWrite, Leave, Crash, Stopped, TypeOK
<1>5. pc'[t] = "idle" \/ (Write(t) /\ extent = "full" /\ pc'[t] = "sync")
  BY <1>1 DEF WriteStep, Write, ShortWrite, Leave, Crash, Stopped, TypeOK
<1>6. ASSUME NEW q \in Procs
      PROVE  cache'[q] = cache[q] \/ cache'[q] = FreshChain
  BY <1>1, <1>6 DEF WriteStep, Write, ShortWrite, Crash, Stopped, TypeOK
<1>7. TypeOK'
  <2>1. durable' \in 0..Len(log')
    BY <1>1, <1>2, <1>3 DEF TypeOK
  <2>2. /\ flock' \in Threads \cup {NoThread} /\ lock' \in [Procs -> Threads \cup {NoThread}]
        /\ pc' \in [Threads -> Places] /\ cache' \in [Procs -> Chain]
    <3>1. CASE Write(t)
      BY <1>1, <3>1 DEF Write, TypeOK, Places
    <3>2. CASE ShortWrite(t)
      BY <1>1, <3>2, ThreadsAssumption DEF ShortWrite, Leave, TypeOK, Places
    <3>3. CASE Crash(ProcOf[t])
      BY <1>1, <3>3 DEF Crash, Stopped, TypeOK, Places, FreshChain, Chain
    <3> QED
      BY <3>1, <3>2, <3>3 DEF WriteStep
  <2> QED
    BY <1>1, <1>2, <1>3, <2>1, <2>2 DEF TypeOK
<1>8. Holding'
  <2>1. ASSUME pc'[t] = "sync"
        PROVE  flock' = t
    BY <1>1, <1>5, <2>1 DEF Write, IInv, Holding
  <2> QED
    BY <1>4, <1>5, <2>1 DEF Holding
<1>9. Chained'
  <2>1. ASSUME NEW i \in 1..(Len(log) + 1),
               \A j \in 1..(i - 1) : log'[j].extent = "full"
        PROVE  log'[i].prev = Before(log', i)
    <3>1. CASE i \in 1..Len(log)
      BY <1>2, <2>1, <3>1 DEF IInv, Chained, Before
    <3>2. CASE i = Len(log) + 1
      <4>1. AllFull(log)
        BY <1>2, <2>1, <3>2 DEF AllFull
      <4>2. prev[t] = Tip(log)
        BY <1>1, <4>1 DEF IInv, WriterReady
      <4> QED
        BY <1>2, <3>2, <4>2 DEF Tip, Before
    <3> QED
      BY <1>2, <3>1, <3>2
  <2> QED
    BY <1>2, <2>1 DEF Chained
<1>10. WriterReady'
  BY <1>4, <1>5 DEF WriterReady
<1>11. SyncReady'
  BY <1>2, <1>3, <1>4, <1>5 DEF SyncReady
<1>12. CacheSound'
  <2>1. ASSUME NEW q \in Procs, cache'[q].key # None
        PROVE  /\ cache'[q].head # None
               /\ cache'[q].key <= Len(log')
               /\ cache'[q].key # Len(log')
    <3>1. cache'[q] = cache[q] /\ cache[q] \in Chain
      BY <1>1, <1>6, <2>1 DEF FreshChain, TypeOK
    <3> QED
      BY <1>2, <2>1, <3>1 DEF IInv, CacheSound, Chain
  <2> QED
    BY <2>1 DEF CacheSound
<1>13. AckedSurvive'
  BY <1>1, <1>2, <1>3 DEF IInv, TypeOK, AckedSurvive
<1> QED
  BY <1>7, <1>8, <1>9, <1>10, <1>11, <1>12, <1>13 DEF IInv

-----------------------------------------------------------------------------
(* The step that cuts the file *)

\* Replacing one fragment leaves the length and the others alone.
LEMMA ReplaceFragment ==
    ASSUME NEW f \in Seq(Fragment), NEW n \in 1..Len(f), NEW c \in Fragment
    PROVE  /\ [f EXCEPT ![n] = c] \in Seq(Fragment)
           /\ Len([f EXCEPT ![n] = c]) = Len(f)
           /\ [f EXCEPT ![n] = c][n] = c
           /\ \A i \in 1..Len(f) : i # n => [f EXCEPT ![n] = c][i] = f[i]
OBVIOUS

\* What is left of the file agrees with it, but for the extent of its last
\* fragment when that one was not durable.
LEMMA CutShape ==
    ASSUME TypeOK, PowerLoss
    PROVE  \E n \in durable..Len(log) :
             /\ log' \in Seq(Fragment) /\ Len(log') = n
             /\ \A i \in 1..n : log'[i].id = log[i].id /\ log'[i].prev = log[i].prev
             /\ \A i \in 1..n : i < n \/ n = durable => log'[i] = log[i]
<1>1. PICK n \in durable..Len(log) :
         \/ log' = SubSeq(log, 1, n)
         \/ /\ n > durable
            /\ \E extent \in Shortened(log[n].extent) :
                 log' = [SubSeq(log, 1, n) EXCEPT ![n].extent = extent]
  BY DEF PowerLoss
<1>2. /\ log \in Seq(Fragment) /\ durable \in Nat /\ n \in Nat /\ n <= Len(log)
      /\ \A i \in 1..n : log[i] \in Fragment
  BY <1>1 DEF TypeOK
<1>3. /\ SubSeq(log, 1, n) \in Seq(Fragment) /\ Len(SubSeq(log, 1, n)) = n
      /\ \A i \in 1..n : SubSeq(log, 1, n)[i] = log[i]
  BY <1>2
<1>4. CASE log' = SubSeq(log, 1, n)
  BY <1>2, <1>3, <1>4
<1>5. CASE n > durable /\ \E extent \in Shortened(log[n].extent) :
             log' = [SubSeq(log, 1, n) EXCEPT ![n].extent = extent]
  <2>1. PICK extent \in Shortened(log[n].extent) :
           log' = [SubSeq(log, 1, n) EXCEPT ![n].extent = extent]
    BY <1>5
  <2>2. extent \in Extents /\ n \in 1..n
    BY <1>2, <1>5 DEF Shortened, Extents
  <2> DEFINE cut == [log[n] EXCEPT !.extent = extent]
  <2>3. /\ cut \in Fragment /\ cut.id = log[n].id /\ cut.prev = log[n].prev
    BY <1>2, <2>2 DEF Fragment
  <2>4. log' = [SubSeq(log, 1, n) EXCEPT ![n] = cut]
    BY <1>3, <2>1, <2>2
  <2>5. /\ log' \in Seq(Fragment) /\ Len(log') = n /\ log'[n] = cut
        /\ \A i \in 1..n : i # n => log'[i] = log[i]
    <3> DEFINE kept == SubSeq(log, 1, n)
    <3>1. kept \in Seq(Fragment) /\ n \in 1..Len(kept) /\ log' = [kept EXCEPT ![n] = cut]
      BY <1>3, <2>2, <2>4
    <3>2. \A i \in 1..n : kept[i] = log[i]
      BY <1>3
    <3> HIDE DEF cut, kept
    <3>3. /\ log' \in Seq(Fragment) /\ Len(log') = Len(kept) /\ log'[n] = cut
          /\ \A i \in 1..Len(kept) : i # n => log'[i] = kept[i]
      BY <2>3, <3>1, ReplaceFragment
    <3>4. Len(kept) = n
      BY <1>3 DEF kept
    <3> QED
      BY <3>2, <3>3, <3>4
  <2>6. \A i \in 1..n : log'[i].id = log[i].id /\ log'[i].prev = log[i].prev
    <3> HIDE DEF cut
    <3> QED
      BY <2>2, <2>3, <2>5
  <2>7. \A i \in 1..n : i < n \/ n = durable => log'[i] = log[i]
    BY <1>2, <1>5, <2>5
  <2> QED
    BY <2>5, <2>6, <2>7
<1> QED
  BY <1>1, <1>4, <1>5

LEMMA PowerLossKeeps ==
    ASSUME IInv, PowerLoss
    PROVE  IInv'
<1>1. PICK n \in durable..Len(log) :
             /\ log' \in Seq(Fragment) /\ Len(log') = n
             /\ \A i \in 1..n : log'[i].id = log[i].id /\ log'[i].prev = log[i].prev
             /\ \A i \in 1..n : i < n \/ n = durable => log'[i] = log[i]
  BY CutShape DEF IInv
<1>2. /\ UNCHANGED <<durable, prev, digest, serial, acked>>
      /\ pc' = [t \in Threads |-> "idle"]
      /\ lock' = [p \in Procs |-> NoThread]
      /\ cache' = [p \in Procs |-> FreshChain]
      /\ flock' = NoThread
  BY ThreadsAssumption DEF PowerLoss, Stopped, IInv, TypeOK
<1>3. log \in Seq(Fragment) /\ durable \in Nat /\ n \in Nat /\ n <= Len(log) /\ durable <= n
  BY <1>1 DEF IInv, TypeOK
<1>4. TypeOK'
  BY <1>1, <1>2, <1>3 DEF IInv, TypeOK, FreshChain, Chain, Places
<1>5. Holding' /\ WriterReady' /\ SyncReady'
  BY <1>2 DEF Holding, WriterReady, SyncReady
<1>6. CacheSound'
  BY <1>2 DEF CacheSound, FreshChain
<1>7. Chained'
  BY <1>1, <1>3 DEF IInv, Chained, Before
<1>8. AckedSurvive'
  BY <1>1, <1>2, <1>3 DEF IInv, AckedSurvive
<1> QED
  BY <1>4, <1>5, <1>6, <1>7, <1>8 DEF IInv

-----------------------------------------------------------------------------
(* The inductive invariant *)

LEMMA QuietKeeps ==
    ASSUME IInv, QuietStep
    PROVE  IInv'
<1>1. ASSUME NEW p \in Procs, Crash(p), UNCHANGED log
      PROVE  IInv'
  BY <1>1, StoppedKeeps DEF Crash
<1>2. ASSUME UNCHANGED vars
      PROVE  IInv'
  BY <1>2
     DEF vars, IInv, TypeOK, Holding, Chained, WriterReady, SyncReady, CacheSound,
         AckedSurvive, Before, Tip, AllFull
<1> QED
  BY <1>1, <1>2, EnterKeeps, FlockKeeps, ComposeKeeps, SyncKeeps, FailKeeps DEF QuietStep

LEMMA NextKeeps == IInv /\ [Next]_vars => IInv'
BY StepShapes, QuietKeeps, WriteKeeps, PowerLossKeeps

LEMMA Invariance == Spec => []IInv
BY InitIInv, NextKeeps, PTL DEF Spec

-----------------------------------------------------------------------------
(* Theorems *)

\* The state of record() and of the file stays within its types.
THEOREM TypeCorrect == Spec => []TypeOK
BY Invariance, PTL DEF IInv

\* Interleaved, crashing and restarting processes never fork the chain: a log
\* that verify() rejects holds a write that fell short.
THEOREM Integrity == Spec => []BrokenOnlyByDamage
<1>1. ASSUME IInv, AllStand(log)
      PROVE  VerifyOk(log)
  <2>1. log \in Seq(Fragment)
    BY <1>1 DEF IInv, TypeOK
  <2>2. ASSUME NEW i \in 1..Len(log), NEW j \in 1..(i - 1)
        PROVE  log[j].extent = "full"
    BY <1>1, <2>1, <2>2 DEF AllStand, Stands
  <2> QED
    BY <1>1, <2>2 DEF IInv, Chained, VerifyOk
<1> QED
  BY <1>1, Invariance, PTL DEF BrokenOnlyByDamage

\* The cached head of every process is the head it would read from an
\* undamaged file.
THEOREM CacheCorrect == Spec => []CacheAgrees
<1>1. ASSUME IInv, AllStand(log), NEW p \in Procs,
             cache[p].head # None, cache[p].key = Len(log)
      PROVE  cache[p].head = ReadHead(log)
  <2>1. log \in Seq(Fragment)
    BY <1>1 DEF IInv, TypeOK
  <2>2. cache[p].key # None
    BY <1>1, <2>1, NoneAssumption
  <2>3. Len(log) > 0 /\ cache[p].head = log[Len(log)].id
    BY <1>1, <2>2 DEF IInv, CacheSound
  <2> QED
    BY <1>1, <2>1, <2>3, ReadHeadIsTip DEF Tip, Before
<1>2. IInv => CacheAgrees
  BY <1>1 DEF CacheAgrees
<1> QED
  BY <1>2, Invariance, PTL

\* What record() returned for survives every crash and power cut.
THEOREM AckedDurable == Spec => []AckedSurvive
BY Invariance, PTL DEF IInv

\* No append, failure or restart makes a rejected log verify again.
THEOREM DamageIsPermanent == Spec => DamageStays
<1>1. ASSUME IInv, [Next]_vars, ~PowerLoss, VerifyOk(log'),
             ~UNCHANGED log
      PROVE  VerifyOk(log)
  <2>1. log \in Seq(Fragment) /\ TypeOK
    BY <1>1 DEF IInv, TypeOK
  <2>2. ~QuietStep
    BY <1>1 DEF QuietStep, Enter, Flock, Compose, Sync, Fail, vars
  <2>3. PICK t \in Threads, extent \in Extents : WriteStep(t, extent)
    BY <1>1, <2>2, StepShapes
  <2> DEFINE new == [id |-> digest[t], prev |-> prev[t], extent |-> extent]
  <2>4. log' = Append(log, new) /\ new \in Fragment
    BY <2>1, <2>3 DEF WriteStep, Appended, TypeOK, Fragment
  <2>5. Len(log') = Len(log) + 1 /\ \A i \in 1..Len(log) : log'[i] = log[i]
    BY <2>1, <2>4
  <2>6. AllStand(log')
    BY <1>1 DEF VerifyOk
  <2>7. ASSUME NEW i \in 1..Len(log)
        PROVE  log[i].extent = "full"
    BY <2>1, <2>5, <2>6, <2>7 DEF AllStand, Stands
  <2>8. AllStand(log)
    BY <2>1, <2>7 DEF AllStand, Stands
  <2>9. \A i \in 1..Len(log) : log[i].prev = Before(log, i)
    BY <1>1, <2>1, <2>5 DEF VerifyOk, Before
  <2> QED
    BY <2>8, <2>9 DEF VerifyOk
<1>2. ASSUME IInv, [Next]_vars, UNCHANGED log
      PROVE  VerifyOk(log') => VerifyOk(log)
  BY <1>2 DEF VerifyOk, AllStand, Stands, Before
<1>3. IInv /\ [Next]_vars => [~VerifyOk(log) /\ VerifyOk(log') => PowerLoss]_vars
  BY <1>1, <1>2
<1> QED
  BY <1>3, Invariance, PTL DEF Spec, DamageStays

\* The digests of a file form a sequence as long as the file.
LEMMA IdsSequence ==
    ASSUME NEW f \in Seq(Fragment)
    PROVE  /\ [i \in 1..Len(f) |-> f[i].id] \in Seq(Digest)
           /\ Len([i \in 1..Len(f) |-> f[i].id]) = Len(f)
<1>1. \A i \in 1..Len(f) : f[i] \in Fragment
  OBVIOUS
<1>2. \A i \in 1..Len(f) : f[i].id \in Digest
  BY <1>1 DEF Fragment
<1> QED
  BY <1>2

\* Every step of the appenders, their failures, crashes and power cuts is a
\* step of DurableLog: extend at the end, acknowledge the last entry, or lose
\* entries that were never acknowledged.
THEOREM ImplementsDurableLog == Spec => DurableSpec
<1> DEFINE ids == [i \in 1..Len(log) |-> log[i].id]
<1>1. Init => Durable!Init
  <2> SUFFICES ASSUME Init
               PROVE  Durable!Init
    OBVIOUS
  <2>1. Len(log) = 0
    BY DEF Init
  <2> QED
    BY <2>1 DEF Init, Durable!Init
<1>2. IInv /\ [Next]_vars => [Durable!Next]_<<ids, durable, acked>>
  <2> SUFFICES ASSUME IInv, [Next]_vars
               PROVE  [Durable!Next]_<<ids, durable, acked>>
    OBVIOUS
  <2>1. log \in Seq(Fragment) /\ Len(log) \in Nat /\ durable \in 0..Len(log)
    BY DEF IInv, TypeOK
  <2>2. ids \in Seq(Digest) /\ Len(ids) = Len(log)
    BY <2>1, IdsSequence
  <2>3. CASE QuietStep
    <3>1. ASSUME NEW t \in Threads, Sync(t)
          PROVE  Durable!Acknowledge
      <4>1. Len(log) > 0 /\ log[Len(log)].id = digest[t]
        BY <3>1 DEF Sync, IInv, SyncReady
      <4>2. ids[Len(ids)] = digest[t]
        BY <2>1, <2>2, <4>1
      <4>3. ids' = ids
        BY <3>1 DEF Sync
      <4> QED
        BY <2>2, <3>1, <4>1, <4>2, <4>3 DEF Sync, Durable!Acknowledge
    <3>2. ASSUME UNCHANGED <<log, durable, acked>>
          PROVE  UNCHANGED <<ids, durable, acked>>
      BY <3>2
    <3> QED
      BY <2>3, <3>1, <3>2
         DEF QuietStep, Enter, Flock, Compose, Fail, Crash, vars, Durable!Next
  <2>4. ASSUME NEW t \in Threads, NEW extent \in Extents, WriteStep(t, extent)
        PROVE  Durable!Extend
    <3> DEFINE new == [id |-> digest[t], prev |-> prev[t], extent |-> extent]
    <3>1. log' = Append(log, new) /\ new \in Fragment /\ UNCHANGED <<durable, acked>>
      BY <2>4 DEF WriteStep, Appended, Write, ShortWrite, Crash, IInv, TypeOK, Fragment
    <3>2. /\ log' \in Seq(Fragment) /\ Len(log') = Len(log) + 1
          /\ \A i \in 1..Len(log) : log'[i] = log[i]
      BY <2>1, <3>1
    <3>3. ids' \in Seq(Digest) /\ Len(ids') = Len(ids) + 1
      BY <2>2, <3>2, IdsSequence
    <3>4. SubSeq(ids', 1, Len(ids)) = ids
      <4>1. \A i \in 1..Len(ids) : ids'[i] = ids[i]
        BY <2>1, <2>2, <3>2
      <4> HIDE DEF ids
      <4> QED
        BY <2>2, <3>3, <4>1
    <3> QED
      BY <3>1, <3>3, <3>4 DEF Durable!Extend
  <2>5. ASSUME PowerLoss
        PROVE  Durable!Lose
    <3>1. PICK n \in durable..Len(log) :
             /\ log' \in Seq(Fragment) /\ Len(log') = n
             /\ \A i \in 1..n : log'[i].id = log[i].id
      BY <2>5, CutShape DEF IInv
    <3>2. ids' \in Seq(Digest) /\ Len(ids') = n /\ \A i \in 1..n : ids'[i] = ids[i]
      <4>1. ids' \in Seq(Digest) /\ Len(ids') = n
        BY <3>1, IdsSequence
      <4>2. \A i \in 1..n : ids'[i] = log'[i].id /\ ids[i] = log[i].id
        BY <2>1, <3>1
      <4> QED
        BY <3>1, <4>1, <4>2
    <3>3. ids' = SubSeq(ids, 1, n)
      <4> HIDE DEF ids
      <4> QED
        BY <2>1, <2>2, <3>1, <3>2
    <3> QED
      BY <2>2, <2>5, <3>1, <3>3 DEF PowerLoss, Durable!Lose
  <2> QED
    BY <2>3, <2>4, <2>5, StepShapes DEF Durable!Next
<1> QED
  BY <1>1, <1>2, Invariance, PTL DEF Spec, DurableSpec, Durable!Spec

\* The file and the cached head are what record() and verify() take them for.
THEOREM SoundLog == Spec => []LogSound
BY TypeCorrect, Integrity, CacheCorrect, PTL DEF LogSound
=============================================================================

------------------------- MODULE SerialSessionProofs ------------------------
(***************************************************************************)
(* Proofs about SerialSession, for any threads, sizes, limits and numbers  *)
(* of bytes and clears.  Every step does one of four things to the bytes   *)
(* in flight: they rest, one more comes, or the oldest are lost or handed  *)
(* out.  From this follow the count of the bytes, their places and the     *)
(* refinement of SerialStream.  That a query has the input to itself       *)
(* needs the lock besides: only its holder takes bytes, and from the clear *)
(* that was acknowledged on, all that is in flight is younger than the     *)
(* clear and all that was handed out is older.                             *)
(***************************************************************************)
EXTENDS SerialSession, SequenceTheorems, WellFoundedInduction, TLAPS

-----------------------------------------------------------------------------
(* Queues of bytes *)

\* A non-empty set of numbers has a least one.
LEMMA Least ==
    ASSUME NEW T \in SUBSET Nat, T # {}
    PROVE  \E x \in T : \A y \in T : x <= y
  <1>1. PICK x \in T : \A y \in T : <<y, x>> \notin OpToRel(<, Nat)
    BY NatLessThanWellFounded, WFMin
  <1>2. \A y \in T : ~(y < x)
    BY <1>1 DEF OpToRel
  <1>3. x \in Nat /\ \A y \in T : y \in Nat
    OBVIOUS
  <1> QED BY <1>2, <1>3

\* What is cut off, and what is left.
LEMMA Cut ==
    ASSUME NEW S, NEW q \in Seq(S), NEW n \in 0..Len(q)
    PROVE  /\ FirstOf(q, n) \in Seq(S) /\ Len(FirstOf(q, n)) = n
           /\ \A i \in 1..n : FirstOf(q, n)[i] = q[i]
           /\ AfterFirst(q, n) \in Seq(S) /\ Len(AfterFirst(q, n)) = Len(q) - n
           /\ \A i \in 1..Len(q) - n : AfterFirst(q, n)[i] = q[i + n]
  <1>1. Len(q) \in Nat /\ n \in Int /\ n + 1 \in Int /\ Len(q) \in Int
    OBVIOUS
  <1>2. \A i \in 1..n : q[i] \in S
    BY ElementOfSeq
  <1>3. \A i \in n + 1..Len(q) : q[i] \in S
    BY ElementOfSeq
  <1>4. /\ FirstOf(q, n) \in Seq(S) /\ Len(FirstOf(q, n)) = (IF 1 <= n THEN n - 1 + 1 ELSE 0)
        /\ \A i \in 1..n - 1 + 1 : FirstOf(q, n)[i] = q[1 + i - 1]
    BY <1>1, <1>2, SubSeqProperties DEF FirstOf
  <1>5. /\ AfterFirst(q, n) \in Seq(S)
        /\ Len(AfterFirst(q, n)) = (IF n + 1 <= Len(q) THEN Len(q) - (n + 1) + 1 ELSE 0)
        /\ \A i \in 1..Len(q) - (n + 1) + 1 : AfterFirst(q, n)[i] = q[n + 1 + i - 1]
    BY <1>1, <1>3, SubSeqProperties DEF AfterFirst
  <1> QED BY <1>1, <1>4, <1>5

\* The two parts make up the queue.
LEMMA CutJoins ==
    ASSUME NEW S, NEW q \in Seq(S), NEW n \in 0..Len(q)
    PROVE  FirstOf(q, n) \o AfterFirst(q, n) = q
  <1> DEFINE a == FirstOf(q, n)
             b == AfterFirst(q, n)
  <1>1. /\ a \in Seq(S) /\ Len(a) = n /\ (\A i \in 1..n : a[i] = q[i])
        /\ b \in Seq(S) /\ Len(b) = Len(q) - n /\ \A i \in 1..Len(q) - n : b[i] = q[i + n]
    BY Cut
  <1> HIDE DEF a, b
  <1>2. /\ a \o b \in Seq(S) /\ Len(a \o b) = Len(q)
        /\ \A i \in 1..Len(q) : (a \o b)[i] = IF i <= n THEN a[i] ELSE b[i - n]
    BY <1>1, ConcatProperties
  <1>3. \A i \in 1..Len(q) : (a \o b)[i] = q[i]
    BY <1>1, <1>2
  <1>4. a \o b = q
    BY <1>2, <1>3, SeqEqual
  <1> QED BY <1>4 DEF a, b

\* The oldest are the oldest, whatever comes behind.
LEMMA CutFront ==
    ASSUME NEW S, NEW q \in Seq(S), NEW r \in Seq(S), NEW n \in 0..Len(q)
    PROVE  /\ AfterFirst(q \o r, n) = AfterFirst(q, n) \o r
           /\ FirstOf(q \o r, n) = FirstOf(q, n)
  <1> DEFINE all == q \o r
             a == AfterFirst(all, n)
             b == AfterFirst(q, n)
             m == Len(q) + Len(r) - n
  <1>1. /\ all \in Seq(S) /\ Len(all) = Len(q) + Len(r) /\ Len(q) \in Nat /\ Len(r) \in Nat
        /\ \A i \in 1..Len(q) + Len(r) : all[i] = IF i <= Len(q) THEN q[i] ELSE r[i - Len(q)]
    BY ConcatProperties
  <1>2. /\ FirstOf(q, n) \in Seq(S) /\ Len(FirstOf(q, n)) = n
        /\ \A i \in 1..n : FirstOf(q, n)[i] = q[i]
        /\ b \in Seq(S) /\ Len(b) = Len(q) - n
        /\ \A i \in 1..Len(q) - n : b[i] = q[i + n]
    BY Cut
  <1> HIDE DEF all, b
  <1>3. n \in 0..Len(all)
    BY <1>1
  <1>4. /\ FirstOf(all, n) \in Seq(S) /\ Len(FirstOf(all, n)) = n
        /\ \A i \in 1..n : FirstOf(all, n)[i] = all[i]
        /\ a \in Seq(S) /\ Len(a) = Len(all) - n /\ \A i \in 1..Len(all) - n : a[i] = all[i + n]
    BY <1>1, <1>3, Cut
  <1> HIDE DEF a
  <1>5. FirstOf(all, n) = FirstOf(q, n)
    <2>1. ASSUME NEW i \in 1..n PROVE FirstOf(all, n)[i] = FirstOf(q, n)[i]
      <3>1. i \in 1..Len(q) + Len(r) /\ i <= Len(q)
        BY <1>1
      <3>2. FirstOf(all, n)[i] = all[i] /\ FirstOf(q, n)[i] = q[i]
        BY <1>2, <1>4
      <3>3. all[i] = q[i]
        BY <1>1, <3>1
      <3> QED BY <3>2, <3>3
    <2> QED BY <1>2, <1>4, <2>1, SeqEqual
  <1>6. /\ b \o r \in Seq(S) /\ Len(b \o r) = Len(b) + Len(r)
        /\ \A i \in 1..Len(b) + Len(r) :
             (b \o r)[i] = IF i <= Len(b) THEN b[i] ELSE r[i - Len(b)]
    <2>1. b \in Seq(S) /\ r \in Seq(S)
      BY <1>2
    <2> QED BY ONLY <2>1, ConcatProperties
  <1>7. a = b \o r
    <2>1. Len(b) + Len(r) = m /\ Len(a) = m /\ Len(b \o r) = m
      BY <1>1, <1>2, <1>4, <1>6
    <2>2. ASSUME NEW i \in 1..m PROVE a[i] = (b \o r)[i]
      <3>1. a[i] = all[i + n] /\ i + n \in 1..Len(q) + Len(r) /\ i \in 1..Len(b) + Len(r)
        BY <1>1, <1>4, <2>1
      <3>2. CASE i <= Len(b)
        BY <1>1, <1>2, <1>6, <3>1, <3>2
      <3>3. CASE ~(i <= Len(b))
        BY <1>1, <1>2, <1>6, <3>1, <3>3
      <3> QED BY <3>2, <3>3
    <2> QED BY <1>4, <1>6, <2>1, <2>2, SeqEqual
  <1> QED BY <1>5, <1>7 DEF all, a, b

\* Nothing cut off, and everything cut off.
LEMMA CutEnds ==
    ASSUME NEW S, NEW q \in Seq(S)
    PROVE  /\ AfterFirst(q, 0) = q /\ AfterFirst(q, Len(q)) = << >>
           /\ FirstOf(q, 0) = << >> /\ FirstOf(q, Len(q)) = q
  <1>1. Len(q) \in Nat /\ 0 \in 0..Len(q) /\ Len(q) \in 0..Len(q)
    OBVIOUS
  <1>2. Len(AfterFirst(q, Len(q))) = 0 /\ AfterFirst(q, Len(q)) \in Seq(S)
    BY <1>1, Cut
  <1>3. Len(FirstOf(q, 0)) = 0 /\ FirstOf(q, 0) \in Seq(S)
    BY <1>1, Cut
  <1>4. AfterFirst(q, Len(q)) = << >> /\ FirstOf(q, 0) = << >>
    BY <1>2, <1>3, EmptySeq
  <1>5. AfterFirst(q, 0) = q
    <2>1. /\ AfterFirst(q, 0) \in Seq(S) /\ Len(AfterFirst(q, 0)) = Len(q) - 0
          /\ \A i \in 1..Len(q) - 0 : AfterFirst(q, 0)[i] = q[i + 0]
      BY <1>1, Cut
    <2>2. \A i \in 1..Len(q) : AfterFirst(q, 0)[i] = q[i]
      BY <1>1, <2>1
    <2> QED BY <1>1, <2>1, <2>2, SeqEqual
  <1>6. FirstOf(q, Len(q)) = q
    <2>1. /\ FirstOf(q, Len(q)) \in Seq(S) /\ Len(FirstOf(q, Len(q))) = Len(q)
          /\ \A i \in 1..Len(q) : FirstOf(q, Len(q))[i] = q[i]
      BY <1>1, Cut
    <2> QED BY <1>1, <2>1, SeqEqual
  <1> QED BY <1>4, <1>5, <1>6

-----------------------------------------------------------------------------
(* The invariant *)

\* Only the holder of _query_lock is past taking it.
Held == \A t \in Threads : pc[t] \notin {"idle", "lock"} => queryLock = t

\* A reader about to read holds no chunk.
EmptyHanded == reader = "read" => chunk = << >>

\* What is in flight is the newest that arrived, in order, without a gap.
InPlace == \A i \in 1..Len(InFlight) : InFlight[i] = arrived - Len(InFlight) + i

\* All that is in flight came after the last acknowledged clear, and all that
\* was handed out before it.
Fresh == /\ Len(InFlight) <= arrived - mark
         /\ \A i \in 1..Len(out) : out[i] <= mark

\* The clear of this call was acknowledged, and its reply is not read yet.
Cleared(t) ==
    \/ pc[t] = "clearing" /\ completed = requested
    \/ op[t].kind = "query" /\ pc[t] \in {"write", "read"}

Owned == \A t \in Threads : Cleared(t) => Fresh

Counted == completed <= requested /\ mark <= arrived

SessionInv == /\ TypeOK /\ Accounted
              /\ Held /\ EmptyHanded /\ InPlace /\ Owned /\ Counted

\* What a step does to the bytes in flight: nothing, one more, or some of the
\* oldest are gone, given up or handed to a call.
Rests == /\ InFlight' = InFlight
         /\ UNCHANGED <<arrived, out, cleared, dropped>>
Comes == /\ arrived' = arrived + 1 /\ InFlight' = Append(InFlight, arrived + 1)
         /\ UNCHANGED <<out, cleared, dropped>>
Lost(n) == /\ InFlight' = AfterFirst(InFlight, n)
           /\ \/ cleared' = cleared + n /\ dropped' = dropped
              \/ dropped' = dropped + n /\ cleared' = cleared
           /\ UNCHANGED <<arrived, out>>
Handed(n) == /\ InFlight' = AfterFirst(InFlight, n)
             /\ out' = out \o FirstOf(InFlight, n)
             /\ UNCHANGED <<arrived, cleared, dropped>>
Flow == \/ Rests \/ Comes
        \/ \E n \in 0..Len(InFlight) : Lost(n) \/ Handed(n)

\* The bytes in flight, as numbers and as sequences of them.
LEMMA Queues ==
    ASSUME TypeOK
    PROVE  /\ buffer \in Seq(Nat) /\ chunk \in Seq(Nat) /\ tty \in Seq(Nat) /\ out \in Seq(Nat)
           /\ buffer \o chunk \in Seq(Nat) /\ Len(buffer \o chunk) = Len(buffer) + Len(chunk)
           /\ InFlight \in Seq(Nat)
           /\ Len(InFlight) = Len(buffer) + Len(chunk) + Len(tty)
           /\ Len(buffer) \in Nat /\ Len(chunk) \in Nat /\ Len(tty) \in Nat
           /\ Len(InFlight) \in Nat /\ Len(out) \in Nat
  <1>1. 1..arrived \subseteq Nat
    BY DEF TypeOK
  <1>2. buffer \in Seq(Nat) /\ chunk \in Seq(Nat) /\ tty \in Seq(Nat) /\ out \in Seq(Nat)
    BY <1>1, SeqMonotonic DEF TypeOK
  <1>3. buffer \o chunk \in Seq(Nat) /\ Len(buffer \o chunk) = Len(buffer) + Len(chunk)
    BY <1>2, ConcatProperties
  <1>4. InFlight \in Seq(Nat) /\ Len(InFlight) = Len(buffer \o chunk) + Len(tty)
    BY <1>2, <1>3, ConcatProperties DEF InFlight
  <1>5. Len(buffer) \in Nat /\ Len(chunk) \in Nat /\ Len(tty) \in Nat
        /\ Len(InFlight) \in Nat /\ Len(out) \in Nat
    BY <1>2, <1>4, LenProperties
  <1> QED BY <1>2, <1>3, <1>4, <1>5

\* What a read or a scan takes is there to be taken.
LEMMA Lengths ==
    ASSUME TypeOK, NEW c \in Calls
    PROVE  /\ Ready(c) \in 0..Len(buffer)
           /\ Smaller(Len(buffer), c.max) \in 0..Len(buffer)
           /\ LineLength \in 0..Len(buffer)
  <1>1. Len(buffer) \in Nat
    BY Queues
  <1>2. c.max \in Nat
    BY SizesAssumption DEF Calls
  <1>3. Ends \subseteq 1..Len(buffer) /\ Ends \in SUBSET Nat
    BY <1>1 DEF Ends
  <1>4. LineLimit \in Nat
    BY SizesAssumption
  <1>5. ASSUME Ends # {}
        PROVE  (CHOOSE i \in Ends : \A j \in Ends : i <= j) \in 1..Len(buffer)
    BY <1>3, <1>5, Least
  <1>6. Ready(c) \in 0..Len(buffer)
    <2> DEFINE first == CHOOSE i \in Ends : \A j \in Ends : i <= j
    <2>1. Ends # {} => first \in 1..Len(buffer)
      BY <1>5
    <2> HIDE DEF first
    <2>2. Ready(c) = IF ~c.until THEN Smaller(Len(buffer), c.max)
                     ELSE IF Ends = {} THEN 0 ELSE Smaller(first, c.max)
      BY DEF Ready, first
    <2> QED BY <1>1, <1>2, <2>1, <2>2 DEF Smaller
  <1>7. LineLength \in 0..Len(buffer)
    <2> DEFINE near == {i \in Ends : i <= LineLimit}
               first == CHOOSE i \in near : \A j \in near : i <= j
    <2>1. near \in SUBSET Nat /\ near \subseteq 1..Len(buffer)
      BY <1>3
    <2> HIDE DEF near
    <2>2. near # {} => first \in 1..Len(buffer)
      BY <2>1, Least
    <2> HIDE DEF first
    <2>3. LineLength = IF near # {} THEN first
                       ELSE IF Len(buffer) >= LineLimit THEN LineLimit ELSE 0
      BY DEF LineLength, near, first
    <2> QED BY <1>1, <1>4, <2>2, <2>3
  <1> QED BY <1>1, <1>2, <1>6, <1>7 DEF Smaller

\* Handing out the oldest of the buffer hands out the oldest of all.
LEMMA TakeFlow ==
    ASSUME TypeOK, NEW n \in 0..Len(buffer), Take(n),
           UNCHANGED <<arrived, tty, chunk, dropped>>
    PROVE  Handed(n) /\ n \in 0..Len(InFlight)
  <1>1. n \in 0..Len(InFlight)
    BY Queues
  <1>2. AfterFirst(buffer \o (chunk \o tty), n) = AfterFirst(buffer, n) \o (chunk \o tty)
        /\ FirstOf(buffer \o (chunk \o tty), n) = FirstOf(buffer, n)
    <2>1. chunk \o tty \in Seq(Nat)
      BY Queues, ConcatProperties
    <2> QED BY <2>1, Queues, CutFront
  <1>3. ASSUME NEW front \in Seq(Nat)
        PROVE  (front \o chunk) \o tty = front \o (chunk \o tty)
    <2>1. chunk \in Seq(Nat) /\ tty \in Seq(Nat)
      BY Queues
    <2> QED BY ONLY <1>3, <2>1, ConcatAssociative
  <1>4. InFlight = buffer \o (chunk \o tty)
    <2>1. buffer \in Seq(Nat)
      BY Queues
    <2> QED BY <1>3, <2>1 DEF InFlight
  <1>5. InFlight' = AfterFirst(buffer, n) \o (chunk \o tty)
    <2>1. InFlight' = (AfterFirst(buffer, n) \o chunk) \o tty
      BY DEF InFlight, Take
    <2>2. AfterFirst(buffer, n) \in Seq(Nat)
      BY Queues, Cut
    <2>3. (AfterFirst(buffer, n) \o chunk) \o tty = AfterFirst(buffer, n) \o (chunk \o tty)
      BY <1>3, <2>2
    <2> QED BY <2>1, <2>3
  <1> QED BY <1>1, <1>2, <1>4, <1>5 DEF Handed, Take

\* What the reader takes from the port goes from one end of the chunk's place
\* to the other.
LEMMA ReadFlow ==
    ASSUME TypeOK, EmptyHanded, ReaderReads
    PROVE  InFlight' = InFlight
  <1>1. PICK n \in 0..Smaller(Len(tty), ReadChunk) :
          chunk' = FirstOf(tty, n) /\ tty' = AfterFirst(tty, n)
    BY DEF ReaderReads
  <1>2. n \in 0..Len(tty)
    BY SizesAssumption, Queues DEF Smaller
  <1>3. chunk' \in Seq(Nat) /\ tty' \in Seq(Nat) /\ chunk' \o tty' = tty
    BY <1>1, <1>2, Queues, Cut, CutJoins
  <1>4. InFlight' = (buffer \o chunk') \o tty'
    BY DEF InFlight, ReaderReads
  <1>5. (buffer \o chunk') \o tty' = buffer \o (chunk' \o tty')
    <2>1. ASSUME NEW a \in Seq(Nat), NEW b \in Seq(Nat), NEW c \in Seq(Nat)
          PROVE  (a \o b) \o c = a \o (b \o c)
      BY ONLY <2>1, ConcatAssociative
    <2>2. buffer \in Seq(Nat) /\ chunk' \in Seq(Nat) /\ tty' \in Seq(Nat)
      BY <1>3, Queues
    <2> QED BY ONLY <2>1, <2>2
  <1>6. InFlight = buffer \o tty
    <2>1. chunk = << >> /\ buffer \in Seq(Nat)
      BY Queues DEF EmptyHanded, ReaderReads
    <2>2. buffer \o chunk = buffer
      BY <2>1, ConcatEmptySeq
    <2> QED BY <2>2 DEF InFlight
  <1> QED BY <1>3, <1>4, <1>5, <1>6

\* What the limit leaves of the buffer, and what it costs.
LEMMA ExtendFlow ==
    ASSUME TypeOK, Extend, arrived' = arrived
    PROVE  /\ \E n \in 0..Len(InFlight) : Lost(n)
           /\ Len(buffer') <= BufferLimit /\ dropped' \in Nat
           /\ \E n \in 0..Len(buffer \o chunk) : buffer' = AfterFirst(buffer \o chunk, n)
  <1> DEFINE all == buffer \o chunk
             excess == Len(all) - Smaller(Len(all), BufferLimit)
  <1>1. all \in Seq(Nat) /\ Len(all) \in Nat /\ BufferLimit \in Nat /\ tty \in Seq(Nat)
    BY Queues, SizesAssumption
  <1>2. /\ buffer' = LastOf(all, Len(all) - excess) /\ dropped' = dropped + excess
        /\ chunk' = << >> /\ tty' = tty /\ out' = out /\ cleared' = cleared
    BY DEF Extend, ghosts
  <1>3. InFlight = all \o tty /\ InFlight' = (buffer' \o chunk') \o tty'
    BY DEF InFlight
  <1> HIDE DEF all
  <1>4. excess \in 0..Len(all) /\ Len(all) - excess <= BufferLimit
    BY <1>1 DEF Smaller
  <1> HIDE DEF excess
  <1>5. buffer' = AfterFirst(all, excess)
    <2>1. Len(all) - (Len(all) - excess) + 1 = excess + 1
      BY <1>1, <1>4
    <2> QED BY <1>2, <2>1 DEF LastOf, AfterFirst
  <1>6. buffer' \in Seq(Nat) /\ Len(buffer') = Len(all) - excess
    BY <1>1, <1>4, <1>5, Cut
  <1>7. InFlight' = AfterFirst(InFlight, excess)
    <2>1. buffer' \o chunk' = buffer'
      BY <1>2, <1>6, ConcatEmptySeq
    <2>2. AfterFirst(all \o tty, excess) = AfterFirst(all, excess) \o tty
      BY <1>1, <1>4, CutFront
    <2> QED BY <1>2, <1>3, <1>5, <2>1, <2>2
  <1>8. excess \in 0..Len(InFlight) /\ dropped' \in Nat
    <2>1. Len(InFlight) = Len(all) + Len(tty) /\ Len(tty) \in Nat
      BY Queues DEF all
    <2> QED BY <1>1, <1>2, <1>4, <2>1 DEF TypeOK
  <1>9. Lost(excess)
    BY <1>1, <1>2, <1>4, <1>7 DEF Lost, TypeOK
  <1>10. Len(buffer') <= BufferLimit
    BY <1>4, <1>6
  <1> QED BY <1>4, <1>5, <1>8, <1>9, <1>10 DEF all

\* A clear throws away all of it.
LEMMA ClearFlow ==
    ASSUME TypeOK, ClearAll, arrived' = arrived
    PROVE  /\ Lost(Len(InFlight)) /\ Len(InFlight) \in 0..Len(InFlight)
           /\ InFlight' = << >>
  <1>1. InFlight' = << >>
    BY DEF ClearAll, InFlight
  <1>2. AfterFirst(InFlight, Len(InFlight)) = << >> /\ Len(InFlight) \in Nat
    BY Queues, CutEnds
  <1>3. cleared' = cleared + Len(InFlight) /\ dropped' = dropped /\ out' = out
    BY DEF ClearAll
  <1> QED BY <1>1, <1>2, <1>3 DEF Lost

\* A step that leaves the bytes alone.
LEMMA RestFlow ==
    ASSUME UNCHANGED <<arrived, tty, chunk, buffer, dropped, out, cleared>>
    PROVE  Rests
  BY DEF Rests, InFlight

\* The threads' steps, by what they do to the bytes.
LEMMA Shapes ==
    ASSUME TypeOK, NEW t \in Threads, Step(t)
    PROVE  \/ UNCHANGED <<arrived, tty, chunk, buffer, dropped, out, cleared, mark>>
           \/ /\ \E n \in 0..Len(buffer) : Take(n)
              /\ pc[t] \in {"read", "expect", "scan"}
              /\ pc'[t] \in {"idle", "expect", "scan"}
              /\ UNCHANGED <<arrived, tty, chunk, dropped>>
  <1>1. op[t] \in Calls
    BY DEF TypeOK
  <1>2. Ready(op[t]) \in 0..Len(buffer)
        /\ Smaller(Len(buffer), op[t].max) \in 0..Len(buffer)
        /\ LineLength \in 0..Len(buffer)
    BY <1>1, Lengths
  <1>3. CASE ReadTakes(t)
    BY <1>2, <1>3 DEF ReadTakes, input, Return, TypeOK
  <1>4. CASE ReadTimesOut(t)
    BY <1>2, <1>4 DEF ReadTimesOut, input, Return, TypeOK
  <1>5. CASE ExpectScans(t)
    <2>1. pc'[t] \in {"idle", "expect", "scan"}
      BY <1>5 DEF ExpectScans, Return, TypeOK
    <2> QED BY <1>2, <1>5, <2>1 DEF ExpectScans, input
  <1>6. CASE Acquire(t) \/ LockTimesOut(t) \/ Refused(t) \/ ClearRequest(t)
    BY <1>6 DEF Acquire, LockTimesOut, Refused, ClearRequest, input, ghosts
  <1>7. CASE ClearEnds(t) \/ ClearGivesUp(t) \/ Write(t) \/ WriteRaises(t) \/ ExpectTimesOut(t)
    BY <1>7 DEF ClearEnds, ClearGivesUp, Write, WriteRaises, ExpectTimesOut, input, ghosts
  <1> QED BY <1>3, <1>4, <1>5, <1>6, <1>7 DEF Step

\* Every step makes the bytes in flight rest, come, be lost or be handed out.
LEMMA Flows ==
    ASSUME TypeOK, EmptyHanded, [Next]_vars
    PROVE  Flow
  <1>1. CASE Arrive
    <2>1. InFlight' = (buffer \o chunk) \o Append(tty, arrived + 1)
      BY <1>1 DEF Arrive, InFlight
    <2>2. arrived + 1 \in Nat /\ tty \in Seq(Nat) /\ buffer \o chunk \in Seq(Nat)
      BY Queues DEF TypeOK
    <2> DEFINE front == buffer \o chunk
    <2>3. InFlight' = front \o Append(tty, arrived + 1) /\ InFlight = front \o tty
      BY <2>1 DEF InFlight
    <2>4. front \in Seq(Nat)
      BY <2>2
    <2> HIDE DEF front
    <2>5. front \o Append(tty, arrived + 1) = Append(front \o tty, arrived + 1)
      <3> DEFINE last == <<arrived + 1>>
      <3>1. last \in Seq(Nat)
        BY <2>2
      <3>2. Append(tty, arrived + 1) = tty \o last
        BY <2>2, AppendIsConcat
      <3>3. front \o tty \in Seq(Nat)
        BY <2>2, <2>4, ConcatProperties
      <3>4. Append(front \o tty, arrived + 1) = (front \o tty) \o last
        BY <2>2, <3>3, AppendIsConcat
      <3> HIDE DEF last
      <3>5. (front \o tty) \o last = front \o (tty \o last)
        <4>1. tty \in Seq(Nat)
          BY <2>2
        <4> QED BY ONLY <2>4, <3>1, <4>1, ConcatAssociative
      <3> QED BY <3>2, <3>4, <3>5
    <2> QED BY <1>1, <2>3, <2>5 DEF Arrive, ghosts, Comes, Flow
  <1>2. CASE ReaderReads
    <2>1. InFlight' = InFlight
      BY <1>2, ReadFlow
    <2> QED BY <1>2, <2>1 DEF ReaderReads, ghosts, Rests, Flow
  <1>3. CASE ReaderHandles
    <2>1. arrived' = arrived
      BY <1>3 DEF ReaderHandles
    <2>2. CASE requested # completed
      <3>1. ClearAll
        BY <1>3, <2>2 DEF ReaderHandles
      <3> QED BY <2>1, <3>1, ClearFlow DEF Flow
    <2>3. CASE requested = completed
      <3>1. Extend
        BY <1>3, <2>3 DEF ReaderHandles
      <3> QED BY <2>1, <3>1, ExtendFlow DEF Flow
    <2> QED BY <2>2, <2>3
  <1>4. CASE ReaderStops \/ ReaderFails \/ Close \/ \E t \in Threads : \E c \in Calls : Call(t, c)
    <2>1. UNCHANGED <<arrived, tty, chunk, buffer, dropped, out, cleared>>
      BY <1>4 DEF ReaderStops, ReaderFails, Close, Call, input, ghosts
    <2> QED BY <2>1, RestFlow DEF Flow
  <1>5. ASSUME NEW t \in Threads, Step(t)
        PROVE  Flow
    <2>1. CASE UNCHANGED <<arrived, tty, chunk, buffer, dropped, out, cleared>>
      BY <2>1, RestFlow DEF Flow
    <2>2. ASSUME NEW n \in 0..Len(buffer), Take(n), UNCHANGED <<arrived, tty, chunk, dropped>>
          PROVE  Flow
      BY <2>2, TakeFlow DEF Flow
    <2> QED BY <1>5, <2>1, <2>2, Shapes
  <1>6. CASE UNCHANGED vars
    <2>1. UNCHANGED <<arrived, tty, chunk, buffer, dropped, out, cleared>>
      BY <1>6 DEF vars
    <2> QED BY <2>1, RestFlow DEF Flow
  <1> QED BY <1>1, <1>2, <1>3, <1>4, <1>5, <1>6 DEF Next

-----------------------------------------------------------------------------
(* The steps keep the types *)

BytesOK ==
    /\ arrived \in Nat /\ dropped \in Nat /\ cleared \in Nat /\ mark \in Nat
    /\ tty \in Seq(1..arrived) /\ chunk \in Seq(1..arrived)
    /\ buffer \in Seq(1..arrived) /\ out \in Seq(1..arrived)
    /\ Len(buffer) <= BufferLimit

ControlOK ==
    /\ requested \in Nat /\ completed \in Nat
    /\ reader \in {"read", "have", "done"}
    /\ closing \in BOOLEAN /\ failed \in BOOLEAN
    /\ queryLock \in Threads \cup {NoThread}
    /\ pc \in [Threads -> Places]
    /\ op \in [Threads -> Calls]

LEMMA TypeParts == TypeOK <=> BytesOK /\ ControlOK
  BY DEF TypeOK, BytesOK, ControlOK

LEMMA TakeBytes ==
    ASSUME TypeOK, NEW n \in 0..Len(buffer), Take(n),
           UNCHANGED <<arrived, tty, chunk, dropped>>
    PROVE  BytesOK'
  <1>1. /\ FirstOf(buffer, n) \in Seq(1..arrived) /\ AfterFirst(buffer, n) \in Seq(1..arrived)
        /\ Len(AfterFirst(buffer, n)) = Len(buffer) - n
    BY Cut DEF TypeOK
  <1>2. out \o FirstOf(buffer, n) \in Seq(1..arrived)
    BY <1>1, ConcatProperties DEF TypeOK
  <1>3. Len(buffer) - n <= BufferLimit
    BY Queues, SizesAssumption DEF TypeOK
  <1>4. /\ out' = out \o FirstOf(buffer, n) /\ buffer' = AfterFirst(buffer, n)
        /\ cleared' = cleared /\ mark' = mark
    BY DEF Take
  <1> QED BY <1>1, <1>2, <1>3, <1>4 DEF BytesOK, TypeOK

LEMMA BytesStep ==
    ASSUME TypeOK, EmptyHanded, [Next]_vars
    PROVE  BytesOK'
  <1>1. CASE Arrive
    <2>1. arrived' = arrived + 1 /\ arrived' \in Nat /\ 1..arrived \subseteq 1..arrived'
      BY <1>1 DEF Arrive, TypeOK
    <2>2. Seq(1..arrived) \subseteq Seq(1..arrived')
      BY <2>1, SeqMonotonic
    <2>3. Append(tty, arrived + 1) \in Seq(1..arrived')
      <3>1. tty \in Seq(1..arrived') /\ arrived + 1 \in 1..arrived'
        BY <2>1, <2>2 DEF TypeOK
      <3> QED BY <3>1, AppendProperties
    <2>4. /\ chunk' \in Seq(1..arrived') /\ buffer' \in Seq(1..arrived')
          /\ out' \in Seq(1..arrived')
      BY <1>1, <2>2 DEF Arrive, ghosts, TypeOK
    <2> QED BY <1>1, <2>1, <2>3, <2>4 DEF Arrive, ghosts, TypeOK, BytesOK
  <1>2. CASE ReaderReads
    <2>1. PICK n \in 0..Smaller(Len(tty), ReadChunk) :
            chunk' = FirstOf(tty, n) /\ tty' = AfterFirst(tty, n)
      BY <1>2 DEF ReaderReads
    <2>2. n \in 0..Len(tty)
      BY SizesAssumption, Queues DEF Smaller
    <2>3. chunk' \in Seq(1..arrived) /\ tty' \in Seq(1..arrived)
      BY <2>1, <2>2, Cut DEF TypeOK
    <2> QED BY <1>2, <2>3 DEF ReaderReads, ghosts, TypeOK, BytesOK
  <1>3. CASE ReaderHandles
    <2>1. arrived' = arrived
      BY <1>3 DEF ReaderHandles
    <2>2. CASE requested # completed
      <3>1. ClearAll
        BY <1>3, <2>2 DEF ReaderHandles
      <3>2. << >> \in Seq(1..arrived) /\ Len(<< >>) = 0
        OBVIOUS
      <3>3. cleared' \in Nat /\ mark' \in Nat /\ dropped' \in Nat /\ out' = out
        BY <3>1, Queues DEF ClearAll, TypeOK
      <3>4. buffer' = << >> /\ chunk' = << >> /\ tty' = << >>
        BY <3>1 DEF ClearAll
      <3>5. Len(buffer') <= BufferLimit
        BY <3>2, <3>4, SizesAssumption
      <3> QED BY <2>1, <3>2, <3>3, <3>4, <3>5 DEF TypeOK, BytesOK
    <2>3. CASE requested = completed
      <3>1. Extend
        BY <1>3, <2>3 DEF ReaderHandles
      <3>2. Len(buffer') <= BufferLimit /\ dropped' \in Nat
        BY <2>1, <3>1, ExtendFlow
      <3>3. buffer' \in Seq(1..arrived)
        <4>1. PICK n \in 0..Len(buffer \o chunk) : buffer' = AfterFirst(buffer \o chunk, n)
          BY <2>1, <3>1, ExtendFlow
        <4>2. buffer \o chunk \in Seq(1..arrived)
          BY ConcatProperties DEF TypeOK
        <4> QED BY <4>1, <4>2, Cut
      <3>4. chunk' = << >> /\ tty' = tty /\ out' = out /\ cleared' = cleared /\ mark' = mark
        BY <3>1 DEF Extend, ghosts
      <3>5. << >> \in Seq(1..arrived)
        OBVIOUS
      <3> QED BY <2>1, <3>2, <3>3, <3>4, <3>5 DEF TypeOK, BytesOK
    <2> QED BY <2>2, <2>3
  <1>4. CASE ReaderStops \/ ReaderFails \/ Close \/ \E t \in Threads : \E c \in Calls : Call(t, c)
    <2>1. UNCHANGED <<arrived, tty, chunk, buffer, dropped, out, cleared, mark>>
      BY <1>4 DEF ReaderStops, ReaderFails, Close, Call, input, ghosts
    <2> QED BY <2>1 DEF TypeOK, BytesOK
  <1>5. ASSUME NEW t \in Threads, Step(t)
        PROVE  BytesOK'
    <2>1. CASE UNCHANGED <<arrived, tty, chunk, buffer, dropped, out, cleared, mark>>
      BY <2>1 DEF TypeOK, BytesOK
    <2>2. ASSUME NEW n \in 0..Len(buffer), Take(n), UNCHANGED <<arrived, tty, chunk, dropped>>
          PROVE  BytesOK'
      BY <2>2, TakeBytes
    <2> QED BY <1>5, <2>1, <2>2, Shapes
  <1>6. CASE UNCHANGED vars
    BY <1>6 DEF vars, TypeOK, BytesOK
  <1> QED BY <1>1, <1>2, <1>3, <1>4, <1>5, <1>6 DEF Next

LEMMA NoCallTyped == NoCall \in Calls
  <1>1. NoCall \in [kind : {"expect", "clear", "write"}, max : {QuerySize}, until : {FALSE}]
    BY DEF NoCall
  <1> QED BY <1>1 DEF Calls

LEMMA ControlStep ==
    ASSUME TypeOK, [Next]_vars
    PROVE  ControlOK'
  <1> USE DEF TypeOK, ControlOK
  <1>1. ASSUME NEW t \in Threads, Return(t)
        PROVE  /\ pc' \in [Threads -> Places] /\ op' \in [Threads -> Calls]
               /\ queryLock' \in Threads \cup {NoThread}
    BY <1>1, NoCallTyped DEF Return, Places
  <1>2. CASE Arrive
    BY <1>2 DEF Arrive, clears
  <1>3. CASE ReaderReads
    BY <1>3 DEF ReaderReads, clears
  <1>4. CASE ReaderHandles
    <2>1. completed' \in Nat
      BY <1>4 DEF ReaderHandles, ClearAll, Extend
    <2> QED BY <1>4, <2>1 DEF ReaderHandles
  <1>5. CASE ReaderStops \/ ReaderFails \/ Close
    BY <1>5 DEF ReaderStops, ReaderFails, Close, clears, input
  <1>6. ASSUME NEW t \in Threads, NEW c \in Calls, Call(t, c)
        PROVE  ControlOK'
    BY <1>6 DEF Call, clears, input, Places
  <1>7. ASSUME NEW t \in Threads, Step(t)
        PROVE  ControlOK'
    <2> USE DEF clears, input, Places
    <2>1. CASE Acquire(t)
      <3>1. op[t].kind \in {"read", "query", "expect", "clear", "write"}
        BY DEF Calls
      <3>2. Start(op[t].kind) \in Places
        BY <3>1 DEF Start
      <3> QED BY <2>1, <3>2 DEF Acquire
    <2>2. CASE LockTimesOut(t)
      BY <2>2, NoCallTyped DEF LockTimesOut
    <2>3. CASE Refused(t)
      BY <1>1, <2>3 DEF Refused
    <2>4. CASE ClearRequest(t)
      BY <2>4 DEF ClearRequest
    <2>5. CASE ClearEnds(t)
      <3>1. CASE op[t].kind = "query"
        BY <2>5, <3>1 DEF ClearEnds
      <3>2. CASE op[t].kind # "query"
        BY <1>1, <2>5, <3>2 DEF ClearEnds
      <3> QED BY <3>1, <3>2
    <2>6. CASE ClearGivesUp(t)
      BY <1>1, <2>6 DEF ClearGivesUp, Open
    <2>7. CASE Write(t)
      <3>1. CASE op[t].kind = "query"
        BY <2>7, <3>1 DEF Write
      <3>2. CASE op[t].kind # "query"
        BY <1>1, <2>7, <3>2 DEF Write
      <3> QED BY <3>1, <3>2
    <2>8. CASE WriteRaises(t)
      BY <1>1, <2>8 DEF WriteRaises
    <2>9. CASE ReadTakes(t) \/ ReadTimesOut(t)
      BY <1>1, <2>9 DEF ReadTakes, ReadTimesOut
    <2>10. CASE ExpectScans(t)
      <3>1. CASE buffer[LineLength] \in Wanted
        BY <1>1, <2>10, <3>1 DEF ExpectScans
      <3>2. CASE buffer[LineLength] \notin Wanted
        BY <2>10, <3>2 DEF ExpectScans
      <3> QED BY <3>1, <3>2
    <2>11. CASE ExpectTimesOut(t)
      BY <1>1, <2>11 DEF ExpectTimesOut
    <2> QED BY <1>7, <2>1, <2>2, <2>3, <2>4, <2>5, <2>6, <2>7, <2>8, <2>9, <2>10, <2>11 DEF Step
  <1>8. CASE UNCHANGED vars
    BY <1>8 DEF vars
  <1> QED BY <1>2, <1>3, <1>4, <1>5, <1>6, <1>7, <1>8 DEF Next

-----------------------------------------------------------------------------
(* The steps keep the rest of the invariant *)

LEMMA HeldStep ==
    ASSUME TypeOK, Held, [Next]_vars
    PROVE  Held'
  <1> USE DEF Held
  <1>1. CASE UNCHANGED <<queryLock, pc>>
    BY <1>1
  <1>2. CASE Arrive \/ ReaderReads \/ ReaderHandles \/ ReaderStops \/ ReaderFails \/ Close
    BY <1>1, <1>2 DEF Arrive, ReaderReads, ReaderHandles, ReaderStops, ReaderFails, Close
  <1>3. CASE UNCHANGED vars
    BY <1>1, <1>3 DEF vars
  <1>4. ASSUME NEW t \in Threads, NEW c \in Calls, Call(t, c)
        PROVE  Held'
    BY <1>4 DEF Call, TypeOK
  <1>5. ASSUME NEW t \in Threads, pc[t] \notin {"idle", "lock"}, Return(t)
        PROVE  Held'
    BY <1>5, SizesAssumption DEF Return, TypeOK
  <1>6. ASSUME NEW t \in Threads, pc[t] \notin {"idle", "lock"}, queryLock' = queryLock,
               NEW place, pc' = [pc EXCEPT ![t] = place]
        PROVE  Held'
    BY <1>6 DEF TypeOK
  <1>7. ASSUME NEW t \in Threads, Step(t)
        PROVE  Held'
    <2>1. CASE Acquire(t)
      BY <2>1, SizesAssumption DEF Acquire, TypeOK
    <2>2. CASE LockTimesOut(t)
      BY <2>2 DEF LockTimesOut, TypeOK
    <2>3. CASE Refused(t) \/ ClearGivesUp(t) \/ WriteRaises(t) \/ ReadTakes(t)
               \/ ReadTimesOut(t) \/ ExpectTimesOut(t)
      BY <1>5, <2>3 DEF Refused, ClearGivesUp, WriteRaises, ReadTakes, ReadTimesOut,
                        ExpectTimesOut
    <2>4. CASE ClearRequest(t)
      BY <1>6, <2>4 DEF ClearRequest
    <2>5. CASE ClearEnds(t)
      BY <1>5, <1>6, <2>5 DEF ClearEnds
    <2>6. CASE Write(t)
      BY <1>5, <1>6, <2>6 DEF Write
    <2>7. CASE ExpectScans(t)
      <3>1. CASE buffer[LineLength] \in Wanted
        BY <1>5, <2>7, <3>1 DEF ExpectScans
      <3>2. CASE buffer[LineLength] \notin Wanted
        <4> DEFINE place == IF LineLength' > 0 THEN "scan" ELSE "expect"
        <4>1. pc' = [pc EXCEPT ![t] = place] /\ queryLock' = queryLock
              /\ pc[t] \notin {"idle", "lock"}
          BY <2>7, <3>2 DEF ExpectScans
        <4> HIDE DEF place
        <4> QED BY <1>6, <4>1
      <3> QED BY <3>1, <3>2
    <2> QED BY <1>7, <2>1, <2>2, <2>3, <2>4, <2>5, <2>6, <2>7 DEF Step
  <1> QED BY <1>2, <1>3, <1>4, <1>7 DEF Next

LEMMA EmptyHandedStep ==
    ASSUME TypeOK, EmptyHanded, [Next]_vars
    PROVE  EmptyHanded'
  <1> USE DEF EmptyHanded
  <1>1. CASE UNCHANGED <<reader, chunk>>
    BY <1>1
  <1>2. CASE Arrive \/ Close \/ \E t \in Threads : \E c \in Calls : Call(t, c)
    BY <1>1, <1>2 DEF Arrive, Close, Call, input
  <1>3. CASE ReaderReads \/ ReaderStops \/ ReaderFails
    BY <1>3 DEF ReaderReads, ReaderStops, ReaderFails
  <1>4. CASE ReaderHandles
    BY <1>4 DEF ReaderHandles, ClearAll, Extend
  <1>5. ASSUME NEW t \in Threads, Step(t)
        PROVE  EmptyHanded'
    <2>1. UNCHANGED input
      BY <1>5 DEF Step, Acquire, LockTimesOut, Refused, ClearRequest, ClearEnds, ClearGivesUp,
                  Write, WriteRaises, ReadTakes, ReadTimesOut, ExpectScans, ExpectTimesOut
    <2> QED BY <1>1, <2>1 DEF input
  <1>6. CASE UNCHANGED vars
    BY <1>1, <1>6 DEF vars
  <1> QED BY <1>2, <1>3, <1>4, <1>5, <1>6 DEF Next

\* Cutting off the oldest leaves the rest in their places.
LEMMA CutInPlace ==
    ASSUME NEW q \in Seq(Nat), NEW a \in Nat, NEW n \in 0..Len(q),
           \A i \in 1..Len(q) : q[i] = a - Len(q) + i
    PROVE  \A i \in 1..Len(AfterFirst(q, n)) :
             AfterFirst(q, n)[i] = a - Len(AfterFirst(q, n)) + i
  <1> DEFINE r == AfterFirst(q, n)
  <1>1. Len(r) = Len(q) - n /\ \A i \in 1..Len(q) - n : r[i] = q[i + n]
    BY Cut
  <1>2. Len(q) \in Nat
    OBVIOUS
  <1> HIDE DEF r
  <1>3. ASSUME NEW i \in 1..Len(r)
        PROVE  r[i] = a - Len(r) + i
    <2>1. i + n \in 1..Len(q) /\ i \in 1..Len(q) - n
      BY <1>1, <1>2
    <2> QED BY <1>1, <1>2, <2>1
  <1> QED BY <1>3 DEF r

LEMMA InPlaceStep ==
    ASSUME TypeOK, InPlace, Flow
    PROVE  InPlace'
  <1>1. InFlight \in Seq(Nat) /\ Len(InFlight) \in Nat /\ arrived \in Nat
    BY Queues DEF TypeOK
  <1>2. CASE Rests
    BY <1>2 DEF Rests, InPlace
  <1>3. CASE Comes
    <2>1. InFlight' = Append(InFlight, arrived + 1) /\ arrived' = arrived + 1
      BY <1>3 DEF Comes
    <2>2. /\ Len(InFlight') = Len(InFlight) + 1
          /\ \A i \in 1..Len(InFlight) + 1 :
               (InFlight')[i] = IF i <= Len(InFlight) THEN InFlight[i] ELSE arrived + 1
      BY <1>1, <2>1
    <2>3. ASSUME NEW i \in 1..Len(InFlight) + 1
          PROVE  (InFlight')[i] = arrived + 1 - (Len(InFlight) + 1) + i
      <3>1. CASE i <= Len(InFlight)
        BY <1>1, <2>2, <3>1 DEF InPlace
      <3>2. CASE i = Len(InFlight) + 1
        BY <1>1, <2>2, <3>2
      <3> QED BY <1>1, <3>1, <3>2
    <2>4. \A i \in 1..Len(InFlight') : (InFlight')[i] = arrived' - Len(InFlight') + i
      <3> SUFFICES ASSUME NEW i \in 1..Len(InFlight')
                   PROVE  (InFlight')[i] = arrived' - Len(InFlight') + i
        OBVIOUS
      <3>1. i \in 1..Len(InFlight) + 1
        BY <2>2
      <3>2. arrived' - Len(InFlight') + i = arrived + 1 - (Len(InFlight) + 1) + i
        <4>1. arrived' = arrived + 1 /\ Len(InFlight') = Len(InFlight) + 1
          BY <2>1, <2>2
        <4> QED BY ONLY <1>1, <4>1
      <3> QED BY <2>3, <3>1, <3>2
    <2> QED BY <2>4 DEF InPlace
  <1>4. ASSUME NEW n \in 0..Len(InFlight), Lost(n) \/ Handed(n)
        PROVE  InPlace'
    <2>1. InFlight' = AfterFirst(InFlight, n) /\ arrived' = arrived
      BY <1>4 DEF Lost, Handed
    <2>2. \A i \in 1..Len(AfterFirst(InFlight, n)) :
            AfterFirst(InFlight, n)[i] = arrived - Len(AfterFirst(InFlight, n)) + i
      BY <1>1, CutInPlace DEF InPlace
    <2> QED BY <2>1, <2>2 DEF InPlace
  <1> QED BY <1>2, <1>3, <1>4 DEF Flow

LEMMA AccountedStep ==
    ASSUME TypeOK, Accounted, Flow
    PROVE  Accounted'
  <1>1. InFlight \in Seq(Nat) /\ Len(InFlight) \in Nat /\ Len(out) \in Nat /\ out \in Seq(Nat)
    BY Queues
  <1>2. arrived \in Nat /\ cleared \in Nat /\ dropped \in Nat
    BY DEF TypeOK
  <1>3. Len(out) + cleared + dropped + Len(InFlight) = arrived
    BY DEF Accounted
  <1>4. CASE Rests
    <2>1. Len(InFlight') = Len(InFlight) /\ Len(out') = Len(out)
      BY <1>4 DEF Rests
    <2> QED BY <1>3, <1>4, <2>1 DEF Rests, Accounted
  <1>5. CASE Comes
    <2>1. Len(InFlight') = Len(InFlight) + 1 /\ Len(out') = Len(out)
      BY <1>1, <1>5 DEF Comes
    <2> QED BY <1>1, <1>2, <1>3, <1>5, <2>1 DEF Comes, Accounted
  <1>6. ASSUME NEW n \in 0..Len(InFlight), Lost(n)
        PROVE  Accounted'
    <2>1. Len(AfterFirst(InFlight, n)) = Len(InFlight) - n
      BY <1>1, Cut
    <2>2. Len(InFlight') = Len(InFlight) - n /\ Len(out') = Len(out) /\ arrived' = arrived
      BY <1>6, <2>1 DEF Lost
    <2>3. CASE cleared' = cleared + n /\ dropped' = dropped
      BY <1>1, <1>2, <1>3, <2>2, <2>3 DEF Accounted
    <2>4. CASE dropped' = dropped + n /\ cleared' = cleared
      BY <1>1, <1>2, <1>3, <2>2, <2>4 DEF Accounted
    <2> QED BY <1>6, <2>3, <2>4 DEF Lost
  <1>7. ASSUME NEW n \in 0..Len(InFlight), Handed(n)
        PROVE  Accounted'
    <2>1. /\ Len(AfterFirst(InFlight, n)) = Len(InFlight) - n
          /\ FirstOf(InFlight, n) \in Seq(Nat) /\ Len(FirstOf(InFlight, n)) = n
      BY <1>1, Cut
    <2>2. Len(out \o FirstOf(InFlight, n)) = Len(out) + n
      BY <1>1, <2>1, ConcatProperties
    <2>3. Len(InFlight') = Len(InFlight) - n /\ Len(out') = Len(out) + n
      BY <1>7, <2>1, <2>2 DEF Handed
    <2>4. cleared' = cleared /\ dropped' = dropped /\ arrived' = arrived
      BY <1>7 DEF Handed
    <2>5. Len(out) + n + cleared + dropped + (Len(InFlight) - n) = arrived
      BY <1>1, <1>2, <1>3
    <2> QED BY <2>3, <2>4, <2>5 DEF Accounted
  <1> QED BY <1>4, <1>5, <1>6, <1>7 DEF Flow

LEMMA CountedStep ==
    ASSUME TypeOK, Counted, [Next]_vars
    PROVE  Counted'
  <1> USE DEF Counted, TypeOK
  <1>1. CASE UNCHANGED <<requested, completed, mark, arrived>>
    BY <1>1
  <1>2. CASE ReaderReads \/ ReaderStops \/ ReaderFails \/ Close
             \/ \E t \in Threads : \E c \in Calls : Call(t, c)
    BY <1>1, <1>2 DEF ReaderReads, ReaderStops, ReaderFails, Close, Call, input, clears, ghosts
  <1>3. CASE Arrive
    BY <1>3 DEF Arrive, clears, ghosts
  <1>4. CASE ReaderHandles
    BY <1>4 DEF ReaderHandles, ClearAll, Extend, ghosts
  <1>5. ASSUME NEW t \in Threads, Step(t)
        PROVE  Counted'
    <2>1. UNCHANGED input
      BY <1>5 DEF Step, Acquire, LockTimesOut, Refused, ClearRequest, ClearEnds, ClearGivesUp,
                  Write, WriteRaises, ReadTakes, ReadTimesOut, ExpectScans, ExpectTimesOut
    <2>2. mark' = mark
      BY <1>5 DEF Step, Acquire, LockTimesOut, Refused, ClearRequest, ClearEnds, ClearGivesUp,
                  Write, WriteRaises, ReadTakes, ReadTimesOut, ExpectScans, ExpectTimesOut,
                  Take, ghosts
    <2>3. completed' = completed /\ requested' \in {requested, requested + 1}
      BY <1>5 DEF Step, Acquire, LockTimesOut, Refused, ClearRequest, ClearEnds, ClearGivesUp,
                  Write, WriteRaises, ReadTakes, ReadTimesOut, ExpectScans, ExpectTimesOut,
                  clears
    <2> QED BY <2>1, <2>2, <2>3 DEF input
  <1>6. CASE UNCHANGED vars
    BY <1>1, <1>6 DEF vars
  <1> QED BY <1>2, <1>3, <1>4, <1>5, <1>6 DEF Next

\* What is fresh stays fresh while nothing is handed out.
LEMMA FreshKept ==
    ASSUME TypeOK, Fresh, mark' = mark,
           Rests \/ Comes \/ \E n \in 0..Len(InFlight) : Lost(n)
    PROVE  Fresh'
  <1>1. InFlight \in Seq(Nat) /\ Len(InFlight) \in Nat /\ arrived \in Nat /\ mark \in Nat
    BY Queues DEF TypeOK
  <1>2. out' = out
    BY DEF Rests, Comes, Lost
  <1>3. Len(InFlight') <= arrived' - mark'
    <2>1. CASE Rests
      BY <2>1 DEF Rests, Fresh
    <2>2. CASE Comes
      <3>1. Len(InFlight') = Len(InFlight) + 1 /\ arrived' = arrived + 1
        BY <1>1, <2>2 DEF Comes
      <3> QED BY <1>1, <3>1 DEF Fresh
    <2>3. ASSUME NEW n \in 0..Len(InFlight), Lost(n)
          PROVE  Len(InFlight') <= arrived' - mark'
      <3>1. Len(InFlight') = Len(InFlight) - n /\ arrived' = arrived
        BY <1>1, <2>3, Cut DEF Lost
      <3> QED BY <1>1, <3>1 DEF Fresh
    <2> QED BY <2>1, <2>2, <2>3
  <1> QED BY <1>2, <1>3 DEF Fresh

\* An acknowledged clear leaves nothing old.
LEMMA FreshMade ==
    ASSUME TypeOK, ClearAll, arrived' = arrived
    PROVE  Fresh'
  <1>1. InFlight' = << >> /\ mark' = arrived /\ out' = out
    BY ClearFlow DEF ClearAll
  <1>2. \A i \in 1..Len(out) : out[i] <= arrived
    <2>1. ASSUME NEW i \in 1..Len(out) PROVE out[i] \in 1..arrived
      BY ElementOfSeq DEF TypeOK
    <2> QED BY <2>1 DEF TypeOK
  <1>3. Len(InFlight') <= arrived' - mark'
    BY <1>1 DEF TypeOK
  <1> QED BY <1>1, <1>2, <1>3 DEF Fresh

\* A call whose clear counts after another thread's step, or its own, had it
\* counted before.
LEMMA ClearedBefore ==
    ASSUME TypeOK, Counted, NEW u \in Threads, Step(u), NEW t \in Threads, Cleared(t)'
    PROVE  Cleared(t)
  <1> USE DEF Cleared
  <1>1. ASSUME NEW place, pc' = [pc EXCEPT ![u] = place], op' = op,
               UNCHANGED <<requested, completed>>,
               \/ place = "write" /\ pc[u] = "clearing" /\ completed = requested
               \/ place = "read" /\ op[u].kind = "query" /\ pc[u] = "write"
               \/ place \notin {"clearing", "write", "read"}
               \/ place \in {"write", "read"} /\ op[u].kind # "query"
        PROVE  Cleared(t)
    BY <1>1 DEF TypeOK
  <1>2. ASSUME Return(u), UNCHANGED <<requested, completed>>
        PROVE  Cleared(t)
    BY <1>2 DEF Return, TypeOK
  <1>3. CASE Acquire(u)
    <2>1. op[u].kind \in {"read", "query", "expect", "clear", "write"}
      BY DEF TypeOK, Calls
    <2> QED BY <1>1, <1>3, <2>1 DEF Acquire, Start, clears
  <1>4. CASE LockTimesOut(u)
    BY <1>4 DEF LockTimesOut, TypeOK, clears
  <1>5. CASE Refused(u) \/ ClearGivesUp(u) \/ WriteRaises(u) \/ ReadTakes(u)
             \/ ReadTimesOut(u) \/ ExpectTimesOut(u)
    BY <1>2, <1>5 DEF Refused, ClearGivesUp, WriteRaises, ReadTakes, ReadTimesOut,
                      ExpectTimesOut, clears
  <1>6. CASE ClearRequest(u)
    BY <1>6 DEF ClearRequest, TypeOK, Counted
  <1>7. CASE ClearEnds(u)
    <2>1. CASE op[u].kind = "query"
      BY <1>1, <1>7, <2>1 DEF ClearEnds, clears
    <2>2. CASE op[u].kind # "query"
      BY <1>2, <1>7, <2>2 DEF ClearEnds, clears
    <2> QED BY <2>1, <2>2
  <1>8. CASE Write(u)
    <2>1. CASE op[u].kind = "query"
      BY <1>1, <1>8, <2>1 DEF Write, clears
    <2>2. CASE op[u].kind # "query"
      BY <1>2, <1>8, <2>2 DEF Write, clears
    <2> QED BY <2>1, <2>2
  <1>9. CASE ExpectScans(u)
    <2>1. CASE buffer[LineLength] \in Wanted
      BY <1>2, <1>9, <2>1 DEF ExpectScans, clears
    <2>2. CASE buffer[LineLength] \notin Wanted
      <3> DEFINE place == IF LineLength' > 0 THEN "scan" ELSE "expect"
      <3>1. pc' = [pc EXCEPT ![u] = place] /\ op' = op /\ UNCHANGED <<requested, completed>>
        BY <1>9, <2>2 DEF ExpectScans, clears
      <3>2. place \notin {"clearing", "write", "read"}
        OBVIOUS
      <3> HIDE DEF place
      <3> QED BY <1>1, <3>1, <3>2
    <2> QED BY <2>1, <2>2
  <1> QED BY <1>3, <1>4, <1>5, <1>6, <1>7, <1>8, <1>9 DEF Step

LEMMA OwnedStep ==
    ASSUME TypeOK, Held, EmptyHanded, Owned, Counted, [Next]_vars
    PROVE  Owned'
  <1> SUFFICES ASSUME NEW t \in Threads, Cleared(t)'
               PROVE  Fresh'
    BY DEF Owned
  <1>1. ASSUME Cleared(t), mark' = mark, Rests \/ Comes \/ \E n \in 0..Len(InFlight) : Lost(n)
        PROVE  Fresh'
    BY <1>1, FreshKept DEF Owned
  <1>2. ASSUME UNCHANGED <<requested, completed, pc, op>>
        PROVE  Cleared(t)
    BY <1>2 DEF Cleared
  <1>3. CASE Arrive
    <2>1. Flow
      BY <1>3, Flows
    <2>2. ~\E n \in 0..Len(InFlight) : Lost(n) \/ Handed(n)
      BY <1>3 DEF Arrive, Lost, Handed, TypeOK
    <2> QED BY <1>1, <1>2, <1>3, <2>1, <2>2 DEF Arrive, clears, ghosts, Flow
  <1>4. CASE ReaderReads
    <2>1. Rests
      BY <1>4, ReadFlow DEF ReaderReads, ghosts, Rests
    <2> QED BY <1>1, <1>2, <1>4, <2>1 DEF ReaderReads, clears, ghosts
  <1>5. CASE ReaderHandles
    <2>1. arrived' = arrived
      BY <1>5 DEF ReaderHandles
    <2>2. CASE requested # completed
      BY <1>5, <2>1, <2>2, FreshMade DEF ReaderHandles
    <2>3. CASE requested = completed
      <3>1. Extend /\ UNCHANGED <<requested, completed, pc, op>> /\ mark' = mark
        BY <1>5, <2>3 DEF ReaderHandles, Extend, ghosts
      <3>2. \E n \in 0..Len(InFlight) : Lost(n)
        BY <2>1, <3>1, ExtendFlow
      <3> QED BY <1>1, <1>2, <3>1, <3>2
    <2> QED BY <2>2, <2>3
  <1>6. CASE ReaderStops \/ ReaderFails \/ Close \/ UNCHANGED vars
    <2>1. /\ UNCHANGED <<arrived, tty, chunk, buffer, dropped, out, cleared>>
          /\ mark' = mark /\ UNCHANGED <<requested, completed, pc, op>>
      BY <1>6 DEF ReaderStops, ReaderFails, Close, input, ghosts, clears, vars
    <2> QED BY <1>1, <1>2, <2>1, RestFlow
  <1>7. ASSUME NEW u \in Threads, NEW c \in Calls, Call(u, c)
        PROVE  Fresh'
    <2>1. UNCHANGED <<arrived, tty, chunk, buffer, dropped, out, cleared>> /\ mark' = mark
      BY <1>7 DEF Call, input, ghosts
    <2>2. Cleared(t)
      BY <1>7 DEF Call, clears, Cleared, TypeOK
    <2> QED BY <1>1, <2>1, <2>2, RestFlow
  <1>8. ASSUME NEW u \in Threads, Step(u)
        PROVE  Fresh'
    <2>1. Cleared(t)
      BY <1>8, ClearedBefore
    <2>2. CASE UNCHANGED <<arrived, tty, chunk, buffer, dropped, out, cleared, mark>>
      BY <1>1, <2>1, <2>2, RestFlow
    <2>3. ASSUME pc[u] \in {"read", "expect", "scan"}, pc'[u] \in {"idle", "expect", "scan"}
          PROVE  FALSE
      <3>1. t # u
        BY <2>3 DEF Cleared
      <3>2. pc[t] \notin {"idle", "lock"} /\ pc[u] \notin {"idle", "lock"}
        BY <2>1, <2>3 DEF Cleared
      <3> QED BY <3>1, <3>2 DEF Held
    <2> QED BY <1>8, <2>2, <2>3, Shapes
  <1> QED BY <1>3, <1>4, <1>5, <1>6, <1>7, <1>8 DEF Next

-----------------------------------------------------------------------------
(* The theorems *)

LEMMA SessionInitially == Init => SessionInv
  <1> SUFFICES ASSUME Init PROVE SessionInv
    OBVIOUS
  <1>1. << >> \in Seq(1..0) /\ Len(<< >>) = 0
    OBVIOUS
  <1>2. TypeOK
    <2>1. BytesOK
      BY <1>1, SizesAssumption DEF Init, BytesOK
    <2>2. ControlOK
      BY NoCallTyped DEF Init, ControlOK, Places
    <2> QED BY <2>1, <2>2, TypeParts
  <1>3. InFlight = << >> /\ Len(InFlight) = 0
    BY DEF Init, InFlight
  <1>4. Accounted /\ InPlace /\ EmptyHanded
    BY <1>1, <1>3 DEF Init, Accounted, InPlace, EmptyHanded
  <1>5. Held /\ Owned /\ Counted
    BY DEF Init, Held, Owned, Cleared, Counted
  <1> QED BY <1>2, <1>4, <1>5 DEF SessionInv

LEMMA SessionStep == SessionInv /\ [Next]_vars => SessionInv'
  <1> SUFFICES ASSUME SessionInv, [Next]_vars PROVE SessionInv'
    OBVIOUS
  <1>1. TypeOK /\ Accounted /\ Held /\ EmptyHanded /\ InPlace /\ Owned /\ Counted
    BY DEF SessionInv
  <1>2. Flow
    BY <1>1, Flows
  <1>3. BytesOK' /\ ControlOK'
    BY <1>1, BytesStep, ControlStep
  <1>4. TypeOK'
    BY <1>3 DEF TypeOK, BytesOK, ControlOK
  <1>5. Accounted' /\ InPlace'
    BY <1>1, <1>2, AccountedStep, InPlaceStep
  <1>6. Held' /\ EmptyHanded' /\ Counted'
    BY <1>1, HeldStep, EmptyHandedStep, CountedStep
  <1>7. Owned'
    BY <1>1, OwnedStep
  <1> QED BY <1>4, <1>5, <1>6, <1>7 DEF SessionInv

LEMMA SessionAlways == Spec => []SessionInv
  BY SessionInitially, SessionStep, PTL DEF Spec

\* The bytes of the session have their places, and each one the device sent is
\* accounted for: handed to a call, cleared, counted as dropped, or in flight.
THEOREM InputIsSound == Spec => []InputSound
  <1>1. SessionInv => InputSound
    BY DEF SessionInv, InputSound
  <1> QED BY <1>1, SessionAlways, PTL

\* From the acknowledged clear to its reply, a query has the input to itself.
THEOREM QueriesOwnTheirInput == Spec => []QueryOwnsInput
  <1>1. SessionInv => QueryOwnsInput
    <2> SUFFICES ASSUME SessionInv, NEW t \in Threads,
                        op[t].kind = "query", pc[t] \in {"write", "read"}
                 PROVE  /\ \A i \in 1..Len(InFlight) : InFlight[i] > mark
                        /\ \A i \in 1..Len(out) : out[i] <= mark
      BY DEF QueryOwnsInput
    <2>1. Fresh /\ TypeOK /\ InPlace
      BY DEF SessionInv, Owned, Cleared
    <2>2. arrived \in Nat /\ mark \in Nat /\ Len(InFlight) \in Nat
      BY <2>1, Queues DEF TypeOK
    <2>3. ASSUME NEW i \in 1..Len(InFlight) PROVE InFlight[i] > mark
      <3>1. InFlight[i] = arrived - Len(InFlight) + i
        BY <2>1 DEF InPlace
      <3>2. Len(InFlight) <= arrived - mark
        BY <2>1 DEF Fresh
      <3> QED BY <2>2, <3>1, <3>2
    <2> QED BY <2>1, <2>3 DEF Fresh
  <1> QED BY <1>1, SessionAlways, PTL

\* The session keeps the promise of SerialStream: its readers get the bytes in
\* the order they arrived, none twice, and what is given up is the oldest that
\* nobody has read.
THEOREM SessionIsAStream == Spec => StreamSpec
  <1>1. Init => Stream!Init
    BY DEF Init, Stream!Init, InFlight
  <1>2. SessionInv /\ [Next]_vars => [Stream!Next]_<<arrived, InFlight, out>>
    <2> SUFFICES ASSUME SessionInv, [Next]_vars
                 PROVE  Stream!Next \/ UNCHANGED <<arrived, InFlight, out>>
      OBVIOUS
    <2>1. TypeOK /\ Flow
      BY Flows DEF SessionInv
    <2>2. InFlight \in Seq(Nat) /\ Len(InFlight) \in Nat /\ out \in Seq(Nat)
      BY <2>1, Queues
    <2>3. CASE Rests
      BY <2>3 DEF Rests
    <2>4. CASE Comes
      BY <2>4 DEF Comes, Stream!Next, Stream!Arrive
    <2>5. ASSUME NEW n \in 0..Len(InFlight), Lost(n)
          PROVE  Stream!Next \/ UNCHANGED <<arrived, InFlight, out>>
      <3>1. CASE n = 0
        BY <2>2, <2>5, <3>1, CutEnds DEF Lost
      <3>2. CASE n # 0
        <4>1. n \in 1..Len(InFlight)
          BY <2>2, <3>2
        <4>2. Stream!GiveUp(n)
          BY <2>5 DEF Lost, Stream!GiveUp, AfterFirst
        <4> QED BY <4>1, <4>2 DEF Stream!Next
      <3> QED BY <3>1, <3>2
    <2>6. ASSUME NEW n \in 0..Len(InFlight), Handed(n)
          PROVE  Stream!Next \/ UNCHANGED <<arrived, InFlight, out>>
      <3>1. CASE n = 0
        <4>1. out \o << >> = out
          BY <2>2, ConcatEmptySeq
        <4>2. AfterFirst(InFlight, 0) = InFlight /\ FirstOf(InFlight, 0) = << >>
          BY <2>2, CutEnds
        <4> QED BY <2>6, <3>1, <4>1, <4>2 DEF Handed
      <3>2. CASE n # 0
        <4>1. n \in 1..Len(InFlight)
          BY <2>2, <3>2
        <4>2. Stream!Deliver(n)
          BY <2>6 DEF Handed, Stream!Deliver, AfterFirst, FirstOf
        <4> QED BY <4>1, <4>2 DEF Stream!Next
      <3> QED BY <3>1, <3>2
    <2> QED BY <2>1, <2>3, <2>4, <2>5, <2>6 DEF Flow
  <1> QED BY <1>1, <1>2, SessionAlways, PTL DEF Spec, StreamSpec, Stream!Spec, Stream!vars

-----------------------------------------------------------------------------
(* The order of what is read *)

\* What was handed out is older than all that is in flight, and in order.
Behind == \A i \in 1..Len(out) : out[i] <= arrived - Len(InFlight)
InOrder == \A i, j \in 1..Len(out) : i < j => out[i] < out[j]

LEMMA OrderStep ==
    ASSUME TypeOK, InPlace, Behind, InOrder, Flow
    PROVE  Behind' /\ InOrder'
  <1>1. /\ InFlight \in Seq(Nat) /\ out \in Seq(Nat) /\ arrived \in Nat
        /\ Len(InFlight) \in Nat /\ Len(out) \in Nat
    BY Queues DEF TypeOK
  <1>2. \A i \in 1..Len(out) : out[i] \in Nat
    BY <1>1
  <1>3. CASE Rests
    BY <1>3 DEF Rests, Behind, InOrder
  <1>4. CASE Comes
    <2>1. Len(InFlight') = Len(InFlight) + 1 /\ arrived' = arrived + 1 /\ out' = out
      BY <1>1, <1>4 DEF Comes
    <2>2. arrived' - Len(InFlight') = arrived - Len(InFlight)
      BY <1>1, <2>1
    <2> QED BY <2>1, <2>2 DEF Behind, InOrder
  <1>5. ASSUME NEW n \in 0..Len(InFlight), Lost(n)
        PROVE  Behind' /\ InOrder'
    <2>1. Len(InFlight') = Len(InFlight) - n /\ arrived' = arrived /\ out' = out
      BY <1>1, <1>5, Cut DEF Lost
    <2>2. ASSUME NEW i \in 1..Len(out) PROVE out[i] <= arrived - (Len(InFlight) - n)
      BY <1>1, <1>2 DEF Behind
    <2> QED BY <2>1, <2>2 DEF Behind, InOrder
  <1>6. ASSUME NEW n \in 0..Len(InFlight), Handed(n)
        PROVE  Behind' /\ InOrder'
    <2> DEFINE given == FirstOf(InFlight, n)
               oldest == arrived - Len(InFlight)
    <2>1. /\ Len(AfterFirst(InFlight, n)) = Len(InFlight) - n
          /\ given \in Seq(Nat) /\ Len(given) = n
          /\ \A i \in 1..n : given[i] = InFlight[i]
      BY <1>1, Cut
    <2> HIDE DEF given
    <2>2. \A i \in 1..n : given[i] = oldest + i
      <3>1. \A i \in 1..n : i \in 1..Len(InFlight)
        BY <1>1
      <3> QED BY <2>1, <3>1 DEF InPlace
    <2>3. /\ Len(out \o given) = Len(out) + n
          /\ \A i \in 1..Len(out) + n :
               (out \o given)[i] = IF i <= Len(out) THEN out[i] ELSE given[i - Len(out)]
      BY <1>1, <2>1, ConcatProperties
    <2>4. /\ out' = out \o given /\ arrived' = arrived
          /\ Len(InFlight') = Len(InFlight) - n
      BY <1>6, <2>1 DEF Handed, given
    <2>5. oldest \in Int /\ \A i \in 1..Len(out) : out[i] <= oldest
      BY <1>1 DEF Behind
    <2> DEFINE all == out \o given
    <2>6. ASSUME NEW i \in 1..Len(out) + n
          PROVE  IF i <= Len(out) THEN all[i] = out[i] ELSE all[i] = oldest + (i - Len(out))
      <3>1. CASE i <= Len(out)
        BY <2>3, <3>1
      <3>2. CASE ~(i <= Len(out))
        <4>1. i - Len(out) \in 1..n
          BY <1>1, <3>2
        <4> QED BY <2>2, <2>3, <3>2, <4>1
      <3> QED BY <3>1, <3>2
    <2> HIDE DEF all, oldest
    <2>7. \A i \in 1..Len(out) + n : all[i] <= oldest + n
      <3>1. ASSUME NEW i \in 1..Len(out) + n PROVE all[i] <= oldest + n
        <4>1. CASE i <= Len(out)
          <5>1. i \in 1..Len(out) /\ all[i] = out[i]
            BY <1>1, <2>6, <4>1
          <5>2. out[i] <= oldest /\ out[i] \in Nat
            BY <1>2, <2>5, <5>1
          <5> QED BY <2>5, <5>1, <5>2
        <4>2. CASE ~(i <= Len(out))
          <5>1. all[i] = oldest + (i - Len(out)) /\ i - Len(out) <= n
            BY <1>1, <2>6, <4>2
          <5> QED BY <1>1, <2>5, <5>1
        <4> QED BY <4>1, <4>2
      <3> QED BY <3>1
    <2>8. ASSUME NEW i \in 1..Len(out) + n, NEW j \in 1..Len(out) + n, i < j
          PROVE  all[i] < all[j]
      <3>1. CASE j <= Len(out)
        BY <1>1, <2>6, <2>8, <3>1 DEF InOrder
      <3>2. CASE i <= Len(out) /\ ~(j <= Len(out))
        BY <1>1, <1>2, <2>5, <2>6, <3>2
      <3>3. CASE ~(i <= Len(out))
        BY <1>1, <2>5, <2>6, <2>8, <3>3
      <3> QED BY <1>1, <2>8, <3>1, <3>2, <3>3
    <2>9. arrived - (Len(InFlight) - n) = oldest + n
      BY <1>1 DEF oldest
    <2>10. Len(out') = Len(out) + n /\ out' = all
           /\ arrived' - Len(InFlight') = oldest + n
      BY <2>3, <2>4, <2>9 DEF all
    <2> QED BY <2>7, <2>8, <2>10 DEF Behind, InOrder
  <1> QED BY <1>3, <1>4, <1>5, <1>6 DEF Flow

\* The calls of a session, whichever threads make them, get its bytes in the
\* order of their arrival: none is handed out twice, and none after a younger one.
THEOREM ReadsAreInOrder == Spec => []InOrder
  <1>1. Init => Behind /\ InOrder
    <2>1. Len(<< >>) = 0
      OBVIOUS
    <2> QED BY <2>1 DEF Init, Behind, InOrder
  <1>2. SessionInv /\ Behind /\ InOrder /\ [Next]_vars => Behind' /\ InOrder'
    BY Flows, OrderStep DEF SessionInv
  <1> QED BY <1>1, <1>2, SessionAlways, PTL DEF Spec
=============================================================================

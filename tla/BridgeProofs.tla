---------------------------- MODULE BridgeProofs ----------------------------
(***************************************************************************)
(* Proofs about the two parts of the serial-to-MQTT bridge, BridgeLoop and *)
(* BridgeRegistry, for any threads, ports and numbers of bridges and of    *)
(* readings.                                                               *)
(*                                                                         *)
(* What a bridge has published is told apart from what it still holds: the *)
(* reading in hand and the pending one are different, and neither was      *)
(* published before.                                                       *)
(*                                                                         *)
(* A bridge goes through audit, begin and thread in the hands of one       *)
(* thread, then it is alive, then stopped; the registry overlooks it only  *)
(* at "thread", and `missed' keeps what was overlooked.                    *)
(***************************************************************************)
EXTENDS BridgeLoop, BridgeRegistry, TLAPS

-----------------------------------------------------------------------------
(* One bridge *)

\* The places at which the thread has a reading in hand.
InHand == {"offer", "send", "publish"}

Published(r) == \E i \in 1..Len(published) : published[i] = r

\* The reading in hand and the pending one are not published yet.
Unsent ==
    /\ place \in InHand => payload # NoReading /\ payload # pending /\ ~Published(payload)
    /\ pending # NoReading => ~Published(pending)

\* Who has asked a bridge to stop has seen or named a reason first.
StopNamed ==
    /\ stopping \/ stopper = "setting" \/ place = "set" => stopReason # "none"
    /\ stopper \in {"joining", "returned"} \/ place \in {"ending", "dead"} => stopping

\* The reason that is named is one that was given.
ReasonGiven ==
    /\ place \in {"name", "set"} => why # "none"
    /\ why # "none" => place \in {"name", "set", "ending", "dead"}
    /\ stopReason \in {"none", why} \/ (stopReason = "requested" /\ stopper # "idle")
    /\ recorded # "no" => place = "dead"

LoopInv ==
    /\ LoopTypeOK /\ Unsent /\ PublishedOnce
    /\ StopNamed /\ ReasonGiven /\ EndHasReason
    /\ EveryReadingCounted

-----------------------------------------------------------------------------

LEMMA LoopInitially == LoopInit => LoopInv
  <1> SUFFICES ASSUME LoopInit PROVE LoopInv
    OBVIOUS
  <1>1. published \in Seq(1..readings) /\ Len(published) = 0
    BY DEF LoopInit
  <1>2. LoopTypeOK
    <2>1. published \in Seq(1..readings)
      BY <1>1
    <2>2. readings = 0 /\ payload = 0 /\ pending = 0 /\ dropped = 0 /\ errors \in 0..KeptErrors
      BY KeptErrorsAssumption DEF LoopInit, NoReading
    <2>3. due \in BOOLEAN /\ over \in BOOLEAN /\ stopping \in BOOLEAN
      BY DEF LoopInit
    <2>4. /\ place \in Places /\ after \in {"loop", "expect"}
          /\ why \in Reasons \cup {"none"} /\ stopReason \in Reasons \cup {"none"}
          /\ recorded \in Reasons \cup {"no", "none", "unwritable"}
          /\ stopper \in {"idle", "naming", "setting", "joining", "returned"}
      BY DEF LoopInit, Places
    <2> QED BY <2>1, <2>2, <2>3, <2>4 DEF LoopTypeOK
  <1>3. Unsent /\ PublishedOnce
    BY <1>1 DEF LoopInit, Unsent, PublishedOnce, InHand, NoReading
  <1>4. StopNamed /\ ReasonGiven /\ EndHasReason
    BY DEF LoopInit, StopNamed, ReasonGiven, EndHasReason, Reasons
  <1>5. EveryReadingCounted
    BY <1>1 DEF LoopInit, EveryReadingCounted
  <1> QED BY <1>2, <1>3, <1>4, <1>5 DEF LoopInv

\* The steps of the clock and of serial_bridge_stop.
LEMMA OthersStep ==
    ASSUME LoopInv, RequestStop \/ StopReturns \/ IntervalPasses \/ DurationPasses
    PROVE  LoopInv'
  <1> USE DEF RequestStop, StopRequest, StopReturns, IntervalPasses,
              DurationPasses, stops, counts, LoopInv
  <1>1. LoopTypeOK'
    <2>1. /\ stopReason' \in Reasons \cup {"none"}
          /\ stopper' \in {"idle", "naming", "setting", "joining", "returned"}
      BY DEF LoopTypeOK, Reasons
    <2>2. due' \in BOOLEAN /\ over' \in BOOLEAN /\ stopping' \in BOOLEAN
      BY DEF LoopTypeOK
    <2>3. UNCHANGED <<place, after, payload, readings, pending, why, published, dropped, errors,
                      recorded>>
      OBVIOUS
    <2> QED BY <2>1, <2>2, <2>3 DEF LoopTypeOK
  <1>2. Unsent' /\ PublishedOnce'
    BY DEF Unsent, PublishedOnce, Published
  <1>3. StopNamed' /\ ReasonGiven' /\ EndHasReason'
    BY DEF StopNamed, ReasonGiven, EndHasReason, LoopTypeOK
  <1>4. EveryReadingCounted'
    BY DEF EveryReadingCounted, LoopTypeOK
  <1> QED BY <1>1, <1>2, <1>3, <1>4

LEMMA LoopStep == ASSUME LoopInv, Loop PROVE LoopInv'
  <1> USE DEF Loop, Stop, stops, counts, LoopInv
  <1>a. place' \in Places /\ after' \in {"loop", "expect"} /\ why' \in Reasons \cup {"none"}
    BY DEF LoopTypeOK, Places, Reasons
  <1>b. payload' \in 0..readings /\ pending' \in 0..readings
    <2>1. 0 \in 0..readings /\ pending \in 0..readings /\ payload \in 0..readings
      BY DEF LoopTypeOK
    <2> QED BY <2>1 DEF NoReading
  <1>c. stopping' \in BOOLEAN
    BY DEF LoopTypeOK
  <1>1. LoopTypeOK'
    BY <1>a, <1>b, <1>c DEF LoopTypeOK
  <1>2. Unsent' /\ PublishedOnce'
    BY DEF Unsent, PublishedOnce, Published, InHand, NoReading
  <1>3. StopNamed' /\ ReasonGiven' /\ EndHasReason'
    BY DEF StopNamed, ReasonGiven, EndHasReason, LoopTypeOK, Places
  <1>4. EveryReadingCounted'
    BY DEF EveryReadingCounted, LoopTypeOK, NoReading
  <1> QED BY <1>1, <1>2, <1>3, <1>4

LEMMA Widened ==
    ASSUME NEW m \in Nat, NEW n \in Nat, m <= n, NEW q \in Seq(1..m)
    PROVE  q \in Seq(1..n)
  <1>1. \A i \in 1..Len(q) : q[i] \in 1..n
    OBVIOUS
  <1> QED BY <1>1

LEMMA ExpectStep == ASSUME LoopInv, Expect PROVE LoopInv'
  <1> USE DEF Expect, Stop, stops, counts, LoopInv
  <1>1. LoopTypeOK'
    <2>1. readings' \in Nat /\ readings <= readings' /\ payload' \in 0..readings'
      BY DEF LoopTypeOK
    <2>2. published' \in Seq(1..readings')
      <3>1. published \in Seq(1..readings) /\ published' = published
        BY DEF LoopTypeOK
      <3>2. readings \in Nat
        BY DEF LoopTypeOK
      <3> QED BY <3>1, <3>2, <2>1, Widened
    <2>3. place' \in Places /\ why' \in Reasons \cup {"none"}
      BY DEF LoopTypeOK, Places, Reasons
    <2>4. pending' \in 0..readings'
      BY <2>1 DEF LoopTypeOK
    <2> QED BY <2>1, <2>2, <2>3, <2>4 DEF LoopTypeOK
  <1>2. \A i \in 1..Len(published) : published[i] <= readings
    BY DEF LoopTypeOK
  <1>3. Unsent' /\ PublishedOnce'
    <2>1. PublishedOnce'
      BY DEF PublishedOnce
    <2>2. pending # NoReading => ~Published(pending)
      BY DEF Unsent
    <2>3. pending' = pending /\ published' = published /\ (Published(pending) <=> Published(pending)')
      BY DEF Published
    <2>4. CASE place' = "offer"
      <3>1. payload' = readings + 1
        BY <2>4
      <3>2. payload' # 0 /\ payload' # pending
        BY <3>1 DEF LoopTypeOK
      <3>3. \A i \in 1..Len(published) : published[i] # payload'
        BY <3>1, <1>2 DEF LoopTypeOK
      <3>4. ~Published(payload)'
        BY <2>3, <3>3 DEF Published
      <3>5. Unsent'
        BY <2>2, <2>3, <3>2, <3>4 DEF Unsent, NoReading
      <3> QED BY <3>5, <2>1
    <2>5. CASE place' # "offer"
      <3>1. place' \notin InHand
        BY <2>5 DEF InHand
      <3>2. Unsent'
        BY <2>2, <2>3, <3>1 DEF Unsent
      <3> QED BY <3>2, <2>1
    <2> QED BY <2>1, <2>4, <2>5
  <1>4. StopNamed' /\ ReasonGiven' /\ EndHasReason'
    BY DEF StopNamed, ReasonGiven, EndHasReason, LoopTypeOK, Places
  <1>5. EveryReadingCounted'
    BY DEF EveryReadingCounted, LoopTypeOK, NoReading
  <1> QED BY <1>1, <1>3, <1>4, <1>5

LEMMA OfferStep == ASSUME LoopInv, Offer PROVE LoopInv'
  <1> USE DEF Offer, Keep, stops, counts, LoopInv
  <1>1. LoopTypeOK'
    BY DEF LoopTypeOK, Places
  <1>2. Unsent' /\ PublishedOnce'
    BY DEF Unsent, PublishedOnce, Published, InHand, NoReading
  <1>3. StopNamed' /\ ReasonGiven' /\ EndHasReason'
    BY DEF StopNamed, ReasonGiven, EndHasReason, LoopTypeOK, Places
  <1>4. EveryReadingCounted'
    <2>1. /\ readings \in Nat /\ dropped \in Nat /\ errors \in Nat /\ Len(published) \in Nat
          /\ payload # NoReading
      BY KeptErrorsAssumption DEF LoopTypeOK, Unsent, InHand
    <2>2. CASE place' = "loop" /\ (stopping \/ (dropped' = dropped + 1 /\ pending' = pending))
      BY <2>1, <2>2 DEF EveryReadingCounted
    <2>3. CASE place' = "send" /\ dropped' = dropped /\ pending' = pending
      BY <2>3 DEF EveryReadingCounted
    <2>4. CASE place' = "loop" /\ Keep
      BY <2>1, <2>4 DEF EveryReadingCounted
    <2> QED BY <2>2, <2>3, <2>4
  <1> QED BY <1>1, <1>2, <1>3, <1>4

LEMMA SendStep == ASSUME LoopInv, Send PROVE LoopInv'
  <1> USE DEF Send, stops, counts, LoopInv
  <1>1. LoopTypeOK'
    BY DEF LoopTypeOK, Places
  <1>2. Unsent' /\ PublishedOnce'
    BY DEF Unsent, PublishedOnce, Published, InHand, LoopTypeOK
  <1>3. StopNamed' /\ ReasonGiven' /\ EndHasReason'
    BY DEF StopNamed, ReasonGiven, EndHasReason, LoopTypeOK
  <1>4. EveryReadingCounted'
    <2>1. CASE place' = after /\ stopping
      BY <2>1 DEF EveryReadingCounted
    <2>2. CASE place' = after /\ dropped' = dropped + 1
      <3>1. readings \in Nat /\ dropped \in Nat /\ errors \in Nat /\ Len(published) \in Nat
        BY KeptErrorsAssumption DEF LoopTypeOK
      <3>2. after \notin InHand
        BY DEF LoopTypeOK, InHand
      <3> QED BY <2>2, <3>1, <3>2 DEF EveryReadingCounted, InHand
    <2>3. CASE place' = "publish" /\ dropped' = dropped
      BY <2>3 DEF EveryReadingCounted
    <2> QED BY <2>1, <2>2, <2>3
  <1> QED BY <1>1, <1>2, <1>3, <1>4

LEMMA PublishStep == ASSUME LoopInv, Publish PROVE LoopInv'
  <1> USE DEF Publish, stops, counts, LoopInv
  <1>1. payload \in 1..readings /\ payload # pending /\ ~Published(payload)
    BY DEF Unsent, InHand, LoopTypeOK, NoReading
  <1>2. published \in Seq(1..readings) /\ Len(published) \in Nat
    BY DEF LoopTypeOK
  <1>3. CASE published' = published
    <2>1. LoopTypeOK'
      <3>1. place' \in Places
        BY DEF LoopTypeOK, Places
      <3>2. errors' \in 0..KeptErrors
        BY KeptErrorsAssumption DEF LoopTypeOK
      <3>3. due' \in BOOLEAN
        OBVIOUS
      <3> QED BY <3>1, <3>2, <3>3, <1>3 DEF LoopTypeOK
    <2>2. Unsent' /\ PublishedOnce'
      BY <1>3 DEF Unsent, PublishedOnce, Published, InHand, LoopTypeOK
    <2>3. EveryReadingCounted'
      BY <1>3, <1>2 DEF EveryReadingCounted, LoopTypeOK
    <2> QED BY <2>1, <2>2, <2>3 DEF StopNamed, ReasonGiven, EndHasReason, LoopTypeOK
  <1>4. CASE published' = Append(published, payload) /\ errors' = errors
    <2>1. /\ Len(published') = Len(published) + 1
          /\ published'[Len(published) + 1] = payload
          /\ \A i \in 1..Len(published) : published'[i] = published[i]
          /\ published' \in Seq(1..readings)
      BY <1>1, <1>2, <1>4
    <2>2. LoopTypeOK'
      <3>1. place' \in Places /\ errors' \in 0..KeptErrors /\ due' \in BOOLEAN
        BY <1>4 DEF LoopTypeOK, Places
      <3> QED BY <3>1, <2>1 DEF LoopTypeOK
    <2>3. PublishedOnce'
      BY <1>1, <1>2, <2>1 DEF PublishedOnce, Published
    <2>4. Unsent'
      <3>1. place' \notin InHand /\ pending' = pending
        BY DEF InHand, LoopTypeOK
      <3>2. pending # NoReading => ~Published(pending)
        BY DEF Unsent
      <3>3. pending # NoReading => ~Published(pending)'
        BY <1>1, <1>2, <2>1, <3>1, <3>2 DEF Published
      <3> QED BY <3>1, <3>3 DEF Unsent
    <2>5. EveryReadingCounted'
      <3>1. /\ place' \notin InHand /\ pending' = pending /\ stopping' = stopping
            /\ readings' = readings /\ dropped' = dropped
        BY DEF InHand, LoopTypeOK
      <3>2. readings \in Nat /\ dropped \in Nat /\ errors \in Nat
        BY KeptErrorsAssumption DEF LoopTypeOK
      <3>3. ~stopping =>
              LET counted == Len(published) + dropped + errors
                             + (IF pending # NoReading THEN 1 ELSE 0) + 1
              IN  counted <= readings /\ (errors < KeptErrors => counted = readings)
        BY DEF EveryReadingCounted
      <3> QED BY <1>2, <1>4, <2>1, <3>1, <3>2, <3>3 DEF EveryReadingCounted, InHand
    <2> QED BY <2>2, <2>3, <2>4, <2>5 DEF StopNamed, ReasonGiven, EndHasReason, LoopTypeOK
  <1> QED BY <1>3, <1>4

LEMMA StopItselfStep == ASSUME LoopInv, StopItself PROVE LoopInv'
  <1> USE DEF StopItself, stops, counts, LoopInv
  <1>1. LoopTypeOK'
    BY DEF LoopTypeOK, Places
  <1>2. Unsent' /\ PublishedOnce'
    BY DEF Unsent, PublishedOnce, Published, InHand
  <1>3. StopNamed' /\ ReasonGiven' /\ EndHasReason'
    BY DEF StopNamed, ReasonGiven, EndHasReason
  <1>4. EveryReadingCounted'
    BY DEF EveryReadingCounted
  <1> QED BY <1>1, <1>2, <1>3, <1>4

LEMMA EndStep == ASSUME LoopInv, End PROVE LoopInv'
  <1> USE DEF End, stops, counts, LoopInv
  <1>1. LoopTypeOK'
    BY DEF LoopTypeOK, Places, Reasons
  <1>2. Unsent' /\ PublishedOnce'
    BY DEF Unsent, PublishedOnce, Published, InHand
  <1>3. StopNamed' /\ ReasonGiven' /\ EndHasReason'
    <2>1. /\ stopReason # "none"
          /\ stopReason \in {"none", why} \/ (stopReason = "requested" /\ stopper # "idle")
      BY DEF StopNamed, ReasonGiven
    <2> QED BY <2>1 DEF StopNamed, ReasonGiven, EndHasReason, Reasons
  <1>4. EveryReadingCounted'
    BY DEF EveryReadingCounted, StopNamed
  <1> QED BY <1>1, <1>2, <1>3, <1>4

LEMMA LoopInvStep == LoopInv /\ [LoopNext]_loopVars => LoopInv'
  <1> SUFFICES ASSUME LoopInv, [LoopNext]_loopVars PROVE LoopInv'
    OBVIOUS
  <1>1. CASE UNCHANGED loopVars
    BY <1>1 DEF loopVars, counts, stops, LoopInv, LoopTypeOK, Unsent, Published, PublishedOnce,
                StopNamed, ReasonGiven, EndHasReason, EveryReadingCounted
  <1>2. CASE LoopNext
    BY <1>2, OthersStep, LoopStep, ExpectStep, OfferStep, SendStep, PublishStep,
       StopItselfStep, EndStep
    DEF LoopNext, Run
  <1> QED BY <1>1, <1>2

LEMMA LoopAlways == LoopSpec => []LoopInv
  BY LoopInitially, LoopInvStep, PTL DEF LoopSpec

-----------------------------------------------------------------------------

\* The variables of a bridge always have their types.
THEOREM LoopTypeCorrect == LoopSpec => []LoopTypeOK
  <1>1. LoopInv => LoopTypeOK
    BY DEF LoopInv
  <1> QED BY <1>1, LoopAlways, PTL

\* While a bridge runs, no reading disappears uncounted until as many publishes
\* have failed as it keeps messages, and none is counted twice.
THEOREM ReadingsCounted == LoopSpec => []EveryReadingCounted
  <1>1. LoopInv => EveryReadingCounted
    BY DEF LoopInv
  <1> QED BY <1>1, LoopAlways, PTL

\* No reading is published twice.
THEOREM NoDuplicates == LoopSpec => []PublishedOnce
  <1>1. LoopInv => PublishedOnce
    BY DEF LoopInv
  <1> QED BY <1>1, LoopAlways, PTL

\* The audit record of a bridge's end has a reason that somebody gave, though
\* two may have raced to name one.
THEOREM ReasonRecorded == LoopSpec => []EndHasReason
  <1>1. LoopInv => EndHasReason
    BY DEF LoopInv
  <1> QED BY <1>1, LoopAlways, PTL

\* Nothing is sent once serial_bridge_stop has returned, but what was being
\* sent at that moment.
THEOREM QuietOnceStopped == LoopSpec => QuietAfterStop
  <1>1. LoopInv /\ [LoopNext]_loopVars =>
          [stopper = "returned" /\ place # "publish" => place' # "publish"]_loopVars
    <2> SUFFICES ASSUME LoopInv, LoopNext, stopper = "returned", place # "publish"
                 PROVE  place' # "publish"
      OBVIOUS
    <2>1. stopping /\ after # "publish"
      BY DEF LoopInv, StopNamed, LoopTypeOK
    <2> QED
      BY <2>1 DEF LoopNext, Run, Loop, Expect, Stop, Offer, Send, Publish, StopItself, End,
                  RequestStop, StopReturns, IntervalPasses, DurationPasses
  <1> QED
    BY <1>1, LoopAlways, PTL DEF LoopSpec, QuietAfterStop

\* Readings are counted as long as the kept messages allow, none is published
\* twice, and the end has a reason that was given.
THEOREM SoundReadings == LoopSpec => []ReadingsSound
BY LoopTypeCorrect, ReadingsCounted, NoDuplicates, ReasonRecorded, PTL DEF ReadingsSound

-----------------------------------------------------------------------------
(* The registry of bridges *)

\* A thread has a bridge exactly while it starts one, and its own.
Hands ==
    /\ \A t \in Threads : mine[t] # NoBridge <=> pc[t] \in {"audit", "begin", "thread"}
    /\ \A t, u \in Threads : mine[t] = mine[u] /\ mine[t] # NoBridge => t = u

\* What has happened to the bridge a thread starts.
Stage ==
    \A t \in Threads :
        /\ pc[t] \in {"audit", "begin", "thread"} => mine[t] \notin alive \cup stopped
        /\ pc[t] = "audit" => mine[t] \notin started
        /\ pc[t] \in {"begin", "thread"} => mine[t] \in started
        /\ pc[t] \in {"audit", "begin"} => mine[t] \in registered \ (begun \cup missed)
        /\ pc[t] = "thread" => mine[t] \in begun /\ mine[t] \in registered \cup missed

\* What has happened to every other.
Life ==
    /\ alive \subseteq begun /\ alive \cap stopped = {} /\ stopped \subseteq begun
    /\ alive \subseteq registered \cup missed
    /\ \A b \in registered \ begun : \E t \in Threads : mine[t] = b
    /\ \A b \in begun \ (alive \cup stopped) : \E t \in Threads : mine[t] = b

\* The bridges that hold their port.
Holding == registered \ (missed \cup stopped)

\* They do not share it.
Exclusive ==
    /\ \A b, c \in Holding : built[b] = built[c] => b = c
    /\ \A b \in Holding, t \in Threads : pc[t] = "using" /\ uses[t] = built[b] => b > checked[t]
    /\ \A t \in Threads : checked[t] <= Len(built)

IInv == TypeOK /\ Hands /\ Stage /\ Life /\ StartsAreAudited /\ Exclusive

-----------------------------------------------------------------------------

LEMMA InitIInv == Init => IInv
  <1> SUFFICES ASSUME Init PROVE IInv
    OBVIOUS
  <1> USE DEF Init
  <1>1. TypeOK
    BY DEF TypeOK, NoBridge
  <1>2. Hands /\ Stage
    BY DEF Hands, Stage, NoBridge
  <1>3. Life /\ StartsAreAudited /\ Exclusive
    BY DEF Life, StartsAreAudited, Exclusive, Holding
  <1> QED BY <1>1, <1>2, <1>3 DEF IInv

LEMMA AuditStep == ASSUME IInv, NEW t \in Threads, Audit(t) PROVE IInv'
  <1> USE DEF IInv, Audit
  <1>0. mine[t] \in Bridges
    BY DEF TypeOK, Hands
  <1>1. TypeOK'
    BY <1>0 DEF TypeOK, Bridges, calls
  <1>2. Hands'
    BY DEF TypeOK, Hands
  <1>3. Stage'
    BY DEF TypeOK, Hands, Stage
  <1>4. Life'
    BY DEF TypeOK, Life
  <1>5. StartsAreAudited'
    BY DEF TypeOK, Hands, StartsAreAudited
  <1>6. Exclusive'
    BY DEF TypeOK, Exclusive, Holding, calls
  <1> QED BY <1>1, <1>2, <1>3, <1>4, <1>5, <1>6

LEMMA AuditRefusedStep == ASSUME IInv, NEW t \in Threads, AuditRefused(t) PROVE IInv'
  <1> USE DEF IInv, AuditRefused
  <1>0. mine[t] \in Bridges
    BY DEF TypeOK, Hands
  <1>1. TypeOK'
    BY <1>0 DEF TypeOK, Bridges, calls
  <1>2. Hands'
    BY DEF TypeOK, Hands
  <1>3. Stage'
    BY DEF TypeOK, Hands, Stage
  <1>4. Life'
    BY DEF TypeOK, Hands, Stage, Life
  <1>5. StartsAreAudited'
    BY DEF TypeOK, Hands, StartsAreAudited
  <1>6. Exclusive'
    BY DEF TypeOK, Exclusive, Holding, calls
  <1> QED BY <1>1, <1>2, <1>3, <1>4, <1>5, <1>6

LEMMA BeginStep == ASSUME IInv, NEW t \in Threads, Begin(t) PROVE IInv'
  <1> USE DEF IInv, Begin
  <1>0. mine[t] \in Bridges
    BY DEF TypeOK, Hands
  <1>1. TypeOK'
    BY <1>0 DEF TypeOK, Bridges, calls
  <1>2. Hands'
    BY DEF TypeOK, Hands
  <1>3. Stage'
    BY DEF TypeOK, Hands, Stage
  <1>4. Life'
    BY DEF TypeOK, Hands, Stage, Life
  <1>5. StartsAreAudited'
    BY DEF TypeOK, Hands, StartsAreAudited
  <1>6. Exclusive'
    BY DEF TypeOK, Exclusive, Holding, calls
  <1> QED BY <1>1, <1>2, <1>3, <1>4, <1>5, <1>6

LEMMA StartThreadStep == ASSUME IInv, NEW t \in Threads, StartThread(t) PROVE IInv'
  <1> USE DEF IInv, StartThread
  <1>0. mine[t] \in Bridges
    BY DEF TypeOK, Hands
  <1>1. TypeOK'
    BY <1>0 DEF TypeOK, Bridges, calls
  <1>2. Hands'
    BY DEF TypeOK, Hands
  <1>3. Stage'
    BY DEF TypeOK, Hands, Stage
  <1>4. Life'
    BY DEF TypeOK, Hands, Stage, Life
  <1>5. StartsAreAudited'
    BY DEF TypeOK, Hands, Stage, StartsAreAudited
  <1>6. Exclusive'
    BY DEF TypeOK, Exclusive, Holding, calls
  <1> QED BY <1>1, <1>2, <1>3, <1>4, <1>5, <1>6

LEMMA FinishStep == ASSUME IInv, NEW b \in Bridges, Finish(b) PROVE IInv'
  <1> USE DEF IInv, Finish
  <1>1. TypeOK'
    BY DEF TypeOK, Bridges, calls
  <1>2. Hands'
    BY DEF Hands
  <1>3. Stage'
    BY DEF TypeOK, Hands, Stage
  <1>4. Life'
    BY DEF TypeOK, Hands, Stage, Life
  <1>5. StartsAreAudited'
    BY DEF TypeOK, StartsAreAudited
  <1>6. Exclusive'
    BY DEF TypeOK, Exclusive, Holding, calls
  <1> QED BY <1>1, <1>2, <1>3, <1>4, <1>5, <1>6

\* A bridge that holds its port is active, or starts its thread.
LEMMA HoldingIsSeen ==
    ASSUME IInv, NEW b \in Holding PROVE b \in Active \cup Hidden
  <1>1. CASE b \notin begun \/ b \in alive
    BY <1>1 DEF Holding, Active, Running
  <1>2. CASE b \in begun \ alive
    <2>1. PICK t \in Threads : mine[t] = b
      BY <1>2 DEF IInv, Life, Holding
    <2>2. b # NoBridge
      BY DEF IInv, TypeOK, Bridges, Holding, NoBridge
    <2>3. pc[t] = "thread"
      BY <1>2, <2>1, <2>2 DEF IInv, Hands, Stage
    <2> QED BY <2>1, <2>3 DEF Hidden, Holding
  <1> QED BY <1>1, <1>2

LEMMA UseSessionStep ==
    ASSUME IInv, NEW t \in Threads, NEW p \in Ports, UseSession(t, p) PROVE IInv'
  <1> USE DEF IInv, UseSession
  <1>0. Len(built) \in Nat /\ Hidden \subseteq Bridges
    BY DEF TypeOK, Hidden
  <1>1. TypeOK'
    BY <1>0 DEF TypeOK, Bridges, bridgeVars
  <1>2. Hands'
    BY DEF TypeOK, Hands, bridgeVars
  <1>3. Stage'
    <2>1. \A u \in Threads : pc[u] \in {"audit", "begin"} => mine[u] \notin Hidden
      BY DEF TypeOK, Hands, Stage, Hidden
    <2> QED BY <2>1 DEF TypeOK, Hands, Stage, bridgeVars
  <1>4. Life'
    BY DEF Life, bridgeVars
  <1>5. StartsAreAudited'
    BY DEF TypeOK, StartsAreAudited, bridgeVars
  <1>6. \A b \in Holding' : built[b] # p
    BY HoldingIsSeen DEF Holding, bridgeVars, Taken, Active
  <1>7. Exclusive'
    BY <1>6 DEF TypeOK, Exclusive, Holding, bridgeVars
  <1> QED BY <1>1, <1>2, <1>3, <1>4, <1>5, <1>7

LEMMA DoneUsingStep == ASSUME IInv, NEW t \in Threads, DoneUsing(t) PROVE IInv'
  <1> USE DEF IInv, DoneUsing, bridgeVars, calls
  <1>1. TypeOK'
    BY DEF TypeOK, Bridges
  <1>2. Hands' /\ Stage' /\ Life'
    BY DEF TypeOK, Hands, Stage, Life
  <1>3. StartsAreAudited' /\ Exclusive'
    BY DEF TypeOK, StartsAreAudited, Exclusive, Holding
  <1> QED BY <1>1, <1>2, <1>3

\* The bridges built before are what they were, and the new one is new.
LEMMA Grown ==
    ASSUME IInv, NEW p \in Ports, built' = Append(built, p)
    PROVE  /\ built' \in Seq(Ports) /\ Len(built) \in Nat /\ Len(built') = Len(built) + 1
           /\ Bridges' = Bridges \cup {Len(built) + 1}
           /\ \A b \in Bridges : built'[b] = built[b] /\ b <= Len(built) /\ b \in Nat
           /\ built'[Len(built) + 1] = p /\ Len(built) + 1 \notin Bridges
           /\ Len(built) + 1 # NoBridge
  <1>1. built \in Seq(Ports)
    BY DEF IInv, TypeOK
  <1> QED BY <1>1 DEF Bridges, NoBridge

\* A bridge of the port is refused, or one too many: it is built in vain.
LEMMA ReserveRefused ==
    ASSUME IInv, NEW p \in Ports, built' = Append(built, p),
           UNCHANGED <<registered, begun, alive, started, stopped, pc, mine, calls, missed>>
    PROVE  IInv'
  <1> USE Grown DEF IInv, calls
  <1>1. TypeOK'
    BY DEF TypeOK
  <1>2. Hands' /\ Stage' /\ Life' /\ StartsAreAudited'
    BY DEF Hands, Stage, Life, StartsAreAudited
  <1>3. Exclusive'
    <2>1. Holding' = Holding /\ \A b \in Holding : built'[b] = built[b]
      <3>1. Holding \subseteq Bridges
        BY DEF Holding, TypeOK
      <3> QED BY <3>1 DEF Holding
    <2>2. \A t \in Threads : checked'[t] <= Len(built')
      BY DEF TypeOK, Exclusive
    <2>3. \A b, c \in Holding' : built'[b] = built'[c] => b = c
      <3>1. \A b, c \in Holding : built[b] = built[c] => b = c
        BY DEF Exclusive
      <3> QED BY ONLY <2>1, <3>1
    <2>4. \A b \in Holding', t \in Threads :
            pc'[t] = "using" /\ uses'[t] = built'[b] => b > checked'[t]
      <3>1. pc' = pc /\ uses' = uses /\ checked' = checked
        OBVIOUS
      <3> QED BY <2>1, <3>1 DEF Exclusive
    <2> QED BY <2>2, <2>3, <2>4 DEF Exclusive
  <1> QED BY <1>1, <1>2, <1>3

LEMMA ReserveGranted ==
    ASSUME IInv, NEW t \in Threads, NEW p \in Ports, NEW n, n = Len(built) + 1,
           pc[t] = "idle", ~Taken(p), built' = Append(built, p),
           registered' = Active \cup {n}, mine' = [mine EXCEPT ![t] = n],
           pc' = [pc EXCEPT ![t] = "audit"], missed' = missed \cup Hidden,
           UNCHANGED <<begun, alive, started, stopped, calls>>
    PROVE  IInv'
  <1> USE Grown DEF IInv, calls
  <1>0. Active \subseteq registered /\ Hidden \subseteq registered
    BY DEF Active, Hidden
  <1>1. TypeOK'
    BY <1>0 DEF TypeOK
  <1>2. \A u \in Threads : mine[u] # n
    BY DEF TypeOK
  <1>3. Hands'
    BY <1>2 DEF TypeOK, Hands
  <1>4. n \notin registered \cup begun \cup alive \cup started \cup stopped \cup missed
    BY DEF TypeOK
  <1>5. Stage'
    <2>1. SUFFICES ASSUME NEW u \in Threads, u # t
                   PROVE  /\ pc[u] \in {"audit", "begin"} =>
                               mine[u] \in Active /\ mine[u] \notin Hidden
                          /\ pc[u] = "thread" => mine[u] \in Active \cup missed \cup Hidden
      BY <1>0, <1>4 DEF TypeOK, Stage
    <2>2. ASSUME pc[u] \in {"audit", "begin"}
          PROVE  mine[u] \in Active /\ mine[u] \notin Hidden
      <3>1. mine[u] \in registered \ begun
        BY <2>2 DEF Stage
      <3> QED BY <3>1, <2>2 DEF Active, Running, Hidden, Hands, Stage
    <2>3. ASSUME pc[u] = "thread" PROVE mine[u] \in Active \cup missed \cup Hidden
      BY <2>3 DEF Stage, Hidden
    <2> QED BY <2>2, <2>3
  <1>6. Life'
    <2>1. alive \subseteq Active \cup missed
      BY DEF Life, Active, Running
    <2>2. \A b \in (registered \ begun) \cup (begun \ (alive \cup stopped)) :
            \E u \in Threads : mine[u] = b /\ u # t
      <3>1. mine[t] = NoBridge
        BY DEF TypeOK, Hands
      <3>2. \A b \in registered \cup begun : b # NoBridge
        BY DEF TypeOK, Bridges, NoBridge
      <3> QED BY <3>1, <3>2 DEF Life
    <2> QED BY <1>0, <1>4, <2>1, <2>2 DEF Life, TypeOK
  <1>7. StartsAreAudited'
    BY DEF TypeOK, StartsAreAudited
  <1>8. Exclusive'
    <2>1. Holding' \subseteq Holding \cup {n}
      BY <1>0 DEF Holding
    <2>2. \A b \in Holding : b \in Bridges
      BY DEF Holding, TypeOK
    <2>3. \A b \in Holding' \ {n} : b \in Active
      BY DEF Holding
    <2>4. \A b \in Holding' \ {n} : built[b] # p
      BY <2>3 DEF Taken
    <2>5. \A b, c \in Holding' : built'[b] = built'[c] => b = c
      BY <2>1, <2>2, <2>4 DEF Exclusive
    <2>6. \A b \in Holding', u \in Threads :
            pc'[u] = "using" /\ uses'[u] = built'[b] => b > checked'[u]
      <3>1. \A u \in Threads : checked[u] \in Nat /\ checked[u] <= Len(built) /\ n > checked[u]
        BY DEF TypeOK, Exclusive
      <3>2. \A u \in Threads : pc'[u] = "using" => pc[u] = "using"
        BY DEF TypeOK
      <3>3. \A b \in Holding : built'[b] = built[b]
        BY <2>2
      <3>4. \A b \in Holding, u \in Threads :
              pc'[u] = "using" /\ uses[u] = built'[b] => b > checked[u]
        BY <3>2, <3>3 DEF Exclusive
      <3> QED BY <2>1, <3>1, <3>4
    <2>7. \A u \in Threads : checked'[u] <= Len(built')
      BY DEF TypeOK, Exclusive
    <2> QED BY <2>5, <2>6, <2>7 DEF Exclusive
  <1> QED BY <1>1, <1>3, <1>5, <1>6, <1>7, <1>8

LEMMA NextIInv == ASSUME IInv, [Next]_vars PROVE IInv'
  <1>1. ASSUME NEW t \in Threads, NEW p \in Ports, Reserve(t, p) PROVE IInv'
    <2>1. CASE Taken(p) \/ Cardinality(Active) >= MaxBridges
      BY <1>1, <2>1, ReserveRefused DEF Reserve, calls
    <2>2. CASE ~(Taken(p) \/ Cardinality(Active) >= MaxBridges)
      BY <1>1, <2>2, ReserveGranted DEF Reserve
    <2> QED BY <2>1, <2>2
  <1>2. CASE UNCHANGED vars
    BY <1>2 DEF vars, calls, IInv, TypeOK, Bridges, Hands, Stage, Life, StartsAreAudited,
                Exclusive, Holding
  <1> QED
    BY <1>1, <1>2, AuditStep, AuditRefusedStep, BeginStep, StartThreadStep, FinishStep,
       UseSessionStep, DoneUsingStep DEF Next, StartStep

THEOREM Invariant == Spec => []IInv
  BY InitIInv, NextIInv, PTL DEF Spec

-----------------------------------------------------------------------------

\* Every variable has its type.
THEOREM TypeCorrect == Spec => []TypeOK
  <1>1. IInv => TypeOK
    BY DEF IInv
  <1> QED BY <1>1, Invariant, PTL

\* A bridge runs only with its start in the log, and no start that was refused
\* is there; and no port is held by a bridge that nothing runs or starts.
THEOREM SoundStarts == Spec => []StartsSound
  <1>1. IInv => NoPhantomBridge
    BY DEF IInv, Life, NoPhantomBridge, Active, Running
  <1>2. IInv => StartsSound
    BY <1>1 DEF IInv, StartsSound
  <1> QED BY <1>2, Invariant, PTL

\* A bridge that was never overlooked shares its port with no other, and with
\* no serial call but one let through before the bridge was reserved.
THEOREM OnlyRacesShare == Spec => []SharedByRaceOnly
  <1>1. ASSUME IInv PROVE alive \ missed \subseteq Holding
    BY <1>1 DEF IInv, Life, Holding
  <1>2. IInv => SharedByRaceOnly
    BY <1>1 DEF IInv, Exclusive, SharedByRaceOnly
  <1> QED BY <1>2, Invariant, PTL
=============================================================================

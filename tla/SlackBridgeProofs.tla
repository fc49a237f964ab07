-------------------------- MODULE SlackBridgeProofs --------------------------
(***************************************************************************)
(* Proofs about SlackBridge, for any people, mentions and limits.  The      *)
(* memory of the ids is the last SeenLimit of all ids ever marked, and a    *)
(* charge knows the place of its own.                                       *)
(***************************************************************************)
EXTENDS SlackBridge, TLAPS, SequenceTheorems

\* This thread is the only enqueuer: what it found not full stays so.
Roomy ==
    /\ pc \in {"charge", "put"} => Len(jobs) < QueueLimit
    /\ pc \in {"charge", "put"} => event.from \in Listed

Typed == TypeOK /\ Roomy

Oldest == IF marked < SeenLimit THEN marked ELSE SeenLimit

\* A charge's mention is where its place in the order of the ids says, as
\* long as the deque reaches back to it.
Placed(c) ==
    /\ c.at \in 1..marked
    /\ marked - c.at < Len(seen) => seen[Len(seen) - (marked - c.at)] = c.ask

\* What is about to be charged was marked last, and not lately before.
Fresh ==
    pc = "charge" =>
        /\ Len(seen) > 0 /\ seen[Len(seen)] = event
        /\ \A i \in 1..Len(charged) : charged[i].ask = event => marked - charged[i].at > SeenLimit

Marks == Len(seen) = Oldest /\ (\A i \in 1..Len(charged) : Placed(charged[i])) /\ Fresh

\* The worker records what it has posted.
Told == RecordedIsReplied /\ (worker = "audit" => job \in answered)

-----------------------------------------------------------------------------
(* Types *)

LEMMA InitTyped == Init => Typed
  <1> SUFFICES ASSUME Init PROVE Typed
    OBVIOUS
  <1>1. << >> \in Seq(Mentions) /\ << >> \in Seq([ask : Mentions, at : Nat]) /\ Len(<< >>) = 0
    BY EmptySeq
  <1>2. spent \in [Users -> 0..HourlyLimit]
    BY LimitsAssumption DEF Init
  <1> QED BY <1>1, <1>2, LimitsAssumption, NothingAssumption
          DEF Init, Typed, TypeOK, Roomy, Places, WorkPlaces

\* Slack, the clock and the process.
LEMMA OutsideTyped ==
    ASSUME Typed, Crash \/ (\E m \in Mentions : Deliver(m)) \/ \E u \in Users : ChargeExpires(u)
    PROVE  Typed'
  <1> USE DEF Typed, TypeOK, Roomy, slack, main, memory, account, work
  <1>1. CASE Crash
    <2>1. << >> \in Seq(Mentions) /\ << >> \in Seq([ask : Mentions, at : Nat]) /\ Len(<< >>) = 0
      BY EmptySeq
    <2>2. spent' \in [Users -> 0..HourlyLimit]
      BY <1>1, LimitsAssumption DEF Crash
    <2> QED BY <1>1, <2>1, <2>2, LimitsAssumption, NothingAssumption
            DEF Crash, Reconnect, Places, WorkPlaces
  <1>2. ASSUME NEW m \in Mentions, Deliver(m) PROVE Typed'
    <2>1. unread' \in Seq(Mentions)
      BY <1>2, AppendProperties DEF Deliver
    <2> QED BY <1>2, <2>1 DEF Deliver
  <1>3. ASSUME NEW u \in Users, ChargeExpires(u) PROVE Typed'
    <2>1. spent' \in [Users -> 0..HourlyLimit]
      BY <1>3, LimitsAssumption DEF ChargeExpires
    <2> QED BY <1>3, <2>1 DEF ChargeExpires
  <1> QED BY <1>1, <1>2, <1>3

\* The deque keeps its type and its limit.
LEMMA Remembering ==
    ASSUME Typed, NEW m \in Mentions, Remember(m)
    PROVE  /\ seen' \in Seq(Mentions)
           /\ Len(seen) < SeenLimit =>
                /\ Len(seen') = Len(seen) + 1 /\ seen'[Len(seen) + 1] = m
                /\ \A k \in 1..Len(seen) : seen'[k] = seen[k]
           /\ Len(seen) = SeenLimit =>
                /\ Len(seen') = Len(seen) /\ seen'[Len(seen)] = m
                /\ \A k \in 1..(Len(seen) - 1) : seen'[k] = seen[k + 1]
  <1> DEFINE all == Append(seen, m)
  <1>1. seen \in Seq(Mentions) /\ Len(seen) \in Nat /\ Len(seen) <= SeenLimit
    BY DEF Typed, TypeOK
  <1>2. /\ all \in Seq(Mentions) /\ all # << >> /\ Len(all) = Len(seen) + 1
        /\ \A k \in 1..Len(seen) : all[k] = seen[k]
        /\ all[Len(seen) + 1] = m
    BY <1>1, AppendProperties
  <1>3. CASE Len(seen) < SeenLimit
    <2>1. seen' = all
      BY <1>1, <1>2, <1>3, LimitsAssumption DEF Remember
    <2> QED BY <1>1, <1>2, <1>3, <2>1
  <1>4. CASE Len(seen) = SeenLimit
    <2>1. seen' = Tail(all)
      BY <1>1, <1>2, <1>4, LimitsAssumption DEF Remember
    <2> HIDE DEF all
    <2>2. Tail(all) \in Seq(Mentions) /\ Len(Tail(all)) = Len(all) - 1
      BY <1>2, HeadTailProperties
    <2>3. \A k \in 1..(Len(all) - 1) : Tail(all)[k] = all[k + 1]
      BY <1>2, HeadTailProperties
    <2> QED BY <1>1, <1>2, <1>4, <2>1, <2>2, <2>3, LimitsAssumption
  <1> QED BY <1>1, <1>3, <1>4, LimitsAssumption

\* A charge is within the limit, and is written down.
LEMMA Charging ==
    ASSUME spent \in [Users -> 0..HourlyLimit], charged \in Seq([ask : Mentions, at : Nat]),
           event \in Mentions, event.from \in Users, marked \in Nat, ChargeRequest
    PROVE  spent' \in [Users -> 0..HourlyLimit] /\ charged' \in Seq([ask : Mentions, at : Nat])
  <1>1. \/ spent' = spent /\ charged' = charged
        \/ /\ spent[event.from] < HourlyLimit
           /\ spent' = [spent EXCEPT ![event.from] = @ + 1]
           /\ charged' = Append(charged, Charge(event))
    BY DEF ChargeRequest, account
  <1>2. Charge(event) \in [ask : Mentions, at : Nat]
    BY DEF Charge
  <1>3. Append(charged, Charge(event)) \in Seq([ask : Mentions, at : Nat])
    BY <1>2, AppendProperties
  <1>4. spent[event.from] < HourlyLimit =>
          [spent EXCEPT ![event.from] = @ + 1] \in [Users -> 0..HourlyLimit]
    BY LimitsAssumption
  <1> QED BY <1>1, <1>3, <1>4

LEMMA MainTyped == ASSUME Typed, MainStep PROVE Typed'
  <1> USE DEF Typed, TypeOK, Roomy, slack, main, memory, account, work
  <1>e. << >> \in Seq(Mentions)
    BY EmptySeq
  <1>1. CASE Connect \/ Drop
    BY <1>1, <1>e DEF Connect, Drop, Reconnect, Places
  <1>2. CASE Receive
    <2>1. Head(unread) \in Mentions /\ Tail(unread) \in Seq(Mentions)
      BY <1>2, HeadTailProperties DEF Receive
    <2> QED BY <1>2, <2>1, <1>e, NothingAssumption DEF Receive, Reconnect, Places
  <1>3. CASE Retry
    BY <1>3 DEF Retry, EventOver, Places
  <1>4. CASE Mention
    <2>1. event \in Mentions
      BY <1>4, NothingAssumption DEF Mention
    <2>2. seen' \in Seq(Mentions) /\ Len(seen') <= SeenLimit
      BY <1>4, <2>1, Remembering, LimitsAssumption DEF Mention
    <2>3. log' \in SUBSET [of : Mentions, outcome : Outcomes]
      BY <1>4, <2>1 DEF Mention, Note, Record, Outcomes
    <2>4. pc' = "charge" => Len(jobs) < QueueLimit /\ event' = event /\ event.from \in Listed
      BY <1>4, LimitsAssumption DEF Mention, Full, EventOver
    <2> QED BY <1>4, <2>1, <2>2, <2>3, <2>4 DEF Mention, EventOver, Places
  <1>5. CASE ChargeRequest
    <2>1. event \in Mentions /\ event.from \in Users
      BY <1>5, NothingAssumption, MentionsAssumption DEF ChargeRequest
    <2>2. spent' \in [Users -> 0..HourlyLimit] /\ charged' \in Seq([ask : Mentions, at : Nat])
      BY <1>5, <2>1, Charging
    <2>4. log' \in SUBSET [of : Mentions, outcome : Outcomes]
      BY <1>5, <2>1 DEF ChargeRequest, Note, Record, Outcomes
    <2> QED BY <1>5, <2>1, <2>2, <2>4 DEF ChargeRequest, EventOver, Places
  <1>6. CASE Put
    <2>1. event \in Mentions
      BY <1>6, NothingAssumption DEF Put
    <2>2. jobs' = Append(jobs, event)
      BY <1>6 DEF Put
    <2>3. jobs' \in Seq(Mentions) /\ Len(jobs') <= QueueLimit
      BY <1>6, <2>1, <2>2, AppendProperties, LimitsAssumption DEF Put
    <2> QED BY <1>6, <2>3 DEF Put, EventOver, Places
  <1> QED BY <1>1, <1>2, <1>3, <1>4, <1>5, <1>6 DEF MainStep

LEMMA WorkerTyped == ASSUME Typed, WorkerStep PROVE Typed'
  <1> USE DEF Typed, TypeOK, Roomy, slack, main, memory, account, work, WorkPlaces
  <1>1. CASE Take
    <2>1. /\ Head(jobs) \in Mentions /\ Tail(jobs) \in Seq(Mentions)
          /\ Len(Tail(jobs)) = Len(jobs) - 1 /\ Len(jobs) \in Nat
      BY <1>1, HeadTailProperties DEF Take
    <2> QED BY <1>1, <2>1, NothingAssumption, LimitsAssumption DEF Take
  <1>2. CASE Run
    BY <1>2 DEF Run
  <1>3. CASE Post
    <2>1. job \in Mentions
      BY <1>3, NothingAssumption DEF Post
    <2> QED BY <1>3, <2>1 DEF Post
  <1>4. CASE Audit \/ Apologise
    <2>1. job \in Mentions
      BY <1>4, NothingAssumption DEF Audit, Apologise
    <2>2. done' \in Seq(Mentions)
      <3>1. done' = Append(done, job)
        BY <1>4 DEF Audit, Apologise, Finish
      <3>2. done \in Seq(Mentions)
        OBVIOUS
      <3> QED BY <2>1, <3>1, <3>2, AppendProperties
    <2>3. log' \in SUBSET [of : Mentions, outcome : Outcomes]
      BY <1>4, <2>1 DEF Audit, Apologise, Note, Record, Outcomes
    <2>4. /\ worker' = "idle" /\ job' = Nothing
          /\ UNCHANGED <<acked, deliveries, unread, pc, event, seen, marked, spent,
                         charged, jobs, answered, crashes>>
      BY <1>4 DEF Audit, Apologise, Finish
    <2> QED BY <2>2, <2>3, <2>4
  <1> QED BY <1>1, <1>2, <1>3, <1>4 DEF WorkerStep

LEMMA IdleTyped == ASSUME Typed, UNCHANGED vars PROVE Typed'
  BY DEF Typed, TypeOK, Roomy, vars, slack, main, memory, account, work

LEMMA NextTyped == Typed /\ [Next]_vars => Typed'
  BY OutsideTyped, MainTyped, WorkerTyped, IdleTyped DEF Next

\* The variables of the Slack bridge always have their types.
THEOREM TypeCorrect == Spec => []TypeOK
  <1>1. Typed => TypeOK
    BY DEF Typed
  <1> QED BY <1>1, InitTyped, NextTyped, PTL DEF Spec

-----------------------------------------------------------------------------
(* A record of an answer stands for the answer *)

LEMMA InitTold == Init => Told
  BY DEF Init, Told, RecordedIsReplied

LEMMA NextTold == Told /\ [Next]_vars => Told'
  <1> SUFFICES ASSUME Told, [Next]_vars PROVE Told'
    OBVIOUS
  <1> USE DEF Told, RecordedIsReplied, slack, main, memory, account, work
  <1>1. CASE Mention \/ ChargeRequest
    <2>1. \A r \in log' : r \in log \/ r.outcome # "answered"
      BY <1>1 DEF Mention, ChargeRequest, Note, Record
    <2>2. UNCHANGED <<answered, worker, job>>
      BY <1>1 DEF Mention, ChargeRequest
    <2> QED BY <2>1, <2>2
  <1>2. CASE Audit
    <2>1. \A r \in log' : r \in log \/ r.of = job
      BY <1>2 DEF Audit, Note, Record
    <2>2. job \in answered /\ answered' = answered /\ worker' = "idle"
      BY <1>2 DEF Audit, Finish
    <2> QED BY <2>1, <2>2
  <1>3. CASE Post \/ Run \/ Take \/ Apologise
    <2>1. log' = log /\ answered \subseteq answered'
      BY <1>3 DEF Post, Run, Take, Apologise
    <2>2. worker' = "audit" => job' = job /\ job \in answered'
      BY <1>3 DEF Post, Run, Take, Apologise, Finish
    <2> QED BY <2>1, <2>2
  <1>4. CASE Crash
    BY <1>4 DEF Crash
  <1>5. CASE Connect \/ Drop \/ Receive \/ Retry \/ Put
    BY <1>5 DEF Connect, Drop, Receive, Retry, Put
  <1>6. CASE (\E m \in Mentions : Deliver(m)) \/ \E u \in Users : ChargeExpires(u)
    BY <1>6 DEF Deliver, ChargeExpires
  <1>7. CASE UNCHANGED vars
    BY <1>7 DEF vars
  <1> QED BY <1>1, <1>2, <1>3, <1>4, <1>5, <1>6, <1>7 DEF Next, MainStep, WorkerStep

\* An audit record that a request was answered stands only for an answer that
\* is in the thread, whatever fails and however often the process dies.
THEOREM RecordsAreTrue == Spec => []RecordedIsReplied
  <1>1. Told => RecordedIsReplied
    BY DEF Told
  <1> QED BY <1>1, InitTold, NextTold, PTL DEF Spec

-----------------------------------------------------------------------------
(* Nobody is asked twice *)

LEMMA InitMarks == Init => Marks
  <1> SUFFICES ASSUME Init PROVE Marks
    OBVIOUS
  <1>1. Len(<< >>) = 0
    BY EmptySeq
  <1> QED BY <1>1, LimitsAssumption DEF Init, Marks, Oldest, Fresh

\* The steps that leave the memory and the charges alone.
LEMMA Elsewhere ==
    ASSUME Typed, Marks, AskedOnce, UNCHANGED <<seen, marked, charged>>,
           pc' = "charge" => pc = "charge" /\ event' = event
    PROVE  Marks' /\ AskedOnce'
  BY DEF Marks, Oldest, Placed, Fresh, AskedOnce

LEMMA LastPlace ==
    ASSUME NEW l \in Nat, NEW m \in Nat, NEW a \in 1..m
    PROVE  l - ((m + 1) - a) = l - (m - a) - 1
  OBVIOUS

LEMMA MentionMarks ==
    ASSUME Typed, Marks, AskedOnce, Mention
    PROVE  Marks' /\ AskedOnce'
  <1>1. /\ event \in Mentions /\ Remember(event) /\ marked' = marked + 1
        /\ charged' = charged
        /\ pc' = "charge" => event' = event
        /\ \A k \in DOMAIN seen : seen[k] # event
    BY NothingAssumption DEF Mention, Typed, TypeOK, Remembered, EventOver, account
  <1>2. /\ marked \in Nat /\ Len(seen) \in Nat /\ DOMAIN seen = 1..Len(seen)
        /\ Len(seen) <= SeenLimit /\ SeenLimit \in Nat /\ SeenLimit > 0
    BY LimitsAssumption DEF Typed, TypeOK
  <1>l. Len(seen) < SeenLimit \/ Len(seen) = SeenLimit
    <2>1. Len(seen) \in Nat /\ SeenLimit \in Nat /\ Len(seen) <= SeenLimit
      BY <1>2
    <2> QED BY <2>1
  <1>3. Len(charged) \in Nat /\ \A i \in 1..Len(charged) : charged[i].at \in 1..marked
    BY DEF Marks, Placed, Typed, TypeOK
  <1>4. Len(seen) = Oldest
    BY DEF Marks
  <1>5. Len(seen') = Oldest' /\ Len(seen') > 0 /\ seen'[Len(seen')] = event
    BY <1>1, <1>2, <1>4, Remembering DEF Oldest
  <1>6. ASSUME NEW i \in 1..Len(charged) PROVE Placed(charged[i])'
    <2>1. charged[i].at \in 1..marked
      BY <1>3
    <2>2. marked - charged[i].at < Len(seen) => seen[Len(seen) - (marked - charged[i].at)] = charged[i].ask
      BY DEF Marks, Placed
    <2>3. CASE Len(seen) < SeenLimit
      <3>1. Len(seen') = Len(seen) + 1 /\ \A k \in 1..Len(seen) : seen'[k] = seen[k]
        BY <1>1, <2>3, Remembering
      <3>2. Len(seen') - (marked' - charged[i].at) = Len(seen) - (marked - charged[i].at)
        BY <1>1, <1>2, <2>1, <3>1
      <3>3. marked - charged[i].at < Len(seen)
        BY <1>2, <1>4, <2>1, <2>3 DEF Oldest
      <3>4. Len(seen) - (marked - charged[i].at) \in 1..Len(seen)
        BY <1>2, <2>1, <3>3
      <3> QED BY <1>1, <1>2, <2>1, <2>2, <3>1, <3>2, <3>3, <3>4 DEF Placed
    <2>4. CASE Len(seen) = SeenLimit
      <3>1. Len(seen') = Len(seen) /\ \A k \in 1..(Len(seen) - 1) : seen'[k] = seen[k + 1]
        BY <1>1, <2>4, Remembering
      <3> DEFINE k == Len(seen') - (marked' - charged[i].at)
      <3>2. k = Len(seen) - (marked - charged[i].at) - 1
        BY <1>1, <1>2, <2>1, <3>1, LastPlace
      <3>3. ASSUME marked' - charged[i].at < Len(seen')
            PROVE  seen'[k] = charged[i].ask
        <4>1. k \in 1..(Len(seen) - 1) /\ marked - charged[i].at < Len(seen)
          BY <1>1, <1>2, <2>1, <3>1, <3>2, <3>3
        <4>2. k + 1 = Len(seen) - (marked - charged[i].at)
          BY <1>2, <2>1, <3>2
        <4> HIDE DEF k
        <4> QED BY <2>2, <3>1, <4>1, <4>2
      <3>4. charged[i].at \in 1..marked'
        BY <1>1, <1>2, <2>1
      <3> QED BY <1>1, <3>3, <3>4 DEF Placed
    <2> QED BY <1>l, <2>3, <2>4
  <1>7. ASSUME NEW i \in 1..Len(charged), charged[i].ask = event
        PROVE  marked' - charged[i].at > SeenLimit
    <2>1. charged[i].at \in 1..marked
      BY <1>3
    <2>2. ~(marked - charged[i].at < Len(seen))
      <3>1. SUFFICES ASSUME marked - charged[i].at < Len(seen) PROVE FALSE
        OBVIOUS
      <3>2. seen[Len(seen) - (marked - charged[i].at)] = event
        BY <1>7, <3>1 DEF Marks, Placed
      <3>3. Len(seen) - (marked - charged[i].at) \in DOMAIN seen
        BY <1>2, <2>1, <3>1
      <3> QED BY <1>1, <3>2, <3>3
    <2> QED BY <1>1, <1>2, <1>4, <2>1, <2>2 DEF Oldest
  <1>8. Fresh'
    BY <1>1, <1>5, <1>7 DEF Fresh
  <1>9. Marks'
    BY <1>1, <1>5, <1>6, <1>8 DEF Marks
  <1> QED BY <1>1, <1>9 DEF AskedOnce

LEMMA ChargeMarks ==
    ASSUME Typed, Marks, AskedOnce, ChargeRequest
    PROVE  Marks' /\ AskedOnce'
  <1>0. UNCHANGED <<seen, marked>> /\ pc = "charge" /\ pc' # "charge"
    BY DEF ChargeRequest, EventOver, memory
  <1>1. CASE charged' = charged
    BY <1>0, <1>1, Elsewhere
  <1>2. CASE charged' = Append(charged, Charge(event))
    <2>1. event \in Mentions /\ marked \in Nat /\ Charge(event) \in [ask : Mentions, at : Nat]
      BY <1>0, NothingAssumption DEF Typed, TypeOK, Charge
    <2>2. /\ Len(charged) \in Nat /\ Len(charged') = Len(charged) + 1
          /\ \A i \in 1..Len(charged) : charged'[i] = charged[i]
          /\ charged'[Len(charged) + 1] = [ask |-> event, at |-> marked]
          /\ DOMAIN charged' = 1..(Len(charged) + 1)
          /\ DOMAIN charged = 1..Len(charged)
      <3>1. charged \in Seq([ask : Mentions, at : Nat])
        BY DEF Typed, TypeOK
      <3> QED BY <1>2, <2>1, <3>1, AppendProperties DEF Charge
    <2>3. Len(seen) > 0 /\ seen[Len(seen)] = event
      BY <1>0 DEF Marks, Fresh
    <2>4. marked \in 1..marked /\ Len(seen) \in Nat
      BY <2>1, <2>3, LimitsAssumption DEF Marks, Oldest, Typed, TypeOK
    <2>5. Placed([ask |-> event, at |-> marked])
      BY <2>1, <2>3, <2>4 DEF Placed
    <2>6. ASSUME NEW i \in 1..(Len(charged) + 1) PROVE Placed(charged'[i])
      BY <2>2, <2>5 DEF Marks
    <2>7. Marks'
      BY <1>0, <2>2, <2>6 DEF Marks, Oldest, Placed, Fresh
    <2>8. ASSUME NEW i \in 1..(Len(charged) + 1), NEW j \in 1..(Len(charged) + 1),
                 i < j, charged'[i].ask = charged'[j].ask
          PROVE  charged'[j].at - charged'[i].at > SeenLimit
      <3>1. CASE j \in 1..Len(charged)
        <4>1. i \in 1..Len(charged)
          BY <2>2, <2>8, <3>1
        <4> QED BY <2>2, <2>8, <3>1, <4>1 DEF AskedOnce
      <3>2. CASE j = Len(charged) + 1
        <4>1. i \in 1..Len(charged)
          BY <2>2, <2>8, <3>2
        <4>2. charged[i].ask = event
          BY <2>2, <2>8, <3>2, <4>1
        <4> QED BY <1>0, <2>2, <3>2, <4>1, <4>2 DEF Marks, Fresh
      <3> QED BY <2>2, <3>1, <3>2
    <2>9. AskedOnce'
      BY <2>2, <2>8 DEF AskedOnce
    <2> QED BY <2>7, <2>9
  <1> QED BY <1>1, <1>2 DEF ChargeRequest, account

LEMMA CrashMarks == ASSUME Typed, Crash PROVE Marks' /\ AskedOnce'
  <1>1. seen' = << >> /\ marked' = 0 /\ charged' = << >> /\ pc' = "connect"
    BY DEF Crash, Reconnect
  <1>2. Len(<< >>) = 0
    BY EmptySeq
  <1> QED BY <1>1, <1>2, LimitsAssumption DEF Marks, Oldest, Fresh, AskedOnce

LEMMA NextMarks == Typed /\ Marks /\ AskedOnce /\ [Next]_vars => Marks' /\ AskedOnce'
  <1> SUFFICES ASSUME Typed, Marks, AskedOnce, [Next]_vars PROVE Marks' /\ AskedOnce'
    OBVIOUS
  <1> USE DEF slack, main, memory, account, work
  <1>1. CASE Connect \/ Drop \/ Receive \/ Retry \/ Put
    <2>1. UNCHANGED <<seen, marked, charged>> /\ pc' # "charge"
      BY <1>1 DEF Connect, Drop, Receive, Retry, Put, Reconnect, EventOver
    <2> QED BY <2>1, Elsewhere
  <1>2. CASE WorkerStep
    <2>1. UNCHANGED <<seen, marked, charged, pc, event>>
      BY <1>2 DEF WorkerStep, Take, Run, Post, Audit, Apologise
    <2> QED BY <2>1, Elsewhere
  <1>3. CASE (\E m \in Mentions : Deliver(m)) \/ \E u \in Users : ChargeExpires(u)
    <2>1. UNCHANGED <<seen, marked, charged, pc, event>>
      BY <1>3 DEF Deliver, ChargeExpires
    <2> QED BY <2>1, Elsewhere
  <1>4. CASE UNCHANGED vars
    <2>1. UNCHANGED <<seen, marked, charged, pc, event>>
      BY <1>4 DEF vars
    <2> QED BY <2>1, Elsewhere
  <1> QED BY <1>1, <1>2, <1>3, <1>4, MentionMarks, ChargeMarks, CrashMarks DEF Next, MainStep

\* Claude is not run twice for a mention while its id is remembered, for any
\* length of the memory and any number of deliveries and connections.
THEOREM NobodyAskedTwice == Spec => []AskedOnce
  <1>1. Init => AskedOnce
    <2>1. Init => charged = << >> /\ DOMAIN << >> = {}
      BY DEF Init
    <2> QED BY <2>1 DEF AskedOnce
  <1> QED BY <1>1, InitTyped, NextTyped, InitMarks, NextMarks, PTL DEF Spec

-----------------------------------------------------------------------------
(* Who is charged is served *)

LEMMA HeadAndTail ==
    ASSUME NEW S, NEW s \in Seq(S), s # << >>
    PROVE  Head(s) \in S /\ Tail(s) \in Seq(S) /\ s = <<Head(s)>> \o Tail(s)
  <1>1. Head(s) \in S /\ Tail(s) \in Seq(S) /\ Len(s) \in Nat \ {0}
    BY HeadTailProperties, EmptySeq
  <1>2. SubSeq(s, 1, Len(s)) = s
    BY SubSeqFull
  <1>3. SubSeq(s, 1, Len(s)) = <<s[1]>> \o SubSeq(s, 1 + 1, Len(s))
    BY <1>1, SubSeqRecursiveFirst
  <1>4. Tail(s) = SubSeq(s, 2, Len(s))
    BY TailIsSubSeq
  <1>5. Head(s) = s[1]
    BY <1>1
  <1> QED BY <1>1, <1>2, <1>3, <1>4, <1>5

\* The worker takes the head of the queue.
LEMMA Taken ==
    ASSUME NEW S, NEW d \in Seq(S), NEW q \in Seq(S), q # << >>
    PROVE  d \o << >> \o q = d \o <<Head(q)>> \o Tail(q)
  <1>1. Head(q) \in S /\ Tail(q) \in Seq(S) /\ q = <<Head(q)>> \o Tail(q)
    BY HeadAndTail
  <1>2. <<Head(q)>> \in Seq(S)
    BY <1>1
  <1>3. d \o << >> = d
    BY ConcatEmptySeq
  <1>4. (d \o <<Head(q)>>) \o Tail(q) = d \o (<<Head(q)>> \o Tail(q))
    BY <1>1, <1>2, ConcatAssociative
  <1> QED BY <1>1, <1>3, <1>4

\* The worker has finished what it had.
LEMMA Finished ==
    ASSUME NEW S, NEW d \in Seq(S), NEW e \in S
    PROVE  d \o <<e>> = Append(d, e) \o << >>
  <1>1. Append(d, e) = d \o <<e>> /\ Append(d, e) \in Seq(S)
    BY AppendIsConcat, AppendProperties
  <1>2. Append(d, e) \o << >> = Append(d, e)
    BY <1>1, ConcatEmptySeq
  <1> QED BY <1>1, <1>2

\* What was charged is put at the end of the queue.
LEMMA Queued ==
    ASSUME NEW S, NEW d \in Seq(S), NEW q \in Seq(S), NEW e \in S
    PROVE  d \o q \o <<e>> = d \o Append(q, e) \o << >>
  <1>1. Append(q, e) = q \o <<e>> /\ Append(q, e) \in Seq(S) /\ <<e>> \in Seq(S)
    BY AppendIsConcat, AppendProperties
  <1>2. (d \o q) \o <<e>> = d \o (q \o <<e>>)
    BY <1>1, ConcatAssociative
  <1>3. d \o Append(q, e) \in Seq(S)
    BY <1>1, ConcatProperties
  <1>4. (d \o Append(q, e)) \o << >> = d \o Append(q, e)
    BY <1>3, ConcatEmptySeq
  <1> QED BY <1>1, <1>2, <1>4

LEMMA SameLength == ASSUME NEW m \in Nat, NEW n \in Nat, 1..m = 1..n PROVE m = n
  <1>1. ~(m < n) /\ ~(n < m)
    OBVIOUS
  <1> QED BY <1>1

\* The mentions charged, as a sequence.
LEMMA AsksSeq ==
    ASSUME NEW s \in Seq([ask : Mentions, at : Nat])
    PROVE  /\ Asks(s) \in Seq(Mentions) /\ Len(Asks(s)) = Len(s)
           /\ \A k \in 1..Len(s) : Asks(s)[k] = s[k].ask
  <1>1. Len(s) \in Nat /\ DOMAIN s = 1..Len(s)
    BY LenProperties
  <1>2. \A k \in 1..Len(s) : s[k].ask \in Mentions
    <2>1. \A k \in 1..Len(s) : s[k] \in [ask : Mentions, at : Nat]
      BY ElementOfSeq
    <2> QED BY <2>1
  <1>3. Asks(s) \in [1..Len(s) -> Mentions] /\ \A k \in 1..Len(s) : Asks(s)[k] = s[k].ask
    BY <1>1, <1>2 DEF Asks
  <1>4. Asks(s) \in Seq(Mentions)
    BY <1>1, <1>3, SeqDef
  <1>5. DOMAIN Asks(s) = 1..Len(Asks(s)) /\ Len(Asks(s)) \in Nat
    BY <1>4, LenProperties
  <1>6. DOMAIN Asks(s) = 1..Len(s)
    BY <1>3
  <1> HIDE DEF Asks
  <1>7. Len(Asks(s)) = Len(s)
    BY <1>1, <1>5, <1>6, SameLength
  <1> QED BY <1>3, <1>4, <1>7

\* One more charge is one more mention.
LEMMA AsksMore ==
    ASSUME NEW s \in Seq([ask : Mentions, at : Nat]), NEW m \in Mentions, NEW n \in Nat
    PROVE  Asks(Append(s, [ask |-> m, at |-> n])) = Append(Asks(s), m)
  <1> DEFINE t == Append(s, [ask |-> m, at |-> n])
  <1>1. /\ t \in Seq([ask : Mentions, at : Nat]) /\ Len(t) = Len(s) + 1 /\ Len(s) \in Nat
        /\ \A k \in 1..Len(s) : t[k] = s[k]
        /\ t[Len(s) + 1] = [ask |-> m, at |-> n]
    BY AppendProperties
  <1>2. /\ Asks(s) \in Seq(Mentions) /\ Len(Asks(s)) = Len(s)
        /\ \A k \in 1..Len(s) : Asks(s)[k] = s[k].ask
    BY AsksSeq
  <1> HIDE DEF t
  <1>3. /\ Asks(t) \in Seq(Mentions) /\ Len(Asks(t)) = Len(s) + 1
        /\ \A k \in 1..(Len(s) + 1) : Asks(t)[k] = t[k].ask
    BY <1>1, AsksSeq
  <1>4. /\ Append(Asks(s), m) \in Seq(Mentions) /\ Len(Append(Asks(s), m)) = Len(s) + 1
        /\ \A k \in 1..Len(s) : Append(Asks(s), m)[k] = Asks(s)[k]
        /\ Append(Asks(s), m)[Len(s) + 1] = m
    BY <1>2, AppendProperties
  <1>5. \A k \in 1..(Len(s) + 1) : Asks(t)[k] = Append(Asks(s), m)[k]
    <2> TAKE k \in 1..(Len(s) + 1)
    <2>1. CASE k \in 1..Len(s)
      BY <1>1, <1>2, <1>3, <1>4, <2>1
    <2>2. CASE k = Len(s) + 1
      BY <1>1, <1>3, <1>4, <2>2
    <2>3. Len(s) \in Nat
      BY <1>1
    <2>4. k \in 1..Len(s) \/ k = Len(s) + 1
      BY <2>3
    <2> QED BY <2>1, <2>2, <2>4
  <1>6. Asks(t) = Append(Asks(s), m)
    BY <1>3, <1>4, <1>5, SeqEqual
  <1> QED BY <1>6 DEF t

LEMMA InitServed == Init => ServedInOrder
  <1> SUFFICES ASSUME Init PROVE ServedInOrder
    OBVIOUS
  <1>1. << >> \in Seq(Mentions) /\ << >> \in Seq([ask : Mentions, at : Nat]) /\ Len(<< >>) = 0
    BY EmptySeq
  <1>2. Asks(<< >>) \in Seq(Mentions) /\ Len(Asks(<< >>)) = 0
    BY <1>1, AsksSeq
  <1>3. Asks(<< >>) = << >>
    BY <1>1, <1>2, EmptySeq
  <1>4. << >> \o << >> \o << >> \o << >> = << >>
    BY <1>1, ConcatEmptySeq
  <1> QED BY <1>3, <1>4 DEF Init, ServedInOrder, InHand, Charged

\* The steps that move no request.
LEMMA Unmoved ==
    ASSUME ServedInOrder, UNCHANGED <<charged, done, jobs>>, InHand' = InHand, Charged' = Charged
    PROVE  ServedInOrder'
  BY DEF ServedInOrder, Asks

LEMMA MainServed == ASSUME Typed, ServedInOrder, MainStep PROVE ServedInOrder'
  <1> USE DEF slack, main, memory, account, work
  <1>0. /\ done \in Seq(Mentions) /\ InHand \in Seq(Mentions) /\ jobs \in Seq(Mentions)
        /\ done \o InHand \in Seq(Mentions) /\ done \o InHand \o jobs \in Seq(Mentions)
    <2>1. done \in Seq(Mentions) /\ jobs \in Seq(Mentions)
      BY DEF Typed, TypeOK
    <2>2. InHand \in Seq(Mentions)
      <3>1. worker # "idle" => job \in Mentions
        BY DEF Typed, TypeOK
      <3> QED BY <3>1 DEF InHand
    <2> QED BY <2>1, <2>2, ConcatProperties
  <1>1. CASE Put
    <2>1. event \in Mentions /\ pc = "put" /\ pc' = "receive" /\ Len(jobs) < QueueLimit
      BY <1>1, NothingAssumption DEF Put, EventOver, Typed, TypeOK, Roomy
    <2>2. jobs' = Append(jobs, event) /\ UNCHANGED <<charged, done, worker, job>>
      BY <1>1, <2>1 DEF Put
    <2>3. Charged = <<event>> /\ Charged' = << >> /\ InHand' = InHand /\ Asks(charged)' = Asks(charged)
      BY <2>1, <2>2 DEF Charged, InHand, Asks
    <2>4. (done \o InHand) \o jobs \o <<event>> = (done \o InHand) \o Append(jobs, event) \o << >>
      <3> DEFINE d == done \o InHand
      <3>1. d \in Seq(Mentions) /\ jobs \in Seq(Mentions)
        BY <1>0
      <3> HIDE DEF d
      <3>2. d \o jobs \o <<event>> = d \o Append(jobs, event) \o << >>
        BY <2>1, <3>1, Queued
      <3> QED BY <3>2 DEF d
    <2> QED BY <2>2, <2>3, <2>4 DEF ServedInOrder
  <1>2. CASE ChargeRequest
    <2>1. event \in Mentions /\ pc = "charge" /\ UNCHANGED <<done, jobs, worker, job>>
      BY <1>2, NothingAssumption DEF ChargeRequest, Typed, TypeOK
    <2>2. InHand' = InHand /\ Charged = << >>
      BY <2>1 DEF InHand, Charged
    <2>3. CASE charged' = charged /\ pc' # "put"
      BY <2>1, <2>2, <2>3, Unmoved DEF Charged
    <2>4. CASE charged' = Append(charged, Charge(event)) /\ pc' = "put" /\ event' = event
      <3>1. charged \in Seq([ask : Mentions, at : Nat]) /\ marked \in Nat
        BY DEF Typed, TypeOK
      <3>2. Asks(charged') = Append(Asks(charged), event)
        BY <2>1, <2>4, <3>1, AsksMore DEF Charge
      <3>3. Asks(charged) = done \o InHand \o jobs
        BY <1>0, <2>2, ConcatEmptySeq DEF ServedInOrder
      <3>4. Append(done \o InHand \o jobs, event) = done \o InHand \o jobs \o <<event>>
        BY <1>0, <2>1, AppendIsConcat
      <3>5. Charged' = <<event>>
        BY <2>4 DEF Charged
      <3>6. ServedInOrder' <=> Asks(charged') = done' \o InHand' \o jobs' \o Charged'
        BY DEF ServedInOrder, Asks
      <3> QED BY <2>1, <2>2, <3>2, <3>3, <3>4, <3>5, <3>6
    <2> QED BY <1>2, <2>3, <2>4 DEF ChargeRequest, EventOver
  <1>3. CASE Connect \/ Drop \/ Receive \/ Retry \/ Mention
    <2>1. UNCHANGED <<charged, done, jobs, worker, job>> /\ pc # "put" /\ pc' # "put"
      BY <1>3 DEF Connect, Drop, Receive, Retry, Mention, Reconnect, EventOver
    <2> QED BY <2>1, Unmoved DEF InHand, Charged
  <1> QED BY <1>1, <1>2, <1>3 DEF MainStep

LEMMA WorkerServed == ASSUME Typed, ServedInOrder, WorkerStep PROVE ServedInOrder'
  <1> USE DEF slack, main, memory, account, work
  <1>0. done \in Seq(Mentions) /\ jobs \in Seq(Mentions)
    BY DEF Typed, TypeOK
  <1>1. Charged' = Charged /\ Asks(charged') = Asks(charged)
    BY DEF WorkerStep, Take, Run, Post, Audit, Apologise, Charged
  <1>2. ServedInOrder' <=> Asks(charged') = done' \o InHand' \o jobs' \o Charged'
    BY DEF ServedInOrder, Asks
  <1>3. CASE Take
    <2>1. InHand = << >> /\ InHand' = <<Head(jobs)>> /\ jobs' = Tail(jobs) /\ done' = done /\ jobs # << >>
      BY <1>3 DEF Take, InHand
    <2>2. done \o << >> \o jobs = done \o <<Head(jobs)>> \o Tail(jobs)
      BY <1>0, <2>1, Taken
    <2> QED BY <1>1, <1>2, <2>1, <2>2 DEF ServedInOrder
  <1>4. CASE Audit \/ Apologise
    <2>1. job \in Mentions /\ InHand = <<job>>
      BY <1>4, NothingAssumption DEF Audit, Apologise, InHand, Typed, TypeOK
    <2>2. InHand' = << >> /\ done' = Append(done, job) /\ jobs' = jobs
      BY <1>4 DEF Audit, Apologise, Finish, InHand
    <2>3. done \o <<job>> = Append(done, job) \o << >>
      BY <1>0, <2>1, Finished
    <2> QED BY <1>1, <1>2, <2>1, <2>2, <2>3 DEF ServedInOrder
  <1>5. CASE Run \/ Post
    <2>1. UNCHANGED <<charged, done, jobs>> /\ InHand' = InHand
      BY <1>5 DEF Run, Post, InHand
    <2> QED BY <1>1, <2>1, Unmoved
  <1> QED BY <1>3, <1>4, <1>5 DEF WorkerStep

LEMMA NextServed == Typed /\ ServedInOrder /\ [Next]_vars => ServedInOrder'
  <1> SUFFICES ASSUME Typed, ServedInOrder, [Next]_vars PROVE ServedInOrder'
    OBVIOUS
  <1> USE DEF slack, main, memory, account, work
  <1>1. CASE (\E m \in Mentions : Deliver(m)) \/ (\E u \in Users : ChargeExpires(u)) \/ UNCHANGED vars
    <2>1. UNCHANGED <<charged, done, jobs, worker, job, pc, event>>
      BY <1>1 DEF Deliver, ChargeExpires, vars
    <2> QED BY <2>1, Unmoved DEF InHand, Charged
  <1>2. CASE Crash
    <2>1. /\ charged' = << >> /\ done' = << >> /\ jobs' = << >>
          /\ worker' = "idle" /\ pc' = "connect"
      BY <1>2 DEF Crash, Reconnect
    <2>2. << >> \in Seq(Mentions) /\ << >> \in Seq([ask : Mentions, at : Nat]) /\ Len(<< >>) = 0
      BY EmptySeq
    <2>3. Asks(<< >>) = << >>
      <3>1. Asks(<< >>) \in Seq(Mentions) /\ Len(Asks(<< >>)) = 0
        BY <2>2, AsksSeq
      <3> QED BY <3>1, EmptySeq
    <2>4. << >> \o << >> \o << >> \o << >> = << >>
      BY <2>2, ConcatEmptySeq
    <2>5. InHand' = << >> /\ Charged' = << >> /\ Asks(charged') = << >>
      BY <2>1, <2>3 DEF InHand, Charged
    <2>6. ServedInOrder' <=> Asks(charged') = done' \o InHand' \o jobs' \o Charged'
      BY DEF ServedInOrder, Asks
    <2> QED BY <2>1, <2>4, <2>5, <2>6
  <1> QED BY <1>1, <1>2, MainServed, WorkerServed DEF Next

\* The requests charged are those finished, being worked on, queued and about
\* to be queued, in this order: none is lost, doubled or overtaken, and a
\* "busy" refusal is never charged, for any limits.
THEOREM ChargedAreServed == Spec => []ServedInOrder
  BY InitTyped, NextTyped, InitServed, NextServed, PTL DEF Spec

\* Who is charged is served, in the order of the charges.
THEOREM SoundService == Spec => []ServedSound
BY TypeCorrect, ChargedAreServed, PTL DEF ServedSound
=============================================================================

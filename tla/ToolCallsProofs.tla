--------------------------- MODULE ToolCallsProofs --------------------------
(***************************************************************************)
(* Proofs about ToolCalls, for any threads and any bounds on the calls and *)
(* edits.  A tool is a sequence of stages, and what a call may do is a     *)
(* matter of their order: for each tool it is proved that a command comes  *)
(* after its charge, its record and the checks of what it touches, and a   *)
(* record before an outcome.  A call is then followed along what is left   *)
(* of its stages: every stage left fits the ones that have passed, and     *)
(* what has passed is what the call's record says it did.                  *)
(***************************************************************************)
EXTENDS ToolCalls, SequenceTheorems, TLAPS

\* May stage s come after the stages P?  A command comes after its charge and
\* its record, whatever is asked or changed after the target is known, a check
\* before anything is spent, unless it is one that has passed before, the
\* operation's own judgement before any command, and the outcome after one.
Fits(s, P) ==
    /\ s = "act" => {"charge", "record"} \subseteq P
    /\ s \in {"ask", "act"} => P \cap {"session", "board", "port", "target"} # {}
    /\ s \in {"target", "probe"} => "config" \in P
    /\ s = "config" => "target" \notin P
    /\ s \in Checks /\ P \cap {"charge", "record"} # {} => s = "target" /\ "target" \in P
    /\ s = "value" => "act" \notin P
    /\ s = "outcome" => {"record", "act"} \subseteq P

Passed(r, i) == {r[j] : j \in 1..i - 1}

\* Every stage of r fits what is before it, in r or in P.
Ordered(r, P) == \A i \in 1..Len(r) : Fits(r[i], P \cup Passed(r, i))

\* A record is followed by one of the outcome.
Noted(r) == \A i \in 1..Len(r) : r[i] = "record" => \E j \in i + 1..Len(r) : r[j] = "outcome"

\* Once a stage has passed, what is left is ordered after it.
LEMMA OrderedTail ==
    ASSUME NEW S, NEW r \in Seq(S), r # << >>, NEW P, Ordered(r, P)
    PROVE  Fits(Head(r), P) /\ Ordered(Tail(r), P \cup {Head(r)})
  <1>1. /\ Tail(r) \in Seq(S) /\ Len(Tail(r)) = Len(r) - 1 /\ Len(r) \in Nat /\ Len(r) >= 1
        /\ \A i \in 1..Len(Tail(r)) : Tail(r)[i] = r[i + 1]
        /\ Head(r) = r[1]
    BY HeadTailProperties, EmptySeq
  <1>2. Fits(Head(r), P)
    <2>1. Fits(r[1], P \cup Passed(r, 1))
      BY <1>1 DEF Ordered
    <2>2. Passed(r, 1) = {}
      BY DEF Passed
    <2> QED BY <1>1, <2>1, <2>2
  <1>3. ASSUME NEW i \in 1..Len(Tail(r))
        PROVE  Fits(Tail(r)[i], (P \cup {Head(r)}) \cup Passed(Tail(r), i))
    <2>1. i + 1 \in 1..Len(r) /\ Tail(r)[i] = r[i + 1]
      BY <1>1
    <2>2. Passed(r, i + 1) = {Head(r)} \cup Passed(Tail(r), i)
      <3>1. ASSUME NEW x \in Passed(r, i + 1) PROVE x \in {Head(r)} \cup Passed(Tail(r), i)
        <4>1. PICK j \in 1..i : x = r[j]
          BY <1>1 DEF Passed
        <4>2. CASE j = 1
          BY <1>1, <4>1, <4>2
        <4>3. CASE j # 1
          <5>1. j - 1 \in 1..i - 1 /\ x = Tail(r)[j - 1]
            BY <1>1, <4>1, <4>3
          <5> QED BY <5>1 DEF Passed
        <4> QED BY <4>2, <4>3
      <3>2. Head(r) \in Passed(r, i + 1)
        BY <1>1 DEF Passed
      <3>3. ASSUME NEW x \in Passed(Tail(r), i) PROVE x \in Passed(r, i + 1)
        <4>1. PICK j \in 1..i - 1 : x = Tail(r)[j]
          BY DEF Passed
        <4>2. j + 1 \in 1..(i + 1) - 1 /\ x = r[j + 1]
          BY <1>1, <4>1
        <4> QED BY <4>2 DEF Passed
      <3> QED BY <3>1, <3>2, <3>3
    <2>3. (P \cup {Head(r)}) \cup Passed(Tail(r), i) = P \cup Passed(r, i + 1)
      BY <2>2
    <2> QED BY <2>1, <2>3 DEF Ordered
  <1> QED BY <1>2, <1>3 DEF Ordered

LEMMA NotedTail ==
    ASSUME NEW S, NEW r \in Seq(S), r # << >>, Noted(r)
    PROVE  /\ Noted(Tail(r))
           /\ Head(r) = "record" => \E i \in 1..Len(Tail(r)) : Tail(r)[i] = "outcome"
  <1>1. /\ Len(Tail(r)) = Len(r) - 1 /\ Len(r) \in Nat /\ Len(r) >= 1
        /\ \A i \in 1..Len(Tail(r)) : Tail(r)[i] = r[i + 1]
        /\ Head(r) = r[1]
    BY HeadTailProperties, EmptySeq
  <1>2. ASSUME NEW i \in 1..Len(Tail(r)), Tail(r)[i] = "record"
        PROVE  \E j \in i + 1..Len(Tail(r)) : Tail(r)[j] = "outcome"
    <2>1. i + 1 \in 1..Len(r) /\ r[i + 1] = "record"
      BY <1>1, <1>2
    <2>2. PICK j \in (i + 1) + 1..Len(r) : r[j] = "outcome"
      BY <2>1 DEF Noted
    <2>3. j - 1 \in i + 1..Len(Tail(r)) /\ Tail(r)[j - 1] = "outcome"
      BY <1>1, <2>2
    <2> QED BY <2>3
  <1>3. ASSUME Head(r) = "record"
        PROVE  \E i \in 1..Len(Tail(r)) : Tail(r)[i] = "outcome"
    <2>1. PICK j \in 1 + 1..Len(r) : r[j] = "outcome"
      BY <1>1, <1>3 DEF Noted
    <2>2. j - 1 \in 1..Len(Tail(r)) /\ Tail(r)[j - 1] = "outcome"
      BY <1>1, <2>1
    <2> QED BY <2>2
  <1> QED BY <1>2, <1>3 DEF Noted

\* Only the operation of a tool of Judges has a judgement of its own.
Judging(tool) == \A i \in 1..Len(tool) : tool[i] = "value" => tool \in Judges

\* A tool's stages, from the first to the last.
Proper(tool) == tool \in Seq(Stages) /\ Ordered(tool, {}) /\ Noted(tool) /\ Judging(tool)

\* The tools that change nothing.
LEMMA ReadsProper == \A tool \in Reads : Proper(tool)
  <1> USE DEF Proper, Ordered, Noted, Judging, Fits, Passed, Checks, Stages
  <1>1. Proper(AuditStatus)
    BY DEF AuditStatus
  <1>2. Proper(HardwareReport)
    BY DEF HardwareReport
  <1>3. Proper(DescribeBoard)
    BY DEF DescribeBoard, ConnectedBoard
  <1>4. Proper(BoardProfile)
    BY DEF BoardProfile, ConnectedBoard
  <1>5. Proper(BoardHistory)
    BY DEF BoardHistory, ConnectedBoard
  <1>6. Proper(PartsInventory)
    BY DEF PartsInventory
  <1>7. Proper(DecodeCrash)
    BY DEF DecodeCrash, ConnectedBoard
  <1>8. Proper(FingerprintBoard)
    BY DEF FingerprintBoard, ConnectedBoard
  <1>9. Proper(SerialOpen)
    BY DEF SerialOpen
  <1>10. Proper(SerialStatus)
    BY DEF SerialStatus
  <1>11. Proper(SerialRead)
    BY DEF SerialRead
  <1>12. Proper(SerialExpect)
    BY DEF SerialExpect
  <1>13. Proper(SerialClear)
    BY DEF SerialClear
  <1>14. Proper(SerialClose)
    BY DEF SerialClose
  <1>15. Proper(CompileSketch)
    BY DEF CompileSketch
  <1>16. Proper(PiDiscover)
    BY DEF PiDiscover
  <1>17. Proper(PiStatus)
    BY DEF PiStatus, PiState, Ssh, DetectBackend, ProbeTools
  <1>18. Proper(PiInventory)
    BY DEF PiInventory, PiReport, Ssh, DetectBackend, ProbeTools
  <1>19. Proper(JetsonStatus)
    BY DEF JetsonStatus, JetsonState, Ssh
  <1>20. Proper(JetsonInventory)
    BY DEF JetsonInventory, JetsonReport, Ssh
  <1>21. Proper(GpioListPins)
    BY DEF GpioListPins, DetectBackend, ProbeTools, Ssh
  <1>22. Proper(GpioReadPin)
    BY DEF GpioReadPin, ReadPin, DetectBackend, ProbeTools, Ssh
  <1>23. Proper(WeintekHmiIdentify)
    BY DEF WeintekHmiIdentify, OpcUaIdentify, OpcUaSession, Secret
  <1>24. Proper(WeintekOpcUaRead)
    BY DEF WeintekOpcUaRead, OpcUaRead, OpcUaSession, Secret
  <1>25. Proper(WeintekMqttSubscribe)
    BY DEF WeintekMqttSubscribe, HmiListen, Secret, MqttConnect, Listen
  <1>26. Proper(WeintekModbusRead)
    BY DEF WeintekModbusRead, ModbusRead
  <1>27. Proper(MingStatus)
    BY DEF MingStatus
  <1>28. Proper(MqttSubscribe)
    BY DEF MqttSubscribe, BrokerListen, Secret, MqttConnect, Listen
  <1>29. Proper(InfluxSchema)
    BY DEF InfluxSchema, FluxSchema, Flux, Http, Secret
  <1>30. Proper(InfluxQuery)
    BY DEF InfluxQuery, FluxQuery, Flux, Http, Secret
  <1>31. Proper(NodeRedFlows)
    BY DEF NodeRedFlows, FlowSummary, Http, Secret
  <1>32. Proper(GrafanaDashboards)
    BY DEF GrafanaDashboards, Dashboards, Http, Secret
  <1> HIDE DEF Proper, Ordered, Noted, Judging, Fits, Passed, Checks, Stages
  <1> QED
    BY <1>1, <1>2, <1>3, <1>4, <1>5, <1>6, <1>7, <1>8, <1>9, <1>10, <1>11,
       <1>12, <1>13, <1>14, <1>15, <1>16, <1>17, <1>18, <1>19, <1>20, <1>21,
       <1>22, <1>23, <1>24, <1>25, <1>26, <1>27, <1>28, <1>29, <1>30, <1>31,
       <1>32 DEF Reads

\* The tools that change something.
LEMMA ChangesProper == \A tool \in Changes : Proper(tool)
  <1> USE DEF Proper, Ordered, Noted, Judging, Fits, Passed, Checks, Stages
  <1>1. Proper(SerialWrite)
    BY DEF SerialWrite, Audited
  <1>2. Proper(SerialQuery)
    BY DEF SerialQuery, Audited
  <1>3. Proper(MpyExec)
    <2>1. MpyExec \in Judges
      BY DEF Judges
    <2> QED BY <2>1 DEF MpyExec, Micropython, Audited, RunCallersCode, RunCode, EnterRaw
  <1>4. Proper(MpyList)
    BY DEF MpyList, Micropython, Audited, RunCode, EnterRaw
  <1>5. Proper(MpyPut)
    BY DEF MpyPut, Audited, PutPrograms, RunCode, EnterRaw
  <1>6. Proper(GpioSetMode)
    BY DEF GpioSetMode, Audited, SetMode, DetectBackend, ProbeTools, Ssh, ReadPin
  <1>7. Proper(GpioWritePin)
    BY DEF GpioWritePin, Audited, WritePin, DetectBackend, ProbeTools, Ssh, ReadPin
  <1>8. Proper(WeintekOpcUaWrite)
    <2>1. WeintekOpcUaWrite \in Judges
      BY DEF Judges
    <2> QED BY <2>1 DEF WeintekOpcUaWrite, Audited, OpcUaWrite, OpcUaRead, OpcUaSession, Secret
  <1>9. Proper(WeintekMqttPublish(0))
    BY DEF WeintekMqttPublish, Audited, HmiPublish, Secret, MqttConnect, PublishPacket
  <1>10. Proper(WeintekMqttPublish(1))
    BY DEF WeintekMqttPublish, Audited, HmiPublish, Secret, MqttConnect, PublishPacket
  <1>11. Proper(MqttPublish(0))
    BY DEF MqttPublish, Audited, BrokerPublish, Secret, MqttConnect, PublishPacket
  <1>12. Proper(MqttPublish(1))
    BY DEF MqttPublish, Audited, BrokerPublish, Secret, MqttConnect, PublishPacket
  <1>13. Proper(InfluxWrite)
    BY DEF InfluxWrite, InfluxLine, Audited, InfluxPoint, Http, Secret
  <1>14. Proper(NodeRedInject)
    BY DEF NodeRedInject, Audited, InjectNode, Http, Secret
  <1>15. Proper(GrafanaAnnotate)
    BY DEF GrafanaAnnotate, AnnotationBody, Audited, Annotation, Http, Secret
  <1> HIDE DEF Proper, Ordered, Noted, Judging, Fits, Passed, Checks, Stages
  <1> QED
    BY <1>1, <1>2, <1>3, <1>4, <1>5, <1>6, <1>7, <1>8, <1>9, <1>10, <1>11,
       <1>12, <1>13, <1>14, <1>15 DEF Changes

\* In every tool of the server a command comes after its charge, its record and
\* the checks of its target, a check before anything is spent, but for the two
\* tools whose operation judges for itself, before its command, and the record
\* of a command is followed by that of its outcome.
THEOREM EveryToolIsProper == \A tool \in Reads \cup Changes : Proper(tool)
  BY ReadsProper, ChangesProper

-----------------------------------------------------------------------------
(* The inductive invariant *)

AllStages == Stages \cup {"failure"}
CallRecord == [tool : Tools, target : Targets, since : Nat, judged : Nat,
               outcome : Outcomes, did : SUBSET Flags]

\* What holds of every call c, running or not.
Backed(c) == c.did \cap {"applied", "late"} # {} => {"charged", "started"} \subseteq c.did
Judged(c, fs) ==
    c.judged # 0 =>
        c.since <= c.judged /\ c.judged <= Len(fs) /\ c.target \in fs[c.judged].allows
Reached(c) == "sent" \in c.did => "found" \in c.did \/ c.judged # 0
Untouched(c) ==
    "rejected" \in c.did =>
        /\ c.did \cap {"applied", "late"} = {}
        /\ c.did \cap {"charged", "started"} # {} => c.tool \in Judges
Truthful(c) == c.outcome = "done" => {"started", "applied"} \subseteq c.did

Begun(c, fs) == c.since \in 1..Len(fs)

Sound(c, fs) ==
    Begun(c, fs) /\ Backed(c) /\ Judged(c, fs) /\ Reached(c) /\ Untouched(c) /\ Truthful(c)

\* Without an outcome yet, a call that was recorded has one before it.
Noting(c, r) ==
    "started" \in c.did /\ c.outcome = "none" =>
        \E i \in 1..Len(r) : r[i] \in {"outcome", "failure"}

\* The operation that may still reject the call c may do so, and changed nothing.
Deciding(c, r) ==
    \A i \in 1..Len(r) :
        r[i] = "value" => c.did \cap {"applied", "late"} = {} /\ c.tool \in Judges

\* The call c, which has read the file number s, has passed the stages P.
Knows(c, s, fs, P) ==
    /\ "charge" \in P <=> "charged" \in c.did
    /\ "record" \in P <=> "started" \in c.did
    /\ "act" \in P => "applied" \in c.did
    /\ P \cap {"session", "board", "port"} # {} => "found" \in c.did
    /\ "config" \in P => s # 0
    /\ "target" \in P => s # 0 /\ c.judged # 0 /\ c.target \in fs[s].allows

Follows(c, r, s, fs, P) == Ordered(r, P) /\ Noted(r) /\ Knows(c, s, fs, P)

\* The call c still has the stages r ahead of it.
Course(c, r, s, fs) ==
    /\ s # 0 => c.since <= s
    /\ "rejected" \in c.did => r = <<"failure">>
    /\ Noting(c, r) /\ Deciding(c, r)
    /\ \E P \in SUBSET AllStages : Follows(c, r, s, fs, P)

AllSound == \A n \in 1..Len(calls) : Sound(calls[n], files)
AllNoted ==
    \A n \in 1..Len(calls) :
        "started" \in calls[n].did /\ calls[n].outcome = "none" /\ "cut" \notin calls[n].did =>
            \E t \in Threads : call[t] = n /\ todo[t] # << >>
AllOnCourse ==
    \A t \in Threads : todo[t] # << >> =>
        call[t] \in 1..Len(calls) /\ Course(calls[call[t]], todo[t], snap[t], files)
OneEach ==
    \A t, u \in Threads : todo[t] # << >> /\ todo[u] # << >> /\ t # u => call[t] # call[u]

IInv == files # << >> /\ TypeOK /\ AllSound /\ AllNoted /\ AllOnCourse /\ OneEach

\* Another file on disk disturbs no call.
LEMMA FilesGrow ==
    ASSUME NEW fs \in Seq(File), NEW f \in File
    PROVE  /\ Append(fs, f) \in Seq(File) /\ Len(Append(fs, f)) = Len(fs) + 1 /\ Len(fs) \in Nat
           /\ \A c \in CallRecord : Sound(c, fs) => Sound(c, Append(fs, f))
           /\ \A c \in CallRecord, r \in Seq(AllStages), s \in 0..Len(fs) :
                Course(c, r, s, fs) => Course(c, r, s, Append(fs, f))
  <1>1. /\ Append(fs, f) \in Seq(File) /\ Len(Append(fs, f)) = Len(fs) + 1 /\ Len(fs) \in Nat
        /\ \A i \in 1..Len(fs) : Append(fs, f)[i] = fs[i]
    BY AppendProperties
  <1>2. ASSUME NEW c \in CallRecord, Sound(c, fs) PROVE Sound(c, Append(fs, f))
    <2>1. c.judged \in Nat
      BY DEF CallRecord
    <2>2. Judged(c, Append(fs, f))
      BY <1>1, <1>2, <2>1 DEF Sound, Judged
    <2>3. Begun(c, Append(fs, f))
      BY <1>1, <1>2 DEF Sound, Begun
    <2> QED BY <1>2, <2>2, <2>3 DEF Sound
  <1>3. ASSUME NEW c \in CallRecord, NEW r \in Seq(AllStages), NEW s \in 0..Len(fs),
               Course(c, r, s, fs)
        PROVE  Course(c, r, s, Append(fs, f))
    <2>1. PICK P \in SUBSET AllStages : Follows(c, r, s, fs, P)
      BY <1>3 DEF Course
    <2>2. Knows(c, s, fs, P) => Knows(c, s, Append(fs, f), P)
      BY <1>1 DEF Knows
    <2>3. Follows(c, r, s, Append(fs, f), P)
      BY <2>1, <2>2 DEF Follows
    <2> QED BY <1>3, <2>3 DEF Course
  <1> QED BY <1>1, <1>2, <1>3

\* One thread's call goes on: to the record c, the stages r and the file s.
LEMMA Advance ==
    ASSUME IInv, NEW t \in Threads, todo[t] # << >>,
           NEW c \in CallRecord, NEW r \in Seq(AllStages), NEW s \in 0..Len(files),
           calls' = [calls EXCEPT ![call[t]] = c],
           todo' = [todo EXCEPT ![t] = r], snap' = [snap EXCEPT ![t] = s],
           UNCHANGED <<files, call>>,
           Sound(c, files), Noting(c, r), r # << >> => Course(c, r, s, files)
    PROVE  IInv'
  <1>1. /\ files \in Seq(File) /\ calls \in Seq(CallRecord)
        /\ todo \in [Threads -> Seq(AllStages)]
        /\ call \in [Threads -> 0..Len(calls)] /\ snap \in [Threads -> 0..Len(files)]
    BY DEF IInv, TypeOK, CallRecord, AllStages
  <1>2. call[t] \in 1..Len(calls)
    BY DEF IInv, AllOnCourse
  <1>3. /\ calls' \in Seq(CallRecord) /\ Len(calls') = Len(calls)
        /\ calls'[call[t]] = c
        /\ \A n \in 1..Len(calls) : n # call[t] => calls'[n] = calls[n]
    BY <1>1, <1>2, ExceptSeq
  <1>4. /\ todo'[t] = r /\ snap'[t] = s
        /\ \A u \in Threads : u # t => todo'[u] = todo[u] /\ snap'[u] = snap[u]
    BY <1>1
  <1>5. TypeOK'
    <2>1. todo' \in [Threads -> Seq(AllStages)] /\ snap' \in [Threads -> 0..Len(files)]
      BY <1>1
    <2> QED BY <1>1, <1>3, <2>1 DEF TypeOK, CallRecord, AllStages
  <1>6. AllSound'
    BY <1>2, <1>3 DEF IInv, AllSound
  <1>7. AllNoted'
    <2> SUFFICES ASSUME NEW n \in 1..Len(calls), "started" \in calls'[n].did,
                        calls'[n].outcome = "none", "cut" \notin calls'[n].did
                 PROVE  \E u \in Threads : call[u] = n /\ todo'[u] # << >>
      BY <1>3 DEF AllNoted
    <2>1. CASE n = call[t]
      <3>1. PICK i \in 1..Len(r) : r[i] \in {"outcome", "failure"}
        BY <1>3, <2>1 DEF Noting
      <3>2. r # << >>
        BY <3>1
      <3> QED BY <1>4, <2>1, <3>2
    <2>2. CASE n # call[t]
      <3>1. PICK u \in Threads : call[u] = n /\ todo[u] # << >>
        BY <1>3, <2>2 DEF IInv, AllNoted
      <3>2. todo'[u] # << >>
        BY <1>4, <2>2, <3>1
      <3> QED BY <3>1, <3>2
    <2> QED BY <2>1, <2>2
  <1>8. AllOnCourse'
    <2> SUFFICES ASSUME NEW u \in Threads, todo'[u] # << >>
                 PROVE  /\ call[u] \in 1..Len(calls)
                        /\ Course(calls'[call[u]], todo'[u], snap'[u], files)
      BY <1>3 DEF AllOnCourse
    <2>1. CASE u = t
      BY <1>2, <1>3, <1>4, <2>1
    <2>2. CASE u # t
      <3>1. call[u] # call[t] /\ call[u] \in 1..Len(calls)
            /\ Course(calls[call[u]], todo[u], snap[u], files)
        BY <1>4, <2>2 DEF IInv, AllOnCourse, OneEach
      <3> QED BY <1>3, <1>4, <2>2, <3>1
    <2> QED BY <2>1, <2>2
  <1>9. OneEach'
    BY <1>4 DEF IInv, OneEach
  <1> QED BY <1>5, <1>6, <1>7, <1>8, <1>9 DEF IInv

\* The call c with more done.
With(c, flags) == [c EXCEPT !.did = @ \cup flags]

\* What is known of a call on its way: h is its next stage, r what comes after.
LEMMA Underway ==
    ASSUME IInv, NEW t \in Threads, todo[t] # << >>,
           NEW c, c = calls[call[t]], NEW h, h = Head(todo[t]), NEW r, r = Tail(todo[t])
    PROVE  /\ c \in CallRecord /\ call[t] \in 1..Len(calls) /\ Sound(c, files)
           /\ snap[t] \in 0..Len(files) /\ (snap[t] # 0 => c.since <= snap[t])
           /\ files \in Seq(File) /\ Len(files) \in Nat /\ Len(files) > 0
           /\ h \in AllStages /\ r \in Seq(AllStages)
           /\ snap' = snap => snap' = [snap EXCEPT ![t] = snap[t]]
           /\ Noting(c, r) \/ h \in {"outcome", "failure"}
           /\ h = "record" => \E i \in 1..Len(r) : r[i] = "outcome"
           /\ \E P \in SUBSET AllStages :
                /\ Fits(h, P) /\ Knows(c, snap[t], files, P)
                /\ Ordered(r, P \cup {h}) /\ Noted(r)
  <1>1. /\ files \in Seq(File) /\ calls \in Seq(CallRecord)
        /\ todo \in [Threads -> Seq(AllStages)]
        /\ call \in [Threads -> 0..Len(calls)] /\ snap \in [Threads -> 0..Len(files)]
    BY DEF IInv, TypeOK, CallRecord, AllStages
  <1>2. call[t] \in 1..Len(calls) /\ Course(c, todo[t], snap[t], files)
    BY DEF IInv, AllOnCourse
  <1>3. c \in CallRecord /\ Sound(c, files)
    BY <1>1, <1>2 DEF IInv, AllSound
  <1>4. Len(files) \in Nat /\ Len(files) > 0
    BY <1>3, <1>1 DEF Sound, Begun
  <1>5. /\ todo[t] \in Seq(AllStages) /\ h \in AllStages /\ r \in Seq(AllStages)
        /\ Len(r) = Len(todo[t]) - 1 /\ Len(todo[t]) \in Nat
        /\ \A i \in 1..Len(r) : r[i] = todo[t][i + 1]
        /\ h = todo[t][1]
    BY <1>1, HeadTailProperties
  <1>6. Noting(c, r) \/ h \in {"outcome", "failure"}
    <2> SUFFICES ASSUME h \notin {"outcome", "failure"}, "started" \in c.did,
                        c.outcome = "none"
                 PROVE  \E i \in 1..Len(r) : r[i] \in {"outcome", "failure"}
      BY DEF Noting
    <2>1. PICK i \in 1..Len(todo[t]) : todo[t][i] \in {"outcome", "failure"}
      BY <1>2 DEF Course, Noting
    <2>2. i # 1 /\ i - 1 \in 1..Len(r)
      BY <1>5, <2>1
    <2>3. r[i - 1] = todo[t][i]
      BY <1>5, <2>2
    <2> QED BY <2>1, <2>2, <2>3
  <1>7. PICK P \in SUBSET AllStages : Follows(c, todo[t], snap[t], files, P)
    BY <1>2 DEF Course
  <1>8. Fits(h, P) /\ Ordered(r, P \cup {h})
    BY <1>5, <1>7, OrderedTail DEF Follows
  <1>9. Noted(r) /\ (h = "record" => \E i \in 1..Len(r) : r[i] = "outcome")
    BY <1>5, <1>7, NotedTail DEF Follows
  <1>10. Knows(c, snap[t], files, P)
    BY <1>7 DEF Follows
  <1>11. snap' = snap => snap' = [snap EXCEPT ![t] = snap[t]]
    BY <1>1
  <1>12. snap[t] \in 0..Len(files) /\ (snap[t] # 0 => c.since <= snap[t])
    BY <1>1, <1>2 DEF Course
  <1> QED BY <1>1, <1>2, <1>3, <1>4, <1>5, <1>6, <1>8, <1>9, <1>10, <1>11, <1>12

\* It is not rejected, unless all it has to do is to record its failure.
LEMMA Undecided ==
    ASSUME IInv, NEW t \in Threads, todo[t] # << >>,
           NEW c, c = calls[call[t]], NEW h, h = Head(todo[t]), NEW r, r = Tail(todo[t])
    PROVE  /\ "rejected" \in c.did => h = "failure" /\ Len(r) = 0
           /\ h = "value" => c.did \cap {"applied", "late"} = {} /\ c.tool \in Judges
           /\ Deciding(c, r)
  <1>1. Course(c, todo[t], snap[t], files) /\ todo[t] \in Seq(AllStages)
    BY DEF IInv, AllOnCourse, TypeOK, AllStages
  <1>2. /\ r \in Seq(AllStages) /\ Len(r) = Len(todo[t]) - 1 /\ Len(todo[t]) \in Nat
        /\ \A i \in 1..Len(r) : r[i] = todo[t][i + 1]
        /\ h = todo[t][1]
    BY <1>1, HeadTailProperties
  <1>3. ASSUME "rejected" \in c.did PROVE h = "failure" /\ Len(r) = 0
    <2>1. todo[t] = <<"failure">>
      BY <1>1, <1>3 DEF Course
    <2> QED BY <1>2, <2>1
  <1>4. Deciding(c, todo[t]) /\ 1 \in 1..Len(todo[t])
    BY <1>1, <1>2, EmptySeq DEF Course
  <1>5. \A i \in 1..Len(r) : i + 1 \in 1..Len(todo[t]) /\ r[i] = todo[t][i + 1]
    BY <1>2
  <1> QED BY <1>2, <1>3, <1>4, <1>5 DEF Deciding

\* A call with more done is still a call.
LEMMA WithRecord ==
    ASSUME NEW c \in CallRecord, NEW flags \in SUBSET Flags
    PROVE  /\ With(c, flags) \in CallRecord
           /\ With(c, flags).did = c.did \cup flags
           /\ With(c, flags).tool = c.tool /\ With(c, flags).target = c.target
           /\ With(c, flags).since = c.since /\ With(c, flags).judged = c.judged
           /\ With(c, flags).outcome = c.outcome
  BY DEF With, CallRecord

\* A stage passes.
LEMMA PassStep == ASSUME IInv, NEW t \in Threads, Pass(t) PROVE IInv'
  <1> DEFINE c == calls[call[t]]
             h == Head(todo[t])
             r == Tail(todo[t])
             s == snap[t]
  <1>1. /\ todo[t] # << >> /\ h \in Stages \ {"act", "probe", "outcome"}
        /\ Admits(t, h) /\ todo' = [todo EXCEPT ![t] = r] /\ UNCHANGED <<files, call>>
    BY DEF Pass, At
  <1>2. /\ c \in CallRecord /\ call[t] \in 1..Len(calls) /\ Sound(c, files)
        /\ s \in 0..Len(files) /\ (s # 0 => c.since <= s)
        /\ files \in Seq(File) /\ Len(files) \in Nat /\ Len(files) > 0
        /\ h \in AllStages /\ r \in Seq(AllStages)
        /\ (snap' = snap => snap' = [snap EXCEPT ![t] = s])
        /\ Noting(c, r) \/ h \in {"outcome", "failure"}
        /\ (h = "record" => \E i \in 1..Len(r) : r[i] = "outcome")
        /\ \E P \in SUBSET AllStages : /\ Fits(h, P) /\ Knows(c, s, files, P)
                                       /\ Ordered(r, P \cup {h}) /\ Noted(r)
    BY <1>1, Underway
  <1>u. /\ "rejected" \in c.did => h = "failure" /\ Len(r) = 0
        /\ h = "value" => c.did \cap {"applied", "late"} = {} /\ c.tool \in Judges
        /\ Deciding(c, r)
    BY <1>1, Undecided
  <1>3. PICK P \in SUBSET AllStages : /\ Fits(h, P) /\ Knows(c, s, files, P)
                                      /\ Ordered(r, P \cup {h}) /\ Noted(r)
    BY <1>2
  <1>4. h \notin {"outcome", "failure"} /\ P \cup {h} \in SUBSET AllStages
        /\ "rejected" \notin c.did
    BY <1>u, <1>1, <1>2 DEF Stages, Checks
  <1> HIDE DEF c, h, r, s
  <1>5. CASE h = "target"
    <2> DEFINE d == [c EXCEPT !.judged = s]
    <2>1. /\ calls' = [calls EXCEPT ![call[t]] = d] /\ snap' = [snap EXCEPT ![t] = s]
      BY <1>2, <1>5 DEF Pass, c, h, s
    <2>2. d \in CallRecord /\ d.did = c.did /\ d.judged = s /\ d.since = c.since
          /\ d.tool = c.tool /\ d.target = c.target /\ d.outcome = c.outcome
      BY <1>2 DEF CallRecord
    <2>3. s # 0 /\ c.target \in files[s].allows
      BY <1>1, <1>3, <1>5 DEF Fits, Knows, Admits, Allowed, c, s
    <2> HIDE DEF d
    <2>4. Sound(d, files)
      BY <1>2, <2>2, <2>3 DEF Sound, Begun, Backed, Judged, Reached, Untouched, Truthful
    <2>5. Noting(d, r) /\ Deciding(d, r)
      BY <1>u, <1>2, <1>4, <2>2 DEF Noting, Deciding
    <2>6. Knows(d, s, files, P \cup {h})
      BY <1>3, <1>5, <2>2, <2>3 DEF Knows
    <2>7. Course(d, r, s, files)
      BY <1>2, <1>3, <1>4, <2>2, <2>5, <2>6 DEF Course, Follows
    <2> QED BY <1>1, <1>2, <2>1, <2>2, <2>4, <2>5, <2>7, Advance
  <1>6. CASE h = "config"
    <2>1. calls' = [calls EXCEPT ![call[t]] = With(c, {})]
          /\ snap' = [snap EXCEPT ![t] = Len(files)]
      BY <1>6 DEF Pass, c, h, Did, Mark, With, ReadConfig
    <2>2. With(c, {}) = c
      BY <1>2 DEF With, CallRecord
    <2>3. Knows(c, Len(files), files, P \cup {h})
      BY <1>2, <1>3, <1>6 DEF Knows, Fits
    <2>4. Noting(c, r) /\ c.since <= Len(files)
      BY <1>2, <1>4 DEF Sound, Begun
    <2>5. Course(c, r, Len(files), files)
      BY <1>u, <1>2, <1>3, <1>4, <2>3, <2>4 DEF Course, Follows
    <2>6. Len(files) \in 0..Len(files)
      BY <1>2
    <2>7. calls' = [calls EXCEPT ![call[t]] = c]
      BY <2>1, <2>2, Zenon
    <2> QED BY <1>1, <1>2, <2>1, <2>4, <2>5, <2>6, <2>7, Advance
  <1>7. CASE h \notin {"target", "config"}
    <2> DEFINE d == With(c, Mark(h))
    <2>1. calls' = [calls EXCEPT ![call[t]] = d] /\ snap' = [snap EXCEPT ![t] = s]
      BY <1>2, <1>7 DEF Pass, c, h, s, Did, With
    <2>2. Mark(h) \in SUBSET Flags /\ "rejected" \notin Mark(h) /\ "applied" \notin Mark(h)
          /\ "late" \notin Mark(h)
      BY DEF Mark, Flags
    <2>3. d \in CallRecord /\ d.did = c.did \cup Mark(h) /\ d.judged = c.judged
          /\ d.since = c.since /\ d.tool = c.tool /\ d.target = c.target
          /\ d.outcome = c.outcome
      BY <1>2, <2>2, WithRecord
    <2> HIDE DEF d
    <2>4. Knows(d, s, files, P \cup {h})
      BY <1>1, <1>3, <1>7, <2>3 DEF Knows, Mark
    <2>5. "sent" \in Mark(h) => "found" \in c.did \/ c.judged # 0
      BY <1>1, <1>3 DEF Mark, Fits, Knows
    <2>6. Sound(d, files)
      BY <1>2, <1>4, <2>2, <2>3, <2>5
         DEF Sound, Begun, Backed, Judged, Reached, Untouched, Truthful
    <2>7. Noting(d, r) /\ Deciding(d, r)
      BY <1>u, <1>2, <1>4, <2>2, <2>3 DEF Noting, Deciding, Mark
    <2>8. Course(d, r, s, files)
      BY <1>2, <1>3, <1>4, <2>2, <2>3, <2>4, <2>7 DEF Course, Follows
    <2> QED BY <1>1, <1>2, <2>1, <2>3, <2>6, <2>7, <2>8, Advance
  <1> QED BY <1>5, <1>6, <1>7

\* The record of the failure of an operation fits wherever it comes.
LEMMA FailureFits ==
    ASSUME NEW P
    PROVE  /\ <<"failure">> \in Seq(AllStages)
           /\ Ordered(<<"failure">>, P) /\ Noted(<<"failure">>)
  BY DEF AllStages, Ordered, Noted, Fits, Checks

\* A call that gives up: it goes on to the record of its failure, or ends.
LEMMA GivesUp ==
    ASSUME IInv, NEW t \in Threads, todo[t] # << >>, NEW c, c = calls[call[t]],
           NEW d \in CallRecord, Sound(d, files), d.since = c.since,
           "started" \in d.did <=> "started" \in c.did, d.outcome = c.outcome,
           NEW P \in SUBSET AllStages, Knows(d, snap[t], files, P),
           calls' = [calls EXCEPT ![call[t]] = d],
           todo' = [todo EXCEPT ![t] = Unwind(t)], UNCHANGED <<files, call, snap>>
    PROVE  IInv'
  <1>1. /\ snap[t] \in 0..Len(files) /\ (snap[t] # 0 => c.since <= snap[t])
        /\ snap' = [snap EXCEPT ![t] = snap[t]]
    BY Underway
  <1>2. CASE "started" \in c.did /\ c.outcome = "none"
    <2>1. Unwind(t) = <<"failure">>
      BY <1>2 DEF Unwind
    <2>2. <<"failure">> \in Seq(AllStages) /\ Ordered(<<"failure">>, P) /\ Noted(<<"failure">>)
      BY FailureFits
    <2>3. Noting(d, <<"failure">>) /\ Deciding(d, <<"failure">>)
      BY DEF Noting, Deciding
    <2>4. Course(d, <<"failure">>, snap[t], files)
      BY <1>1, <2>2, <2>3 DEF Course, Follows
    <2> QED BY <1>1, <2>1, <2>2, <2>3, <2>4, Advance
  <1>3. CASE ~("started" \in c.did /\ c.outcome = "none")
    <2>1. Unwind(t) = << >> /\ << >> \in Seq(AllStages)
      BY <1>3 DEF Unwind
    <2>2. Noting(d, << >>)
      BY <1>3 DEF Noting
    <2> QED BY <1>1, <2>1, <2>2, Advance
  <1> QED BY <1>2, <1>3

\* A stage raises.
LEMMA RaiseStep == ASSUME IInv, NEW t \in Threads, Raise(t) PROVE IInv'
  <1> DEFINE c == calls[call[t]]
             h == Head(todo[t])
             r == Tail(todo[t])
             s == snap[t]
  <1>1. /\ todo[t] # << >> /\ h \in Stages \ {"act", "probe", "outcome"}
        /\ Refuses(t, h) /\ todo' = [todo EXCEPT ![t] = Unwind(t)]
        /\ UNCHANGED <<files, call, snap>>
    BY DEF Raise, At
  <1>2. /\ c \in CallRecord /\ call[t] \in 1..Len(calls) /\ Sound(c, files)
        /\ s \in 0..Len(files) /\ Len(files) \in Nat
        /\ snap' = [snap EXCEPT ![t] = s]
        /\ r \in Seq(AllStages)
        /\ \E P \in SUBSET AllStages : /\ Fits(h, P) /\ Knows(c, s, files, P)
                                       /\ Ordered(r, P \cup {h}) /\ Noted(r)
    BY <1>1, Underway
  <1>u. /\ "rejected" \in c.did => h = "failure" /\ Len(r) = 0
        /\ h = "value" => c.did \cap {"applied", "late"} = {} /\ c.tool \in Judges
        /\ Deciding(c, r)
    BY <1>1, Undecided
  <1>3. PICK P \in SUBSET AllStages : Fits(h, P) /\ Knows(c, s, files, P)
    BY <1>2
  <1>4. "rejected" \notin c.did
    BY <1>u, <1>1, <1>2 DEF Stages, Checks
  <1>5. CASE h \in Checks
    <2> DEFINE d == With(c, {"rejected"})
    <2>1. calls' = [calls EXCEPT ![call[t]] = d]
      BY <1>5 DEF Raise, c, h, Did, With
    <2>2. {"rejected"} \in SUBSET Flags
      BY DEF Flags
    <2>3. d \in CallRecord /\ d.did = c.did \cup {"rejected"} /\ d.judged = c.judged
          /\ d.since = c.since /\ d.tool = c.tool /\ d.target = c.target
          /\ d.outcome = c.outcome
      BY <1>2, <2>2, WithRecord
    <2>4. ~(h = "target" /\ "target" \in P)
      BY <1>1, <1>3 DEF Refuses, Admits, Allowed, Knows, c, s
    <2>5. "charged" \notin c.did /\ "started" \notin c.did
      BY <1>3, <1>5, <2>4 DEF Fits, Knows
    <2> HIDE DEF d
    <2>6. Sound(d, files)
      BY <1>2, <2>3, <2>5 DEF Sound, Begun, Backed, Judged, Reached, Untouched, Truthful
    <2>7. Unwind(t) = << >> /\ << >> \in Seq(AllStages) /\ Noting(d, << >>)
      BY <2>3, <2>5 DEF Unwind, Noting, c
    <2> QED BY <1>1, <1>2, <2>1, <2>3, <2>6, <2>7, Advance
  <1>6. CASE h = "value"
    <2> DEFINE d == With(c, {"rejected"})
    <2>1. calls' = [calls EXCEPT ![call[t]] = d]
      BY <1>6 DEF Raise, c, h, Did, With
    <2>2. {"rejected"} \in SUBSET Flags
      BY DEF Flags
    <2>3. d \in CallRecord /\ d.did = c.did \cup {"rejected"} /\ d.judged = c.judged
          /\ d.since = c.since /\ d.tool = c.tool /\ d.target = c.target
          /\ d.outcome = c.outcome
      BY <1>2, <2>2, WithRecord
    <2> HIDE DEF d
    <2>4. Sound(d, files)
      BY <1>u, <1>2, <1>6, <2>3 DEF Sound, Begun, Backed, Judged, Reached, Untouched, Truthful
    <2>5. Knows(d, s, files, P)
      BY <1>3, <2>3 DEF Knows
    <2> QED BY <1>1, <1>2, <2>1, <2>3, <2>4, <2>5, GivesUp
  <1>7. CASE h \notin Checks \cup {"value"}
    <2>1. PICK flags \in {{}, {"sent"}} :
             /\ calls' = [calls EXCEPT ![call[t]] = With(c, flags)]
             /\ flags = {"sent"} => h = "ask"
      BY <1>7 DEF Raise, c, h, Did, With
    <2> DEFINE d == With(c, flags)
    <2>2. flags \in SUBSET Flags /\ flags \subseteq {"sent"}
      BY DEF Flags
    <2>3. d \in CallRecord /\ d.did = c.did \cup flags /\ d.judged = c.judged
          /\ d.since = c.since /\ d.tool = c.tool /\ d.target = c.target
          /\ d.outcome = c.outcome
      BY <1>2, <2>2, WithRecord
    <2>4. flags = {"sent"} => "found" \in c.did \/ c.judged # 0
      BY <1>3, <2>1 DEF Fits, Knows
    <2>5. calls' = [calls EXCEPT ![call[t]] = d]
      BY <2>1
    <2> HIDE DEF d
    <2>6. Sound(d, files)
      BY <1>2, <1>4, <2>2, <2>3, <2>4 DEF Sound, Begun, Backed, Judged, Reached, Untouched, Truthful
    <2>7. Knows(d, s, files, P)
      BY <1>3, <2>2, <2>3 DEF Knows
    <2> QED BY <1>1, <1>2, <2>2, <2>3, <2>5, <2>6, <2>7, GivesUp
  <1> QED BY <1>5, <1>6, <1>7

\* A probe of ming_status.
LEMMA ProbeStep == ASSUME IInv, NEW t \in Threads, Probe(t) PROVE IInv'
  <1> DEFINE c == calls[call[t]]
             h == Head(todo[t])
             r == Tail(todo[t])
             s == snap[t]
  <1>1. /\ todo[t] # << >> /\ h = "probe"
        /\ todo' = [todo EXCEPT ![t] = r] /\ UNCHANGED <<files, call, snap>>
    BY DEF Probe, At
  <1>2. /\ c \in CallRecord /\ call[t] \in 1..Len(calls) /\ Sound(c, files)
        /\ s \in 0..Len(files) /\ (s # 0 => c.since <= s) /\ Len(files) \in Nat
        /\ h \in AllStages /\ r \in Seq(AllStages)
        /\ snap' = [snap EXCEPT ![t] = s]
        /\ Noting(c, r) \/ h \in {"outcome", "failure"}
        /\ \E P \in SUBSET AllStages : /\ Fits(h, P) /\ Knows(c, s, files, P)
                                       /\ Ordered(r, P \cup {h}) /\ Noted(r)
    BY <1>1, Underway
  <1>u. /\ "rejected" \in c.did => h = "failure" /\ Len(r) = 0
        /\ h = "value" => c.did \cap {"applied", "late"} = {} /\ c.tool \in Judges
        /\ Deciding(c, r)
    BY <1>1, Undecided
  <1>3. PICK P \in SUBSET AllStages : /\ Fits(h, P) /\ Knows(c, s, files, P)
                                      /\ Ordered(r, P \cup {h}) /\ Noted(r)
    BY <1>2
  <1>4. Noting(c, r) /\ P \cup {h} \in SUBSET AllStages /\ s # 0 /\ "rejected" \notin c.did
    BY <1>u, <1>1, <1>2, <1>3 DEF Fits, Knows
  <1>5. CASE Allowed(t)
    <2> DEFINE d == [With(c, {"sent"}) EXCEPT !.judged = s]
    <2>1. calls' = [calls EXCEPT ![call[t]] = d]
      BY <1>1, <1>2, <1>5 DEF Probe, c, s, Did, Mark, With
    <2>2. d \in CallRecord /\ d.did = c.did \cup {"sent"} /\ d.judged = s
          /\ d.since = c.since /\ d.tool = c.tool /\ d.target = c.target
          /\ d.outcome = c.outcome
      <3> DEFINE e == With(c, {"sent"})
      <3>1. {"sent"} \in SUBSET Flags
        BY DEF Flags
      <3>2. e \in CallRecord /\ e.did = c.did \cup {"sent"} /\ e.since = c.since
            /\ e.tool = c.tool /\ e.target = c.target /\ e.outcome = c.outcome
        BY <1>2, <3>1, WithRecord
      <3> HIDE DEF e
      <3>3. d = [e EXCEPT !.judged = s]
        BY DEF e
      <3> QED BY <1>2, <3>2, <3>3 DEF CallRecord
    <2>3. c.target \in files[s].allows
      BY <1>5 DEF Allowed, c, s
    <2> HIDE DEF d
    <2>4. Sound(d, files)
      BY <1>2, <1>4, <2>2, <2>3
         DEF Sound, Begun, Backed, Judged, Reached, Untouched, Truthful
    <2>5. Noting(d, r) /\ Deciding(d, r)
      BY <1>u, <1>2, <1>4, <2>2 DEF Noting, Deciding
    <2>6. Knows(d, s, files, P \cup {h})
      BY <1>1, <1>3, <1>4, <2>2 DEF Knows
    <2>7. Course(d, r, s, files)
      BY <1>2, <1>3, <1>4, <2>2, <2>5, <2>6 DEF Course, Follows
    <2> QED BY <1>1, <1>2, <2>1, <2>2, <2>4, <2>5, <2>7, Advance
  <1>6. CASE ~Allowed(t)
    <2>1. calls \in Seq(CallRecord)
      BY DEF IInv, TypeOK, CallRecord
    <2>2. calls' = [calls EXCEPT ![call[t]] = c]
      BY <1>2, <1>6, <2>1 DEF Probe, c
    <2>3. Knows(c, s, files, P \cup {h})
      BY <1>1, <1>3 DEF Knows
    <2>4. Course(c, r, s, files)
      BY <1>u, <1>2, <1>3, <1>4, <2>3 DEF Course, Follows
    <2> QED BY <1>1, <1>2, <1>4, <2>2, <2>4, Advance
  <1> QED BY <1>5, <1>6

\* The command takes effect.
LEMMA ActStep == ASSUME IInv, NEW t \in Threads, Act(t) PROVE IInv'
  <1> DEFINE c == calls[call[t]]
             h == Head(todo[t])
             r == Tail(todo[t])
             s == snap[t]
             d == With(c, {"sent", "applied"})
  <1>1. /\ todo[t] # << >> /\ h = "act"
        /\ todo' = [todo EXCEPT ![t] = r] /\ UNCHANGED <<files, call, snap>>
    BY DEF Act, At
  <1>2. /\ c \in CallRecord /\ call[t] \in 1..Len(calls) /\ Sound(c, files)
        /\ s \in 0..Len(files) /\ (s # 0 => c.since <= s) /\ Len(files) \in Nat
        /\ h \in AllStages /\ r \in Seq(AllStages)
        /\ snap' = [snap EXCEPT ![t] = s]
        /\ Noting(c, r) \/ h \in {"outcome", "failure"}
        /\ \E P \in SUBSET AllStages : /\ Fits(h, P) /\ Knows(c, s, files, P)
                                       /\ Ordered(r, P \cup {h}) /\ Noted(r)
    BY <1>1, Underway
  <1>u. /\ "rejected" \in c.did => h = "failure" /\ Len(r) = 0
        /\ h = "value" => c.did \cap {"applied", "late"} = {} /\ c.tool \in Judges
        /\ Deciding(c, r)
    BY <1>1, Undecided
  <1>3. PICK P \in SUBSET AllStages : /\ Fits(h, P) /\ Knows(c, s, files, P)
                                      /\ Ordered(r, P \cup {h}) /\ Noted(r)
    BY <1>2
  <1>4. Noting(c, r) /\ P \cup {h} \in SUBSET AllStages /\ "rejected" \notin c.did
    BY <1>u, <1>1, <1>2
  <1>5. {"charged", "started"} \subseteq c.did /\ ("found" \in c.did \/ c.judged # 0)
    BY <1>1, <1>3 DEF Fits, Knows
  <1>6. calls' = [calls EXCEPT ![call[t]] = d]
    BY DEF Act, Did, With
  <1>7. {"sent", "applied"} \in SUBSET Flags
    BY DEF Flags
  <1>8. d \in CallRecord /\ d.did = c.did \cup {"sent", "applied"} /\ d.judged = c.judged
        /\ d.since = c.since /\ d.tool = c.tool /\ d.target = c.target
        /\ d.outcome = c.outcome
    BY <1>2, <1>7, WithRecord
  <1> HIDE DEF c, h, r, s, d
  <1>9. Sound(d, files)
    BY <1>2, <1>4, <1>5, <1>8 DEF Sound, Begun, Backed, Judged, Reached, Untouched, Truthful
  <1>10. Noting(d, r) /\ Deciding(d, r)
    <2>1. \A i \in 1..Len(r) : r[i] # "value"
      BY <1>1, <1>3 DEF Ordered, Fits
    <2> QED BY <1>4, <1>8, <2>1 DEF Noting, Deciding
  <1>11. Knows(d, s, files, P \cup {h})
    BY <1>1, <1>3, <1>8 DEF Knows
  <1>12. Course(d, r, s, files)
    BY <1>2, <1>3, <1>4, <1>8, <1>10, <1>11 DEF Course, Follows
  <1> USE DEF c, s
  <1> QED BY <1>1, <1>2, <1>6, <1>8, <1>9, <1>10, <1>12, Advance

\* The command fails, or nobody waited for it long enough.
LEMMA ActRaisesStep == ASSUME IInv, NEW t \in Threads, ActRaises(t) PROVE IInv'
  <1> DEFINE c == calls[call[t]]
             h == Head(todo[t])
             r == Tail(todo[t])
             s == snap[t]
  <1>1. /\ todo[t] # << >> /\ h = "act"
        /\ todo' = [todo EXCEPT ![t] = Unwind(t)] /\ UNCHANGED <<files, call, snap>>
    BY DEF ActRaises, At
  <1>2. /\ c \in CallRecord /\ call[t] \in 1..Len(calls) /\ Sound(c, files)
        /\ s \in 0..Len(files)
        /\ r \in Seq(AllStages)
        /\ \E P \in SUBSET AllStages : /\ Fits(h, P) /\ Knows(c, s, files, P)
                                       /\ Ordered(r, P \cup {h}) /\ Noted(r)
    BY <1>1, Underway
  <1>u. /\ "rejected" \in c.did => h = "failure" /\ Len(r) = 0
        /\ h = "value" => c.did \cap {"applied", "late"} = {} /\ c.tool \in Judges
        /\ Deciding(c, r)
    BY <1>1, Undecided
  <1>3. PICK P \in SUBSET AllStages : Fits("act", P) /\ Knows(c, s, files, P)
    BY <1>1, <1>2
  <1>4. PICK flags \in {{"sent"}, {"sent", "applied"}, {"sent", "late"}} :
           calls' = [calls EXCEPT ![call[t]] = With(c, flags)]
    <2>1. PICK effect \in {{}, {"applied"}, {"late"}} : calls' = Did(t, {"sent"} \cup effect)
      BY DEF ActRaises
    <2>2. {"sent"} \cup effect \in {{"sent"}, {"sent", "applied"}, {"sent", "late"}}
      OBVIOUS
    <2> QED BY <2>1, <2>2 DEF Did, With
  <1> DEFINE d == With(c, flags)
  <1>5. flags \in SUBSET Flags
    BY DEF Flags
  <1>6. d \in CallRecord /\ d.did = c.did \cup flags /\ d.judged = c.judged
        /\ d.since = c.since /\ d.tool = c.tool /\ d.target = c.target
        /\ d.outcome = c.outcome
    BY <1>2, <1>5, WithRecord
  <1>7. {"charged", "started"} \subseteq c.did /\ ("found" \in c.did \/ c.judged # 0)
    BY <1>3 DEF Fits, Knows
  <1>8. calls' = [calls EXCEPT ![call[t]] = d]
    BY <1>4
  <1> HIDE DEF d
  <1>9. "rejected" \notin d.did /\ ("started" \in d.did <=> "started" \in c.did)
    BY <1>u, <1>1, <1>2, <1>6
  <1>10. Sound(d, files)
    BY <1>2, <1>6, <1>7, <1>9 DEF Sound, Begun, Backed, Judged, Reached, Untouched, Truthful
  <1>11. Knows(d, s, files, P)
    BY <1>3, <1>6 DEF Knows
  <1> QED BY <1>1, <1>6, <1>8, <1>9, <1>10, <1>11, GivesUp

\* The record of the outcome.
LEMMA NoteOutcomeStep == ASSUME IInv, NEW t \in Threads, NoteOutcome(t) PROVE IInv'
  <1> DEFINE c == calls[call[t]]
             h == Head(todo[t])
             r == Tail(todo[t])
             s == snap[t]
  <1>1. /\ todo[t] # << >> /\ h \in {"outcome", "failure"}
        /\ todo' = [todo EXCEPT ![t] = r] /\ UNCHANGED <<files, call, snap>>
    BY DEF NoteOutcome, At
  <1>2. /\ c \in CallRecord /\ call[t] \in 1..Len(calls) /\ Sound(c, files)
        /\ s \in 0..Len(files) /\ (s # 0 => c.since <= s) /\ Len(files) \in Nat
        /\ h \in AllStages /\ r \in Seq(AllStages)
        /\ snap' = [snap EXCEPT ![t] = s]
        /\ \E P \in SUBSET AllStages : /\ Fits(h, P) /\ Knows(c, s, files, P)
                                       /\ Ordered(r, P \cup {h}) /\ Noted(r)
    BY <1>1, Underway
  <1>u. ("rejected" \in c.did => Len(r) = 0) /\ Deciding(c, r)
    BY <1>1, Undecided
  <1>3. PICK P \in SUBSET AllStages : /\ Fits(h, P) /\ Knows(c, s, files, P)
                                      /\ Ordered(r, P \cup {h}) /\ Noted(r)
    BY <1>2
  <1>4. P \cup {h} \in SUBSET AllStages
    BY <1>2
  <1>5. PICK o \in {"done", "failed", "unwritten"} :
           /\ calls' = [calls EXCEPT ![call[t]].outcome = o]
           /\ o = "done" => h = "outcome"
    BY DEF NoteOutcome
  <1> DEFINE d == [c EXCEPT !.outcome = o]
  <1>6. calls' = [calls EXCEPT ![call[t]] = d]
    BY <1>5
  <1>7. d \in CallRecord /\ d.did = c.did /\ d.judged = c.judged
        /\ d.since = c.since /\ d.tool = c.tool /\ d.target = c.target /\ d.outcome = o
    BY <1>2 DEF CallRecord, Outcomes
  <1>8. o = "done" => {"started", "applied"} \subseteq c.did
    BY <1>3, <1>5 DEF Fits, Knows
  <1> HIDE DEF d
  <1>9. Sound(d, files)
    BY <1>2, <1>7, <1>8 DEF Sound, Begun, Backed, Judged, Reached, Untouched, Truthful
  <1>10. Noting(d, r) /\ Deciding(d, r)
    BY <1>u, <1>2, <1>7 DEF Noting, Deciding
  <1>11. Knows(d, s, files, P \cup {h})
    BY <1>1, <1>3, <1>7 DEF Knows
  <1>12. r # << >> => Course(d, r, s, files)
    BY <1>u, <1>2, <1>3, <1>4, <1>7, <1>10, <1>11, EmptySeq DEF Course, Follows
  <1> QED BY <1>1, <1>2, <1>6, <1>7, <1>9, <1>10, <1>12, Advance

\* Another configuration is saved: the calls before it are as they were.
LEMMA EditStep == ASSUME IInv, Edit PROVE IInv'
  <1>1. PICK f \in File : files' = Append(files, f) /\ UNCHANGED <<calls, todo, call, snap>>
    BY DEF Edit
  <1>2. /\ files \in Seq(File) /\ calls \in Seq(CallRecord)
        /\ todo \in [Threads -> Seq(AllStages)]
        /\ call \in [Threads -> 0..Len(calls)] /\ snap \in [Threads -> 0..Len(files)]
    BY DEF IInv, TypeOK, CallRecord, AllStages
  <1>3. /\ files' \in Seq(File) /\ Len(files') = Len(files) + 1 /\ Len(files) \in Nat
        /\ \A c \in CallRecord : Sound(c, files) => Sound(c, files')
        /\ \A c \in CallRecord, r \in Seq(AllStages), s \in 0..Len(files) :
             Course(c, r, s, files) => Course(c, r, s, files')
    BY <1>1, <1>2, FilesGrow
  <1>4. \A n \in 1..Len(calls) : calls[n] \in CallRecord
    BY <1>2
  <1>5. TypeOK'
    <2>1. snap' \in [Threads -> 0..Len(files')]
      BY <1>1, <1>2, <1>3
    <2> QED BY <1>1, <1>2, <1>3, <2>1 DEF TypeOK, CallRecord, AllStages
  <1>6. AllSound'
    BY <1>1, <1>3, <1>4 DEF IInv, AllSound
  <1>7. AllNoted' /\ OneEach'
    BY <1>1 DEF IInv, AllNoted, OneEach
  <1>8. AllOnCourse'
    BY <1>1, <1>2, <1>3, <1>4 DEF IInv, AllOnCourse
  <1>9. files' # << >>
    BY <1>3
  <1> QED BY <1>5, <1>6, <1>7, <1>8, <1>9 DEF IInv

\* A call begins.
LEMMA CallStep ==
    ASSUME IInv, NEW t \in Threads, NEW tool \in Tools, NEW target \in Targets,
           Call(t, tool, target)
    PROVE  IInv'
  <1> DEFINE c == NewCall(tool, target)
             n == Len(calls) + 1
  <1>1. /\ files \in Seq(File) /\ calls \in Seq(CallRecord)
        /\ todo \in [Threads -> Seq(AllStages)]
        /\ call \in [Threads -> 0..Len(calls)] /\ snap \in [Threads -> 0..Len(files)]
    BY DEF IInv, TypeOK, CallRecord, AllStages
  <1>2. tool \in Seq(AllStages) /\ Ordered(tool, {}) /\ Noted(tool) /\ Judging(tool)
    BY ReadsProper, ChangesProper DEF Tools, Proper, AllStages
  <1>3. c = [tool |-> tool, target |-> target, since |-> Len(files), judged |-> 0,
             outcome |-> "none", did |-> {}] /\ Len(files) \in Nat /\ Len(files) > 0
    BY <1>1, EmptySeq DEF IInv, NewCall
  <1> HIDE DEF c
  <1>4. c \in CallRecord
    BY <1>3 DEF CallRecord, Outcomes, Flags
  <1>5. Sound(c, files) /\ Noting(c, tool) /\ Deciding(c, tool)
    BY <1>2, <1>3 DEF Sound, Begun, Backed, Judged, Reached, Untouched, Truthful, Noting,
                      Deciding, Judging
  <1>6. Course(c, tool, 0, files)
    <2>1. Knows(c, 0, files, {})
      BY <1>3 DEF Knows
    <2> QED BY <1>2, <1>3, <1>5, <2>1 DEF Course, Follows
  <1>7. /\ calls' \in Seq(CallRecord) /\ Len(calls') = n /\ Len(calls) \in Nat
        /\ \A i \in 1..Len(calls) : calls'[i] = calls[i]
        /\ calls'[n] = c
    BY <1>1, <1>4, AppendProperties DEF Call, c
  <1>8. /\ todo' = [todo EXCEPT ![t] = tool] /\ call' = [call EXCEPT ![t] = n]
        /\ snap' = [snap EXCEPT ![t] = 0] /\ files' = files /\ todo[t] = << >>
    BY DEF Call
  <1>9. /\ todo'[t] = tool /\ call'[t] = n /\ snap'[t] = 0
        /\ \A u \in Threads : u # t => todo'[u] = todo[u] /\ call'[u] = call[u] /\ snap'[u] = snap[u]
    BY <1>1, <1>8
  <1>10. TypeOK'
    <2>1. todo' \in [Threads -> Seq(AllStages)] /\ snap' \in [Threads -> 0..Len(files)]
          /\ call' \in [Threads -> 0..n]
      BY <1>1, <1>2, <1>3, <1>7, <1>8
    <2> QED BY <1>1, <1>7, <1>8, <2>1 DEF TypeOK, CallRecord, AllStages
  <1>11. AllSound'
    BY <1>5, <1>7, <1>8 DEF IInv, AllSound
  <1>12. AllNoted'
    <2> SUFFICES ASSUME NEW m \in 1..n, "started" \in calls'[m].did,
                        calls'[m].outcome = "none", "cut" \notin calls'[m].did
                 PROVE  \E u \in Threads : call'[u] = m /\ todo'[u] # << >>
      BY <1>7 DEF AllNoted
    <2>1. m # n /\ m \in 1..Len(calls)
      BY <1>3, <1>7
    <2>2. PICK u \in Threads : call[u] = m /\ todo[u] # << >>
      BY <1>7, <2>1 DEF IInv, AllNoted
    <2> QED BY <1>8, <1>9, <2>2
  <1>13. AllOnCourse'
    <2> SUFFICES ASSUME NEW u \in Threads, todo'[u] # << >>
                 PROVE  call'[u] \in 1..n /\ Course(calls'[call'[u]], todo'[u], snap'[u], files)
      BY <1>7, <1>8 DEF AllOnCourse
    <2>1. CASE u = t
      BY <1>6, <1>7, <1>9, <2>1
    <2>2. CASE u # t
      <3>1. call[u] \in 1..Len(calls) /\ Course(calls[call[u]], todo[u], snap[u], files)
        BY <1>9, <2>2 DEF IInv, AllOnCourse
      <3> QED BY <1>7, <1>9, <2>2, <3>1
    <2> QED BY <2>1, <2>2
  <1>14. OneEach'
    <2> SUFFICES ASSUME NEW u \in Threads, NEW v \in Threads, todo'[u] # << >>,
                        todo'[v] # << >>, u # v
                 PROVE  call'[u] # call'[v]
      BY DEF OneEach
    <2>1. \A w \in Threads : w # t /\ todo[w] # << >> => call'[w] < n
      BY <1>1, <1>7, <1>9
    <2>2. CASE u # t /\ v # t
      BY <1>9, <2>2 DEF IInv, OneEach
    <2>3. CASE u = t \/ v = t
      BY <1>7, <1>9, <2>1, <2>3
    <2> QED BY <2>2, <2>3
  <1> QED BY <1>8, <1>10, <1>11, <1>12, <1>13, <1>14 DEF IInv

\* What was sent arrives after all.
LEMMA ArriveStep == ASSUME IInv, NEW n \in DOMAIN calls, Arrive(n) PROVE IInv'
  <1> DEFINE c == calls[n]
             d == [c EXCEPT !.did = (@ \ {"late"}) \cup {"applied"}]
  <1>1. /\ files \in Seq(File) /\ calls \in Seq(CallRecord)
        /\ todo \in [Threads -> Seq(AllStages)]
        /\ call \in [Threads -> 0..Len(calls)] /\ snap \in [Threads -> 0..Len(files)]
    BY DEF IInv, TypeOK, CallRecord, AllStages
  <1>2. n \in 1..Len(calls) /\ c \in CallRecord
    BY <1>1
  <1>3. Sound(c, files)
    BY <1>2 DEF IInv, AllSound
  <1>4. calls' = [calls EXCEPT ![n] = d] /\ UNCHANGED <<files, todo, call, snap>>
        /\ "late" \in c.did
    BY DEF Arrive
  <1>5. d \in CallRecord /\ d.did = (c.did \ {"late"}) \cup {"applied"} /\ d.judged = c.judged
        /\ d.since = c.since /\ d.tool = c.tool /\ d.target = c.target
        /\ d.outcome = c.outcome
    BY <1>2 DEF CallRecord, Flags
  <1> HIDE DEF c, d
  <1>6. Sound(d, files)
    BY <1>2, <1>3, <1>4, <1>5 DEF Sound, Begun, Backed, Judged, Reached, Untouched, Truthful
  <1>7. /\ calls' \in Seq(CallRecord) /\ Len(calls') = Len(calls) /\ calls'[n] = d
        /\ \A i \in 1..Len(calls) : i # n => calls'[i] = calls[i]
    BY <1>1, <1>2, <1>4, <1>5, ExceptSeq
  <1>8. TypeOK'
    BY <1>1, <1>4, <1>7 DEF TypeOK, CallRecord, AllStages
  <1>9. AllSound'
    BY <1>4, <1>6, <1>7 DEF IInv, AllSound
  <1>10. AllNoted'
    BY <1>4, <1>5, <1>7 DEF IInv, AllNoted, c
  <1>11. AllOnCourse'
    <2> SUFFICES ASSUME NEW t \in Threads, todo[t] # << >>
                 PROVE  call[t] \in 1..Len(calls)
                        /\ Course(calls'[call[t]], todo[t], snap[t], files)
      BY <1>4, <1>7 DEF AllOnCourse
    <2>1. call[t] \in 1..Len(calls) /\ Course(calls[call[t]], todo[t], snap[t], files)
      BY DEF IInv, AllOnCourse
    <2>2. CASE call[t] # n
      BY <1>7, <2>1, <2>2
    <2>3. CASE call[t] = n
      <3>1. Course(c, todo[t], snap[t], files)
        BY <2>1, <2>3 DEF c
      <3>2. PICK P \in SUBSET AllStages : Follows(c, todo[t], snap[t], files, P)
        BY <3>1 DEF Course
      <3>3. Knows(d, snap[t], files, P)
        BY <1>5, <3>2 DEF Follows, Knows
      <3>4. Noting(d, todo[t]) /\ Deciding(d, todo[t])
        BY <1>4, <1>5, <3>1 DEF Course, Noting, Deciding, c
      <3>5. Course(d, todo[t], snap[t], files)
        BY <1>5, <3>1, <3>2, <3>3, <3>4 DEF Course, Follows
      <3> QED BY <1>7, <2>1, <2>3, <3>5
    <2> QED BY <2>2, <2>3
  <1>12. OneEach'
    BY <1>4 DEF IInv, OneEach
  <1> QED BY <1>4, <1>8, <1>9, <1>10, <1>11, <1>12 DEF IInv

\* The server is killed: every call that was on its way is cut short.
LEMMA CrashStep == ASSUME IInv, Crash PROVE IInv'
  <1> DEFINE Cut(n) == \E t \in Threads : todo[t] # << >> /\ call[t] = n
  <1>1. /\ files \in Seq(File) /\ calls \in Seq(CallRecord)
        /\ todo \in [Threads -> Seq(AllStages)]
        /\ call \in [Threads -> 0..Len(calls)] /\ snap \in [Threads -> 0..Len(files)]
    BY DEF IInv, TypeOK, CallRecord, AllStages
  <1>2. /\ calls' = [n \in 1..Len(calls) |->
                       IF Cut(n) THEN With(calls[n], {"cut"}) ELSE calls[n]]
        /\ todo' = [t \in Threads |-> << >>] /\ UNCHANGED <<files, call, snap>>
    BY <1>1 DEF Crash, With
  <1> HIDE DEF Cut
  <1>3. \A n \in 1..Len(calls) : calls[n] \in CallRecord /\ Len(calls) \in Nat
    BY <1>1
  <1>4. ASSUME NEW n \in 1..Len(calls)
        PROVE  /\ calls'[n] \in CallRecord /\ Sound(calls'[n], files)
               /\ "started" \in calls'[n].did => "started" \in calls[n].did
               /\ calls'[n].outcome = calls[n].outcome
               /\ "cut" \notin calls'[n].did => "cut" \notin calls[n].did /\ ~Cut(n)
    <2>1. Sound(calls[n], files) /\ calls[n] \in CallRecord
      BY <1>3 DEF IInv, AllSound
    <2>2. CASE ~Cut(n)
      BY <1>2, <2>1, <2>2
    <2>3. CASE Cut(n)
      <3> DEFINE d == With(calls[n], {"cut"})
      <3>1. calls'[n] = d
        BY <1>2, <2>3
      <3>2. {"cut"} \in SUBSET Flags
        BY DEF Flags
      <3>3. d \in CallRecord /\ d.did = calls[n].did \cup {"cut"} /\ d.judged = calls[n].judged
            /\ d.since = calls[n].since /\ d.tool = calls[n].tool /\ d.target = calls[n].target
            /\ d.outcome = calls[n].outcome
        BY <2>1, <3>2, WithRecord
      <3> HIDE DEF d
      <3>4. Sound(d, files)
        BY <2>1, <3>3 DEF Sound, Begun, Backed, Judged, Reached, Untouched, Truthful
      <3> QED BY <3>1, <3>3, <3>4
    <2> QED BY <2>2, <2>3
  <1>5. calls' \in Seq(CallRecord) /\ Len(calls') = Len(calls)
    <2>1. calls' \in [1..Len(calls) -> CallRecord]
      BY <1>2, <1>4
    <2> QED BY <1>1, <2>1, SeqDef
  <1>6. TypeOK'
    <2>1. << >> \in Seq(AllStages)
      OBVIOUS
    <2>2. todo' \in [Threads -> Seq(AllStages)]
      BY <1>2, <2>1
    <2> QED BY <1>1, <1>2, <1>5, <2>2 DEF TypeOK, CallRecord, AllStages
  <1>7. AllSound'
    BY <1>2, <1>4, <1>5 DEF AllSound
  <1>8. AllNoted'
    <2> SUFFICES ASSUME NEW n \in 1..Len(calls), "started" \in calls'[n].did,
                        calls'[n].outcome = "none", "cut" \notin calls'[n].did
                 PROVE  FALSE
      BY <1>5 DEF AllNoted
    <2>1. ~Cut(n) /\ \E t \in Threads : call[t] = n /\ todo[t] # << >>
      BY <1>4 DEF IInv, AllNoted
    <2> QED BY <2>1 DEF Cut
  <1>9. AllOnCourse' /\ OneEach'
    BY <1>2 DEF AllOnCourse, OneEach
  <1> QED BY <1>2, <1>6, <1>7, <1>8, <1>9 DEF IInv

LEMMA Initially == Init => IInv
  <1> SUFFICES ASSUME Init PROVE IInv
    OBVIOUS
  <1>1. PICK f \in File : files = <<f>>
    BY DEF Init
  <1>2. files \in Seq(File) /\ Len(files) = 1 /\ files # << >>
    BY <1>1
  <1>3. calls = << >> /\ Len(calls) = 0 /\ todo = [t \in Threads |-> << >>]
        /\ call = [t \in Threads |-> 0] /\ snap = [t \in Threads |-> 0]
    BY DEF Init
  <1>4. TypeOK
    BY <1>2, <1>3 DEF TypeOK
  <1> QED BY <1>2, <1>3, <1>4 DEF IInv, AllSound, AllNoted, AllOnCourse, OneEach

LEMMA Always == Spec => []IInv
  <1>1. IInv /\ [Next]_vars => IInv'
    <2> SUFFICES ASSUME IInv, [Next]_vars PROVE IInv'
      OBVIOUS
    <2>1. CASE Edit
      BY <2>1, EditStep
    <2>2. CASE Crash
      BY <2>2, CrashStep
    <2>3. ASSUME NEW t \in Threads, Step(t) PROVE IInv'
      BY <2>3, PassStep, RaiseStep, ProbeStep, ActStep, ActRaisesStep, NoteOutcomeStep DEF Step
    <2>4. ASSUME NEW t \in Threads, NEW tool \in Tools, NEW target \in Targets,
                 Call(t, tool, target)
          PROVE  IInv'
      BY <2>4, CallStep
    <2>5. ASSUME NEW n \in DOMAIN calls, Arrive(n) PROVE IInv'
      BY <2>5, ArriveStep
    <2>6. CASE UNCHANGED vars
      BY <2>6 DEF vars, IInv, TypeOK, AllSound, AllNoted, AllOnCourse, OneEach
    <2> QED BY <2>1, <2>2, <2>3, <2>4, <2>5, <2>6 DEF Next
  <1> QED BY Initially, <1>1, PTL DEF Spec

\* What of the invariant the properties say, of every call.
LEMMA InvSuffices ==
    IInv => CallsSound /\ ActsAreBacked /\ TouchesAllowed /\ RejectedCostNothing
  <1> SUFFICES ASSUME IInv
               PROVE  CallsSound /\ ActsAreBacked /\ TouchesAllowed /\ RejectedCostNothing
    OBVIOUS
  <1>1. DOMAIN calls = 1..Len(calls)
    BY DEF IInv, TypeOK
  <1>2. ActsAreBacked
    BY <1>1 DEF IInv, AllSound, Sound, Backed, ActsAreBacked
  <1>3. TouchesAllowed
    BY <1>1 DEF IInv, AllSound, Sound, Judged, Reached, TouchesAllowed
  <1>4. RejectedCostNothing
    BY <1>1 DEF IInv, AllSound, Sound, Untouched, RejectedCostNothing
  <1>5. CallsSound
    BY <1>1 DEF IInv, AllSound, Sound, Truthful, AllNoted, CallsSound, OutcomesAreTrue
  <1> QED BY <1>2, <1>3, <1>4, <1>5

-----------------------------------------------------------------------------
\* The records of calls are well formed; "done" is written only of what took
\* effect, and no started record is left without its outcome unless the server
\* was killed or the log could not be written (_note_outcome).
THEOREM CallsAreSound == Spec => []CallsSound
  BY Always, InvSuffices, PTL

\* Whatever takes effect was charged and recorded before it was sent, for any
\* number of threads, calls, edits and targets (budget, audit.require).
THEOREM EveryActIsBacked == Spec => []ActsAreBacked
  BY Always, InvSuffices, PTL

\* Nothing is sent but to what the call found attached or open, or to a target
\* allowed by a configuration read during the call (load_config, policy).
THEOREM EveryTouchIsAllowed == Spec => []TouchesAllowed
  BY Always, InvSuffices, PTL

\* A rejected call changed nothing, and it was neither charged nor recorded as
\* begun unless the rejection came from inside the operation, which is so of
\* mpy_exec and weintek_opcua_write only (the order of every tool's checks).
THEOREM RejectionsCostNothing == Spec => []RejectedCostNothing
  BY Always, InvSuffices, PTL
=============================================================================

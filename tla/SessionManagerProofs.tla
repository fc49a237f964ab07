----------------------- MODULE SessionManagerProofs -----------------------
(***************************************************************************)
(* Proofs about SessionManager, for any threads, ports and bauds and any   *)
(* bound on the sessions built.  NothingLost is inductive only together    *)
(* with what the calls under way remember: that the session an open found  *)
(* dead, and the one a close is about to unregister, have been told to     *)
(* close, so that neither can be the live one the registry now holds.      *)
(***************************************************************************)
EXTENDS SessionManager, TLAPS

\* The places of a call at which the session it works on is `mine'.
MineAt ==
    {"register", "lost", "lostJoin", "close", "closeJoin", "unregister", "pop", "popJoin"}

\* A call that works on a session has one.
Targets ==
    \A t \in Threads :
        /\ pc[t] \in MineAt => mine[t] \in Sessions
        /\ pc[t] \in {"stale", "staleJoin"} => found[t] \in Sessions

\* A new session has the port its open asked for.
Asked ==
    \A t \in Threads : pc[t] = "register" => made[mine[t]].port = want[t].port

\* The dead session an open found has been closed before the new one is built.
StaleClosed ==
    \A t \in Threads :
        pc[t] \in {"staleJoin", "construct", "register"} /\ found[t] # None
            => found[t] \in closing

\* A close unregisters only after it has told the session to close.
Closed ==
    \A t \in Threads : pc[t] \in {"closeJoin", "unregister"} => mine[t] \in closing

\* A session is registered under its own port.
OwnPort ==
    \A p \in Ports : registry[p] # None => made[registry[p]].port = p

IInv == TypeOK /\ Targets /\ Asked /\ StaleClosed /\ Closed /\ OwnPort /\ NothingLost

-----------------------------------------------------------------------------

LEMMA InitIInv == Init => IInv
  <1> SUFFICES ASSUME Init PROVE IInv
    OBVIOUS
  <1>1. made \in Seq([port : Ports, baud : Bauds]) /\ Len(made) = 0
    BY DEF Init
  <1>2. Sessions = {} /\ None \in SessionOrNone
    BY <1>1 DEF Sessions, SessionOrNone, None
  <1>3. TypeOK
    BY <1>1, <1>2 DEF Init, TypeOK, Places
  <1>4. Targets /\ Asked /\ StaleClosed /\ Closed /\ OwnPort /\ NothingLost
    BY <1>2 DEF Init, Targets, Asked, StaleClosed, Closed, OwnPort, NothingLost, MineAt
  <1> QED BY <1>3, <1>4 DEF IInv

LEMMA Element ==
    ASSUME NEW R, NEW q \in Seq(R), NEW i \in 1..Len(q) PROVE q[i] \in R
  OBVIOUS

\* Every session built has a port and a baud.
LEMMA Made ==
    ASSUME TypeOK
    PROVE  /\ Len(made) \in Nat
           /\ \A s \in Sessions : made[s] \in [port : Ports, baud : Bauds]
           /\ \A s \in Sessions : made[s].port \in Ports
  <1>1. made \in Seq([port : Ports, baud : Bauds])
    BY DEF TypeOK
  <1>2. \A s \in Sessions : made[s] \in [port : Ports, baud : Bauds]
    BY <1>1, Element DEF Sessions
  <1> QED BY <1>1, <1>2

\* What appending a session does to the sequence of those built.
LEMMA Built ==
    ASSUME TypeOK, NEW t \in Threads, made' = Append(made, want[t])
    PROVE  /\ made' \in Seq([port : Ports, baud : Bauds])
           /\ Len(made') = Len(made) + 1
           /\ Len(made) \in Nat
           /\ made'[Len(made) + 1] = want[t]
           /\ \A s \in Sessions : made'[s] = made[s]
           /\ Sessions' = Sessions \cup {Len(made) + 1}
  <1>1. want[t] \in [port : Ports, baud : Bauds] /\ made \in Seq([port : Ports, baud : Bauds])
    BY DEF TypeOK
  <1> QED
    BY <1>1 DEF Sessions

LEMMA OpenLookStep ==
    ASSUME IInv, NEW t \in Threads, NEW p \in Ports, NEW b \in Bauds, OpenLook(t, p, b)
    PROVE  IInv'
  <1> USE DEF OpenLook, IInv, sessionVars, Sessions, SessionOrNone, None
  <1>a. /\ Len(made) \in Nat
        /\ registry[p] \in 0..Len(made)
        /\ pc \in [Threads -> Places]
        /\ mine \in [Threads -> 0..Len(made)] /\ found \in [Threads -> 0..Len(made)]
    BY DEF TypeOK
  <1>b. pc' \in [Threads -> Places]
    BY <1>a DEF Places, CloseAt
  <1>c. mine' \in [Threads -> 0..Len(made)] /\ found' \in [Threads -> 0..Len(made)]
    <2>1. registry[p] \in 0..Len(made) /\ 0 \in 0..Len(made)
      BY <1>a
    <2>2. CASE registry[p] # None /\ Live(registry[p])
      BY <2>1, <2>2, <1>a
    <2>3. CASE ~(registry[p] # None /\ Live(registry[p]))
      BY <2>1, <2>3, <1>a
    <2> QED BY <2>2, <2>3
  <1>d. want' \in [Threads -> [port : Ports, baud : Bauds]]
    BY DEF TypeOK
  <1>1. TypeOK'
    BY <1>b, <1>c, <1>d DEF TypeOK
  <1>2. Targets'
    BY <1>a DEF Targets, MineAt
  <1>3. Asked' /\ Closed' /\ OwnPort'
    BY DEF TypeOK, Asked, Closed, OwnPort
  <1>4. StaleClosed'
    BY DEF TypeOK, StaleClosed
  <1>5. NothingLost'
    BY DEF TypeOK, NothingLost, InHand, Live
  <1> QED BY <1>1, <1>2, <1>3, <1>4, <1>5

LEMMA ConstructStep ==
    ASSUME IInv, NEW t \in Threads, Construct(t)
    PROVE  IInv'
  <1> USE DEF Construct, IInv
  <1> DEFINE new == Len(made) + 1
  <1>1. /\ made' \in Seq([port : Ports, baud : Bauds])
        /\ Len(made') = Len(made) + 1
        /\ Len(made) \in Nat
        /\ made'[new] = want[t]
        /\ \A s \in Sessions : made'[s] = made[s]
        /\ Sessions' = Sessions \cup {new}
    BY Built
  <1>2. new \notin Sessions /\ SessionOrNone' = SessionOrNone \cup {new}
    BY <1>1 DEF Sessions, SessionOrNone
  <1>3. TypeOK'
    BY <1>1, <1>2 DEF TypeOK, Places, CloseAt, JoinAt
  <1>4. Targets'
    BY <1>1 DEF TypeOK, Targets, MineAt
  <1>5. Asked'
    BY <1>1 DEF TypeOK, Asked, Targets, MineAt
  <1>6. StaleClosed' /\ Closed'
    BY DEF TypeOK, StaleClosed, Closed
  <1>7. OwnPort'
    BY <1>1 DEF TypeOK, OwnPort, Sessions, SessionOrNone, None
  <1>8. NothingLost'
    <2> SUFFICES ASSUME NEW s \in Sessions', Live(s)'
                 PROVE  (registry[made[s].port] = s \/ InHand(s))'
      BY DEF NothingLost
    <2>1. CASE s = new
      BY <2>1, <1>1 DEF TypeOK, InHand
    <2>2. CASE s \in Sessions
      <3>1. registry[made[s].port] = s \/ InHand(s)
        BY <2>2 DEF NothingLost, Live
      <3>2. InHand(s) => InHand(s)'
        BY DEF TypeOK, InHand
      <3> QED BY <3>1, <3>2, <2>2, <1>1
    <2> QED BY <2>1, <2>2, <1>1
  <1> QED BY <1>3, <1>4, <1>5, <1>6, <1>7, <1>8

LEMMA RegisterStep ==
    ASSUME IInv, NEW t \in Threads, Register(t)
    PROVE  IInv'
  <1> USE DEF Register, IInv, sessionVars, Sessions, SessionOrNone, None
  <1>1. mine[t] \in Sessions /\ made[mine[t]].port = want[t].port /\ want[t].port \in Ports
    BY DEF TypeOK, Targets, Asked, MineAt
  <1>a. registry' \in [Ports -> SessionOrNone] /\ found' \in [Threads -> SessionOrNone]
    <2>1. /\ registry[want[t].port] \in 0..Len(made) /\ 0 \in 0..Len(made)
          /\ mine[t] \in 0..Len(made)
          /\ registry \in [Ports -> 0..Len(made)] /\ found \in [Threads -> 0..Len(made)]
      BY <1>1, Made DEF TypeOK
    <2>2. CASE Overtaken(t)
      BY <2>1, <2>2
    <2>3. CASE ~Overtaken(t)
      BY <2>1, <2>3
    <2> QED BY <2>2, <2>3
  <1>b. pc' \in [Threads -> Places]
    BY DEF TypeOK, Places, CloseAt
  <1>2. TypeOK'
    BY <1>a, <1>b DEF TypeOK
  <1>3. Targets' /\ Asked' /\ StaleClosed' /\ Closed'
    BY <1>1 DEF TypeOK, Targets, Asked, StaleClosed, Closed, MineAt
  <1>4. OwnPort'
    BY <1>1 DEF TypeOK, OwnPort
  <1>5. NothingLost'
    <2> SUFFICES ASSUME NEW s \in Sessions, Live(s)
                 PROVE  (registry[made[s].port] = s \/ InHand(s))'
      BY DEF NothingLost, Live
    <2>1. registry[made[s].port] = s \/ InHand(s)
      BY DEF NothingLost
    <2>2. CASE Overtaken(t)
      BY <2>1, <2>2 DEF TypeOK, InHand
    <2>3. CASE ~Overtaken(t)
      <3>1. registry[want[t].port] = s => FALSE \/ s = mine[t]
        BY <2>3 DEF Overtaken, StaleClosed, Live
      <3>2. CASE s = mine[t]
        BY <3>2, <2>3, <1>1 DEF TypeOK
      <3>3. CASE s # mine[t] /\ InHand(s)
        BY <3>3, <2>3 DEF TypeOK, InHand
      <3>4. CASE s # mine[t] /\ registry[made[s].port] = s
        <4>1. made[s].port \in Ports
          BY Made
        <4>2. made[s].port # want[t].port
          BY <3>1, <3>4
        <4> QED BY <4>1, <4>2, <3>4, <2>3 DEF TypeOK
      <3> QED BY <2>1, <3>2, <3>3, <3>4
    <2> QED BY <2>2, <2>3
  <1> QED BY <1>2, <1>3, <1>4, <1>5

LEMMA CloseStep ==
    ASSUME IInv, NEW t \in Threads, NEW p \in Ports, Close(t, p) \/ ClosePort(t, p)
    PROVE  IInv'
  <1> USE DEF Close, ClosePort, IInv, sessionVars, Sessions, SessionOrNone, None
  <1>a. registry[p] \in Sessions /\ registry[p] \in SessionOrNone /\ None \in SessionOrNone
    BY Made DEF TypeOK
  <1>b. registry' \in [Ports -> SessionOrNone] /\ mine' \in [Threads -> SessionOrNone]
    <2>1. registry \in [Ports -> SessionOrNone] /\ mine \in [Threads -> SessionOrNone]
      BY DEF TypeOK
    <2>2. CASE Close(t, p)
      BY <2>1, <2>2, <1>a
    <2>3. CASE ClosePort(t, p)
      BY <2>1, <2>3, <1>a
    <2> QED BY <2>2, <2>3
  <1>c. pc' \in [Threads -> Places]
    BY DEF TypeOK, Places, CloseAt
  <1>1. TypeOK' /\ Targets'
    BY <1>a, <1>b, <1>c DEF TypeOK, Targets, MineAt
  <1>2. Asked' /\ StaleClosed' /\ Closed' /\ OwnPort'
    BY DEF TypeOK, Asked, StaleClosed, Closed, OwnPort
  <1>3. NothingLost'
    <2> SUFFICES ASSUME NEW s \in Sessions, Live(s)
                 PROVE  (registry[made[s].port] = s \/ InHand(s))'
      BY DEF NothingLost, Live
    <2>1. registry[made[s].port] = s \/ InHand(s)
      BY DEF NothingLost
    <2>2. InHand(s) => InHand(s)'
      BY DEF TypeOK, InHand
    <2>3. CASE Close(t, p)
      BY <2>1, <2>2, <2>3
    <2>4. CASE ClosePort(t, p)
      <3>1. registry[p] = s => InHand(s)'
        BY <2>4 DEF TypeOK, InHand
      <3>2. made[s].port # p => registry'[made[s].port] = registry[made[s].port]
        BY <2>4 DEF TypeOK
      <3> QED BY <2>1, <2>2, <2>4, <3>1, <3>2
    <2> QED BY <2>3, <2>4
  <1> QED BY <1>1, <1>2, <1>3

LEMMA BeginCloseStep ==
    ASSUME IInv, NEW t \in Threads, BeginClose(t)
    PROVE  IInv'
  <1> USE DEF BeginClose, IInv, Sessions, SessionOrNone, None
  <1>1. Target(t) \in Sessions /\ closing \subseteq closing'
    BY DEF Target, Targets, CloseAt, MineAt
  <1>2. TypeOK'
    BY <1>1 DEF TypeOK, Places, CloseAt, JoinAt
  <1>3. Targets'
    BY DEF TypeOK, Targets, CloseAt, MineAt
  <1>4. Asked' /\ OwnPort'
    BY DEF TypeOK, Asked, OwnPort, CloseAt
  <1>5. StaleClosed' /\ Closed'
    BY DEF TypeOK, StaleClosed, Closed, CloseAt, Target
  <1>6. NothingLost'
    <2> SUFFICES ASSUME NEW s \in Sessions, Live(s)'
                 PROVE  (registry[made[s].port] = s \/ InHand(s))'
      BY DEF NothingLost
    <2>1. Live(s) /\ s # Target(t)
      BY DEF Live
    <2>2. InHand(s) => InHand(s)'
      BY <2>1 DEF TypeOK, InHand, Target, CloseAt
    <2> QED BY <2>1, <2>2 DEF NothingLost
  <1> QED BY <1>2, <1>3, <1>4, <1>5, <1>6

LEMMA EndCloseStep ==
    ASSUME IInv, NEW t \in Threads, EndClose(t) \/ ConstructRaises(t)
    PROVE  IInv'
  <1> USE DEF EndClose, ConstructRaises, IInv, sessionVars, Sessions, SessionOrNone, None
  <1>a. /\ mine' \in [Threads -> SessionOrNone] /\ found' \in [Threads -> SessionOrNone]
        /\ holding' \in BOOLEAN
    <2>1. /\ 0 \in 0..Len(made) /\ found[t] \in 0..Len(made) /\ mine[t] \in 0..Len(made)
          /\ mine \in [Threads -> 0..Len(made)] /\ found \in [Threads -> 0..Len(made)]
          /\ holding \in BOOLEAN
      BY Made DEF TypeOK
    <2>2. CASE EndClose(t) /\ pc[t] = "lostJoin"
      BY <2>1, <2>2
    <2>3. CASE EndClose(t) /\ pc[t] # "lostJoin"
      BY <2>1, <2>3
    <2>4. CASE ConstructRaises(t)
      BY <2>1, <2>4
    <2> QED BY <2>2, <2>3, <2>4
  <1>b. pc' \in [Threads -> Places]
    BY DEF TypeOK, Places, CloseAt, JoinAt
  <1>1. TypeOK'
    BY <1>a, <1>b DEF TypeOK
  <1>2. Targets' /\ Asked'
    BY DEF TypeOK, Targets, Asked, JoinAt, MineAt
  <1>3. StaleClosed' /\ Closed' /\ OwnPort'
    BY DEF TypeOK, StaleClosed, Closed, OwnPort, JoinAt
  <1>4. NothingLost'
    <2> SUFFICES ASSUME NEW s \in Sessions, Live(s)
                 PROVE  (registry[made[s].port] = s \/ InHand(s))'
      BY DEF NothingLost, Live
    <2>1. InHand(s) => InHand(s)'
      BY DEF TypeOK, InHand, JoinAt
    <2> QED BY <2>1 DEF NothingLost
  <1> QED BY <1>1, <1>2, <1>3, <1>4

LEMMA UnregisterStep ==
    ASSUME IInv, NEW t \in Threads, Unregister(t)
    PROVE  IInv'
  <1> USE DEF Unregister, IInv, sessionVars, Sessions, SessionOrNone, None
  <1>a. mine[t] \in Sessions /\ mine[t] \in closing
    BY DEF Targets, Closed, MineAt
  <1>1. mine[t] \in Sessions /\ mine[t] \in closing /\ made[mine[t]].port \in Ports
    BY <1>a, Made
  <1>b. registry' \in [Ports -> SessionOrNone] /\ mine' \in [Threads -> SessionOrNone]
    BY <1>1, Made DEF TypeOK
  <1>2. TypeOK'
    BY <1>b DEF TypeOK, Places, CloseAt, JoinAt
  <1>3. Targets' /\ Asked' /\ StaleClosed' /\ Closed'
    BY DEF TypeOK, Targets, Asked, StaleClosed, Closed, MineAt
  <1>4. OwnPort'
    BY <1>1 DEF TypeOK, OwnPort
  <1>5. NothingLost'
    <2> SUFFICES ASSUME NEW s \in Sessions, Live(s)
                 PROVE  (registry[made[s].port] = s \/ InHand(s))'
      BY DEF NothingLost, Live
    <2>1. InHand(s) => InHand(s)'
      BY DEF TypeOK, InHand
    <2>2. registry[made[s].port] = s => registry'[made[s].port] = s
      BY <1>1 DEF TypeOK, Live
    <2> QED BY <2>1, <2>2 DEF NothingLost
  <1> QED BY <1>2, <1>3, <1>4, <1>5

LEMMA SessionStep ==
    ASSUME IInv, NEW s \in Sessions, ReaderStops(s) \/ ReaderFails(s) \/ ClearTimesOut(s)
    PROVE  IInv'
  <1> USE DEF ReaderStops, ReaderFails, ClearTimesOut, IInv, Sessions, SessionOrNone, None
  <1>1. TypeOK'
    BY DEF TypeOK
  <1>2. Targets' /\ Asked' /\ StaleClosed' /\ Closed' /\ OwnPort'
    BY DEF Targets, Asked, StaleClosed, Closed, OwnPort
  <1>3. NothingLost'
    BY DEF NothingLost, InHand, Live
  <1> QED BY <1>1, <1>2, <1>3

LEMMA NextIInv == IInv /\ [Next]_vars => IInv'
  <1> SUFFICES ASSUME IInv, [Next]_vars PROVE IInv'
    OBVIOUS
  <1>1. CASE UNCHANGED vars
    BY <1>1 DEF vars, IInv, TypeOK, Targets, Asked, StaleClosed, Closed, OwnPort,
                NothingLost, InHand, Live, Sessions, SessionOrNone
  <1>2. CASE Next
    BY <1>2, OpenLookStep, ConstructStep, RegisterStep, CloseStep, BeginCloseStep,
       EndCloseStep, UnregisterStep, SessionStep DEF Next, Step
  <1> QED BY <1>1, <1>2

LEMMA Inductive == Spec => []IInv
  BY InitIInv, NextIInv, PTL DEF Spec

-----------------------------------------------------------------------------

\* The variables of the registry always have their types.
THEOREM TypeCorrect == Spec => []TypeOK
  <1>1. IInv => TypeOK
    BY DEF IInv
  <1> QED BY <1>1, Inductive, PTL

\* No live session is lost: it is registered, or in the hands of the call that
\* registers or closes it.
THEOREM NoSessionLost == Spec => []NothingLost
  <1>1. IInv => NothingLost
    BY DEF IInv
  <1> QED BY <1>1, Inductive, PTL

\* A live session leaves the registry only by the close_port that closes it.
THEOREM OnlyClosePortRemoves == Spec => LiveStaysRegistered
  <1> DEFINE Kept ==
        \A p \in Ports :
          registry[p] # None /\ Live(registry[p]) /\ registry'[p] # registry[p] =>
            /\ registry'[p] = None
            /\ \E t \in Threads : pc'[t] = "pop" /\ mine'[t] = registry[p]
  <1>1. IInv /\ [Next]_vars => [Kept]_vars
    <2> SUFFICES ASSUME IInv, Next, NEW p \in Ports, registry[p] # None,
                        Live(registry[p]), registry'[p] # registry[p]
                 PROVE  /\ registry'[p] = None
                        /\ \E t \in Threads : pc'[t] = "pop" /\ mine'[t] = registry[p]
      OBVIOUS
    <2> USE DEF IInv
    <2>1. ASSUME NEW t \in Threads, Register(t) PROVE FALSE
      BY <2>1 DEF Register, Overtaken, StaleClosed, Live, TypeOK
    <2>2. ASSUME NEW t \in Threads, Unregister(t) PROVE FALSE
      BY <2>2 DEF Unregister, Closed, Live, TypeOK
    <2>3. ASSUME NEW t \in Threads, NEW q \in Ports, ClosePort(t, q)
          PROVE  /\ registry'[p] = None
                 /\ \E u \in Threads : pc'[u] = "pop" /\ mine'[u] = registry[p]
      BY <2>3 DEF ClosePort, TypeOK
    <2>4. registry' # registry
      OBVIOUS
    <2> QED
      BY <2>1, <2>2, <2>3, <2>4
      DEF Next, Step, OpenLook, Construct, ConstructRaises, Close, BeginClose, EndClose,
          ReaderStops, ReaderFails, ClearTimesOut
  <1> QED
    BY <1>1, Inductive, PTL DEF Spec, LiveStaysRegistered

\* No live session is lost by the manager.
THEOREM SoundRegistry == Spec => []RegistrySound
BY TypeCorrect, NoSessionLost, PTL DEF RegistrySound
=============================================================================

--------------------------- MODULE SessionManager ---------------------------
(***************************************************************************)
(* The registry of serial sessions, one for each port: SessionManager of   *)
(* serial_session.py, called from the worker threads of the server.  open  *)
(* looks under the lock, builds the session outside it and registers it    *)
(* under the lock again; close and close_port wait up to two seconds for   *)
(* the session's reader outside the lock.  A session is its index in       *)
(* `made'; of its inner life only what the registry sees is kept here:     *)
(* told to close, failed, its reader thread still reading the port.        *)
(***************************************************************************)
EXTENDS Integers, Sequences

CONSTANTS
    Threads,       \* the worker threads that call the manager
    Ports,
    Bauds,
    MaxSessions    \* bound on the sessions ever built

ASSUME MaxSessionsAssumption == MaxSessions \in Nat

VARIABLES
    made,        \* the sessions built, with their port and baud, oldest first
    registry,    \* _sessions: the session registered for each port
    closing,     \* sessions whose _closing event is set
    failed,      \* sessions whose _failed event is set
    reading,     \* sessions whose reader thread runs
    holding,     \* a thread holds the manager's _lock across a close
    pc,          \* where each thread is in its call
    want,        \* the port and baud an open was called with
    found,       \* what open's last look found registered: `stale', `current'
    mine         \* the session a call built or closes; after it, the one it returned

vars == <<made, registry, closing, failed, reading, holding, pc, want, found, mine>>
sessionVars == <<made, closing, failed, reading>>

-----------------------------------------------------------------------------

None == 0
Sessions == 1..Len(made)
SessionOrNone == 0..Len(made)

\* What status()["open"] says of a session.
Live(s) == s \notin closing /\ s \notin failed

CloseAt == {"stale", "lost", "close", "pop"}
JoinAt == {"staleJoin", "lostJoin", "closeJoin", "popJoin"}
Places == {"idle", "construct", "register", "unregister"} \cup CloseAt \cup JoinAt

\* The session the close() that thread t is in works on.
Target(t) == IF pc[t] \in {"stale", "staleJoin"} THEN found[t] ELSE mine[t]

Init ==
    /\ made = << >>
    /\ registry = [p \in Ports |-> None]
    /\ closing = {} /\ failed = {} /\ reading = {}
    /\ holding = FALSE
    /\ pc = [t \in Threads |-> "idle"]
    /\ want \in [Threads -> [port : Ports, baud : Bauds]]
    /\ found = [t \in Threads |-> None]
    /\ mine = [t \in Threads |-> None]

-----------------------------------------------------------------------------
(* open *)

\* The first look: a live session is returned at its own baud and refused at
\* another; a dead one, if any, is to be closed first.
OpenLook(t, p, b) ==
    LET existing == registry[p] IN
    /\ pc[t] = "idle" /\ ~holding
    /\ want' = [want EXCEPT ![t] = [port |-> p, baud |-> b]]
    /\ IF existing # None /\ Live(existing)
       THEN /\ mine' = [mine EXCEPT ![t] =
                          IF made[existing].baud = b THEN existing ELSE None]
            /\ UNCHANGED <<pc, found>>
       ELSE /\ mine' = [mine EXCEPT ![t] = None]
            /\ found' = [found EXCEPT ![t] = existing]
            /\ pc' = [pc EXCEPT ![t] = IF existing = None THEN "construct" ELSE "stale"]
    /\ UNCHANGED <<sessionVars, registry, holding>>

\* SerialSession(): the port opens and its reader starts.
Construct(t) ==
    /\ pc[t] = "construct" /\ Len(made) < MaxSessions
    /\ made' = Append(made, want[t])
    /\ reading' = reading \cup {Len(made) + 1}
    /\ mine' = [mine EXCEPT ![t] = Len(made) + 1]
    /\ pc' = [pc EXCEPT ![t] = "register"]
    /\ UNCHANGED <<registry, closing, failed, holding, want, found>>

\* SerialSession() could not open the port; open raises SERIAL_ERROR.
ConstructRaises(t) ==
    /\ pc[t] = "construct"
    /\ pc' = [pc EXCEPT ![t] = "idle"]
    /\ found' = [found EXCEPT ![t] = None]
    /\ UNCHANGED <<sessionVars, registry, holding, want, mine>>

\* Mutant: no second look at the registry.
NeverOvertaken(t) == FALSE

\* Another thread registered a session that is still live while this one was
\* building its own.
Overtaken(t) ==
    LET current == registry[want[t].port]
    IN  current # None /\ current # found[t] /\ Live(current)

\* The second look: register the new session, or keep the lock, close the new
\* session and return the other thread's.
Register(t) ==
    /\ pc[t] = "register" /\ ~holding
    /\ IF Overtaken(t)
       THEN /\ holding' = TRUE
            /\ found' = [found EXCEPT ![t] = registry[want[t].port]]
            /\ pc' = [pc EXCEPT ![t] = "lost"]
            /\ UNCHANGED registry
       ELSE /\ registry' = [registry EXCEPT ![want[t].port] = mine[t]]
            /\ found' = [found EXCEPT ![t] = None]
            /\ pc' = [pc EXCEPT ![t] = "idle"]
            /\ UNCHANGED holding
    /\ UNCHANGED <<sessionVars, want, mine>>

-----------------------------------------------------------------------------
(* close, close_port, and SerialSession.close, which every path goes through *)

\* close(session_id): get() finds the session in the registry.
Close(t, p) ==
    /\ pc[t] = "idle" /\ ~holding /\ registry[p] # None
    /\ mine' = [mine EXCEPT ![t] = registry[p]]
    /\ pc' = [pc EXCEPT ![t] = "close"]
    /\ UNCHANGED <<sessionVars, registry, holding, want, found>>

\* close_port(port): the session leaves the registry first and is closed after.
ClosePort(t, p) ==
    /\ pc[t] = "idle" /\ ~holding /\ registry[p] # None
    /\ mine' = [mine EXCEPT ![t] = registry[p]]
    /\ registry' = [registry EXCEPT ![p] = None]
    /\ pc' = [pc EXCEPT ![t] = "pop"]
    /\ UNCHANGED <<sessionVars, holding, want, found>>

\* SerialSession.close() sets _closing and starts to wait for the reader.
BeginClose(t) ==
    /\ pc[t] \in CloseAt
    /\ closing' = closing \cup {Target(t)}
    /\ pc' = [pc EXCEPT ![t] = CASE pc[t] = "stale" -> "staleJoin"
                                 [] pc[t] = "lost"  -> "lostJoin"
                                 [] pc[t] = "close" -> "closeJoin"
                                 [] pc[t] = "pop"   -> "popJoin"]
    /\ UNCHANGED <<made, failed, reading, registry, holding, want, found, mine>>

\* Mutant: the losing open returns with the manager's lock.
EndCloseKeepingLock(t) ==
    /\ pc[t] \in JoinAt
    /\ holding' = holding
    /\ pc' = [pc EXCEPT ![t] = CASE pc[t] = "staleJoin" -> "construct"
                                 [] pc[t] = "closeJoin" -> "unregister"
                                 [] OTHER               -> "idle"]
    /\ mine' = [mine EXCEPT ![t] = CASE pc[t] = "lostJoin" -> found[t]
                                     [] pc[t] = "popJoin"  -> None
                                     [] OTHER              -> @]
    /\ found' = [found EXCEPT ![t] = IF pc[t] = "lostJoin" THEN None ELSE @]
    /\ UNCHANGED <<sessionVars, registry, want>>

\* The wait is over, because the reader ended or because its two seconds did,
\* and the descriptor is closed.
EndClose(t) ==
    /\ pc[t] \in JoinAt
    /\ holding' = (holding /\ pc[t] # "lostJoin")
    /\ pc' = [pc EXCEPT ![t] = CASE pc[t] = "staleJoin" -> "construct"
                                 [] pc[t] = "closeJoin" -> "unregister"
                                 [] OTHER               -> "idle"]
    /\ mine' = [mine EXCEPT ![t] = CASE pc[t] = "lostJoin" -> found[t]
                                     [] pc[t] = "popJoin"  -> None
                                     [] OTHER              -> @]
    /\ found' = [found EXCEPT ![t] = IF pc[t] = "lostJoin" THEN None ELSE @]
    /\ UNCHANGED <<sessionVars, registry, want>>

\* Mutant: the registry's entry is dropped whoever it belongs to.
UnregisterByPort(t) ==
    /\ pc[t] = "unregister" /\ ~holding
    /\ registry' = [registry EXCEPT ![made[mine[t]].port] = None]
    /\ mine' = [mine EXCEPT ![t] = None]
    /\ pc' = [pc EXCEPT ![t] = "idle"]
    /\ UNCHANGED <<sessionVars, holding, want, found>>

\* The end of close(): drop the entry if it is still this session's.
Unregister(t) ==
    LET p == made[mine[t]].port IN
    /\ pc[t] = "unregister" /\ ~holding
    /\ registry' = [registry EXCEPT ![p] = IF @ = mine[t] THEN None ELSE @]
    /\ mine' = [mine EXCEPT ![t] = None]
    /\ pc' = [pc EXCEPT ![t] = "idle"]
    /\ UNCHANGED <<sessionVars, holding, want, found>>

-----------------------------------------------------------------------------
(* The sessions themselves *)

\* The reader sees _closing at the top of its loop.
ReaderStops(s) ==
    /\ s \in reading \cap closing
    /\ reading' = reading \ {s}
    /\ UNCHANGED <<made, registry, closing, failed, holding, pc, want, found, mine>>

\* read() raises: the board was unplugged, or close() closed the descriptor.
ReaderFails(s) ==
    /\ s \in reading
    /\ reading' = reading \ {s}
    /\ failed' = failed \cup {s}
    /\ UNCHANGED <<made, registry, closing, holding, pc, want, found, mine>>

\* A clear() of a session some call was given waits two seconds for the reader
\* in vain: the session has failed, its reader runs on.
ClearTimesOut(s) ==
    /\ s \in Sessions /\ Live(s)
    /\ \A t \in Threads : ~(pc[t] = "register" /\ mine[t] = s)
    /\ failed' = failed \cup {s}
    /\ UNCHANGED <<made, registry, closing, reading, holding, pc, want, found, mine>>

Step(t) ==
    \/ Construct(t) \/ ConstructRaises(t) \/ Register(t)
    \/ BeginClose(t) \/ EndClose(t) \/ Unregister(t)

Next ==
    \/ \E t \in Threads :
         \/ Step(t)
         \/ \E p \in Ports : Close(t, p) \/ ClosePort(t, p)
         \/ \E p \in Ports, b \in Bauds : OpenLook(t, p, b)
    \/ \E s \in Sessions : ReaderStops(s) \/ ReaderFails(s) \/ ClearTimesOut(s)

Spec == Init /\ [][Next]_vars
FairSpec == Spec /\ \A t \in Threads : WF_vars(Step(t))

-----------------------------------------------------------------------------
(* Properties *)

TypeOK ==
    /\ made \in Seq([port : Ports, baud : Bauds])
    /\ registry \in [Ports -> SessionOrNone]
    /\ closing \in SUBSET Sessions
    /\ failed \in SUBSET Sessions
    /\ reading \in SUBSET Sessions
    /\ holding \in BOOLEAN
    /\ pc \in [Threads -> Places]
    /\ want \in [Threads -> [port : Ports, baud : Bauds]]
    /\ found \in [Threads -> SessionOrNone]
    /\ mine \in [Threads -> SessionOrNone]

\* A call is about to register or to close session s.
InHand(s) ==
    \E t \in Threads : pc[t] \in {"register", "lost", "pop"} /\ mine[t] = s

\* No live session is ever lost: it is registered for its port, so that it can
\* be found and closed, or a call is at that moment registering or closing it.
\* It follows that no two live sessions share a port once the calls on it have
\* returned ("popping by port would then drop the new one from the registry
\* while it still holds the port").
NothingLost ==
    \A s \in Sessions : Live(s) => registry[made[s].port] = s \/ InHand(s)

\* The registry and the sessions it knows.
RegistrySound == TypeOK /\ NothingLost

\* A live session leaves the registry only into the hands of the close_port
\* that took it out: no open overwrites it, and no close of an earlier session
\* on the port drops it.
LiveStaysRegistered ==
    [][\A p \in Ports :
         registry[p] # None /\ Live(registry[p]) /\ registry'[p] # registry[p] =>
            /\ registry'[p] = None
            /\ \E t \in Threads : pc'[t] = "pop" /\ mine'[t] = registry[p]]_vars

\* Every call returns, though a losing open waits for its reader with the
\* manager's lock held.
CallsReturn == \A t \in Threads : pc[t] # "idle" ~> pc[t] = "idle"
=============================================================================

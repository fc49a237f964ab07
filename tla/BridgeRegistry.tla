--------------------------- MODULE BridgeRegistry ---------------------------
(***************************************************************************)
(* The registry of running bridges, Registry of bridge.py, and the calls   *)
(* around it on the server's worker threads: serial_bridge_start reserves  *)
(* the port under the lock, writes the audit record and starts the         *)
(* bridge's thread; serial_read and its kin first ask whether the port is  *)
(* bridged (_require_unbridged) and then use the session.  A bridge is its *)
(* index in `built'; what its thread does is BridgeLoop.                   *)
(***************************************************************************)
EXTENDS Integers, Sequences, FiniteSets

CONSTANTS
    Threads,
    Ports,
    MaxBridges,    \* MAX_BRIDGES
    MaxBuilt       \* bound on the bridges ever built

ASSUME BoundsAssumption == {MaxBridges, MaxBuilt} \subseteq Nat

VARIABLES
    built,       \* the port of each bridge built, oldest first
    registered,  \* _bridges
    begun,       \* bridges whose _started flag is set
    alive,       \* bridges whose thread runs
    started,     \* bridges with a serial_bridge_started record
    stopped,     \* bridges whose on_stop has written serial_bridge_stopped, or tried to
    pc,          \* where each thread is in its call
    mine,        \* the bridge a start works on
    uses,        \* the port a serial call reads or writes
    checked,     \* history: how many bridges there had been when it was let through
    missed       \* history: bridges that the registry overlooked while they started

calls == <<uses, checked>>
vars == <<built, registered, begun, alive, started, stopped, pc, mine, calls, missed>>
bridgeVars == <<built, registered, begun, alive, started, stopped>>

Bridges == 1..Len(built)
NoBridge == 0

\* Mutant: a bridge that has not begun is not running.
RunningWithThread(b) == b \in alive

\* bridge.running: reserved and not begun, or its thread is alive.
Running(b) == b \notin begun \/ b \in alive
Active == {b \in registered : Running(b)}

Init ==
    /\ built = << >>
    /\ registered = {} /\ begun = {} /\ alive = {}
    /\ started = {} /\ stopped = {}
    /\ pc = [t \in Threads |-> "idle"]
    /\ mine = [t \in Threads |-> NoBridge]
    /\ uses \in [Threads -> Ports]
    /\ checked = [t \in Threads |-> 0]
    /\ missed = {}

-----------------------------------------------------------------------------
(* serial_bridge_start *)

Taken(p) == \E b \in Active : built[b] = p

\* Between _started = True and the start of its thread a bridge looks finished.
Hidden == {b \in registered : \E t \in Threads : mine[t] = b /\ pc[t] = "thread"}

\* Registry.add up to the reservation: refused if the port or every place is
\* taken; finished bridges are forgotten.
Reserve(t, p) ==
    /\ pc[t] = "idle" /\ Len(built) < MaxBuilt
    /\ built' = Append(built, p)
    /\ IF Taken(p) \/ Cardinality(Active) >= MaxBridges
       THEN UNCHANGED <<registered, pc, mine, missed>>
       ELSE /\ registered' = Active \cup {Len(built) + 1}
            /\ mine' = [mine EXCEPT ![t] = Len(built) + 1]
            /\ pc' = [pc EXCEPT ![t] = "audit"]
            /\ missed' = missed \cup Hidden
    /\ UNCHANGED <<begun, alive, started, stopped, calls>>

\* before_start: the audit record is written.
Audit(t) ==
    /\ pc[t] = "audit"
    /\ started' = started \cup {mine[t]}
    /\ pc' = [pc EXCEPT ![t] = "begin"]
    /\ UNCHANGED <<built, registered, begun, alive, stopped, mine, calls, missed>>

\* Mutant: the reservation stays after a refused record.
RefusedKeepingPort(t) ==
    /\ pc[t] = "audit"
    /\ pc' = [pc EXCEPT ![t] = "idle"]
    /\ mine' = [mine EXCEPT ![t] = NoBridge]
    /\ UNCHANGED <<bridgeVars, calls, missed>>

\* The record cannot be written: the reservation is given up.
AuditRefused(t) ==
    /\ pc[t] = "audit"
    /\ registered' = registered \ {mine[t]}
    /\ pc' = [pc EXCEPT ![t] = "idle"]
    /\ mine' = [mine EXCEPT ![t] = NoBridge]
    /\ UNCHANGED <<built, begun, alive, started, stopped, calls, missed>>

\* start() sets _started, and then starts the thread.
Begin(t) ==
    /\ pc[t] = "begin"
    /\ begun' = begun \cup {mine[t]}
    /\ pc' = [pc EXCEPT ![t] = "thread"]
    /\ UNCHANGED <<built, registered, alive, started, stopped, mine, calls, missed>>

StartThread(t) ==
    /\ pc[t] = "thread"
    /\ alive' = alive \cup {mine[t]}
    /\ pc' = [pc EXCEPT ![t] = "idle"]
    /\ mine' = [mine EXCEPT ![t] = NoBridge]
    /\ UNCHANGED <<built, registered, begun, started, stopped, calls, missed>>

-----------------------------------------------------------------------------
(* The end of a bridge, and the other users of a session *)

\* Mutant: the thread ends without its on_stop.
FinishUnrecorded(b) ==
    /\ b \in alive
    /\ alive' = alive \ {b}
    /\ UNCHANGED <<built, registered, begun, started, stopped, pc, mine, calls, missed>>

\* The bridge's thread writes its last record and ends.
Finish(b) ==
    /\ b \in alive
    /\ stopped' = stopped \cup {b}
    /\ alive' = alive \ {b}
    /\ UNCHANGED <<built, registered, begun, started, pc, mine, calls, missed>>

\* serial_read, serial_write, serial_query, serial_expect, serial_clear:
\* _require_unbridged, by Registry.by_port, and then the session.
UseSession(t, p) ==
    /\ pc[t] = "idle" /\ ~Taken(p)
    /\ uses' = [uses EXCEPT ![t] = p]
    /\ checked' = [checked EXCEPT ![t] = Len(built)]
    /\ missed' = missed \cup {b \in Hidden : built[b] = p}
    /\ pc' = [pc EXCEPT ![t] = "using"]
    /\ UNCHANGED <<bridgeVars, mine>>

DoneUsing(t) ==
    /\ pc[t] = "using"
    /\ pc' = [pc EXCEPT ![t] = "idle"]
    /\ UNCHANGED <<bridgeVars, mine, calls, missed>>

StartStep(t) == Audit(t) \/ AuditRefused(t) \/ Begin(t) \/ StartThread(t)

Next ==
    \/ \E t \in Threads :
         \/ StartStep(t) \/ DoneUsing(t)
         \/ \E p \in Ports : Reserve(t, p) \/ UseSession(t, p)
    \/ \E b \in Bridges : Finish(b)

Spec == Init /\ [][Next]_vars
FairSpec ==
    /\ Spec
    /\ \A t \in Threads : WF_vars(StartStep(t))
    /\ \A b \in 1..MaxBuilt : WF_vars(b \in Bridges /\ Finish(b))

-----------------------------------------------------------------------------
(* Properties *)

TypeOK ==
    /\ built \in Seq(Ports)
    /\ registered \subseteq Bridges /\ begun \subseteq Bridges /\ alive \subseteq Bridges
    /\ started \subseteq Bridges /\ stopped \subseteq Bridges /\ missed \subseteq Bridges
    /\ pc \in [Threads -> {"idle", "audit", "begin", "thread", "using"}]
    /\ mine \in [Threads -> {NoBridge} \cup Bridges]
    /\ uses \in [Threads -> Ports]
    /\ checked \in [Threads -> Nat]

\* A bridge publishes on the user's behalf only with its start in the log,
\* and a start that was refused leaves no record that nothing ends ("a refused
\* start leaves no `started' record without a `stopped'").
StartsAreAudited ==
    /\ alive \cup stopped \subseteq started
    /\ \A b \in started \ (alive \cup stopped) :
         \E t \in Threads : mine[t] = b /\ pc[t] \in {"begin", "thread"}

\* A port is taken only by a bridge that runs or that a start in progress is
\* about to run: no failure leaves a port bridged by nothing.
NoPhantomBridge ==
    \A b \in Active : b \in alive \/ \E t \in Threads : mine[t] = b

\* Bridges, their records and the ports they take belong together.
StartsSound == TypeOK /\ StartsAreAudited /\ NoPhantomBridge

\* "While a bridge runs it owns the session's input": it shares its port with
\* another bridge only if one of them was missed while it started, and with a
\* serial call only if it was missed or the call was let through before the
\* bridge was reserved (the check and the use are two steps).
SharedByRaceOnly ==
    \A b \in alive \ missed :
        /\ \A c \in alive \ missed : built[c] = built[b] => c = b
        /\ \A t \in Threads : pc[t] = "using" /\ uses[t] = built[b] => b > checked[t]

\* Every bridge with a start record gets its end record.
EndsAreAudited == \A b \in 1..MaxBuilt : b \in started ~> b \in stopped
=============================================================================

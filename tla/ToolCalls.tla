------------------------------ MODULE ToolCalls ------------------------------
(***************************************************************************)
(* Calls of the tools of server.py by several threads, while the user      *)
(* edits config.toml, the audit log may be unwritable, devices and         *)
(* services fail or time out, and the server may be killed and restarted.  *)
(*                                                                         *)
(* A call is what is left of its tool's stages (Tools).  Abstractions: a   *)
(* configuration is whether it loads and which targets it allows (the one  *)
(* section a call uses); a check that depends on the arguments, on another *)
(* component or on the world may go either way; RollingBudget says when a  *)
(* charge is admitted, AuditLog what a record is worth.                    *)
(***************************************************************************)
EXTENDS Tools, Naturals

CONSTANTS
    Threads,      \* the threads that run tools
    Targets,      \* hosts, pins, topics, nodes, buckets, ports
    MaxCalls,     \* bound: calls
    Beside,       \* bound: the tools of every call but the first
    MaxEdits      \* bound: configurations on disk, one after the other

VARIABLES
    files,        \* every config.toml there has been; the last is on disk
    calls,        \* every call, with what it did so far
    todo,         \* of each thread, what is left of its call
    call,         \* the number of its call
    snap          \* the number of the file it read last

vars == <<files, calls, todo, call, snap>>

\* A file that does not load allows nothing.
File == {f \in [loads : BOOLEAN, allows : SUBSET Targets] : f.loads \/ f.allows = {}}

\* A call: its tool, its target and the file on disk when it began; whether a
\* board, port or session was found, and by which file the target was allowed
\* (0: by none); whether it was charged, recorded, rejected for what it asked; whether a question or
\* command went out; whether a command took effect, or still will; the record
\* of its outcome; and whether the server was killed meanwhile.
Outcomes == {"none", "done", "failed", "unwritten"}
Flags == {"found", "charged", "started", "rejected", "sent", "applied", "late", "cut"}
NewCall(tool, target) ==
    [tool |-> tool, target |-> target, since |-> Len(files), judged |-> 0, outcome |-> "none",
     did |-> {}]

Init ==
    /\ files \in {<<f>> : f \in File}
    /\ calls = << >>
    /\ todo = [t \in Threads |-> << >>]
    /\ call = [t \in Threads |-> 0]
    /\ snap = [t \in Threads |-> 0]

-----------------------------------------------------------------------------
\* The user saves another configuration.
Edit ==
    /\ Len(files) < MaxEdits
    /\ \E f \in File \ {files[Len(files)]} : files' = Append(files, f)
    /\ UNCHANGED <<calls, todo, call, snap>>

\* A call of one of the tools.
Call(t, tool, target) ==
    /\ todo[t] = << >> /\ Len(calls) < MaxCalls
    /\ calls = << >> \/ tool \in Beside
    /\ todo' = [todo EXCEPT ![t] = tool]
    /\ calls' = Append(calls, NewCall(tool, target))
    /\ call' = [call EXCEPT ![t] = Len(calls) + 1]
    /\ snap' = [snap EXCEPT ![t] = 0]
    /\ UNCHANGED files

\* Mutant: the configuration is read once and kept.
ReadConfigOnce(t) == snap' = [snap EXCEPT ![t] = 1]

\* load_config: the file on disk is read.
ReadConfig(t) == snap' = [snap EXCEPT ![t] = Len(files)]

\* What the call has done, or knows, once stage s has passed.
Mark(s) ==
    CASE s \in {"session", "board", "port"} -> {"found"}
      [] s = "charge" -> {"charged"}
      [] s = "record" -> {"started"}
      [] s \in {"ask", "probe"} -> {"sent"}
      [] OTHER        -> {}

\* The configuration the call has read allows its target.
Allowed(t) == calls[call[t]].target \in files[snap[t]].allows

\* The configuration decides two of the stages; on the others, which depend on
\* the arguments, another component or the world, this model does not.
Admits(t, s) ==
    CASE s = "config" -> files[Len(files)].loads
      [] s = "target" -> Allowed(t)
      [] OTHER        -> TRUE
Refuses(t, s) == s \in {"config", "target"} => ~Admits(t, s)

Did(t, flags) == [calls EXCEPT ![call[t]].did = @ \cup flags]

\* The next stage of thread t's call.
At(t, stages) == todo[t] # << >> /\ Head(todo[t]) \in stages

\* A stage that is no command and no record of an outcome succeeds.
Pass(t) ==
    /\ At(t, Stages \ {"act", "probe", "outcome"})
    /\ Admits(t, Head(todo[t]))
    /\ IF Head(todo[t]) = "config" THEN ReadConfig(t) ELSE UNCHANGED snap
    /\ calls' = IF Head(todo[t]) = "target"
                THEN [calls EXCEPT ![call[t]].judged = snap[t]]
                ELSE Did(t, Mark(Head(todo[t])))
    /\ todo' = [todo EXCEPT ![t] = Tail(@)]
    /\ UNCHANGED <<files, call>>

\* One of the probes of ming_status: it looks its target up itself, and whatever
\* it raises is its result.
Probe(t) ==
    /\ At(t, {"probe"})
    /\ calls' = IF Allowed(t)
                THEN [Did(t, Mark("probe")) EXCEPT ![call[t]].judged = snap[t]] ELSE calls
    /\ todo' = [todo EXCEPT ![t] = Tail(@)]
    /\ UNCHANGED <<files, call, snap>>

\* Mutant: the failure of an operation is not noted.
UnwindUnnoted(t) == << >>

\* An exception of an operation whose first record is written is noted before
\* it goes on to the caller.  Anywhere else it ends the call (guard).
Unwind(t) ==
    IF "started" \in calls[call[t]].did /\ calls[call[t]].outcome = "none"
    THEN <<"failure">> ELSE << >>

\* A stage raises: a check, or the operation itself, rejects the call, or
\* something fails.  A question may have gone out before it failed.
Raise(t) ==
    /\ At(t, Stages \ {"act", "probe", "outcome"})
    /\ Refuses(t, Head(todo[t]))
    /\ calls' \in {Did(t, flags) : flags \in
                      IF Head(todo[t]) \in Checks \cup {"value"} THEN {{"rejected"}}
                      ELSE IF Head(todo[t]) = "ask" THEN {{}, {"sent"}} ELSE {{}}}
    /\ todo' = [todo EXCEPT ![t] = Unwind(t)]
    /\ UNCHANGED <<files, call, snap>>

\* The command takes effect.
Act(t) ==
    /\ At(t, {"act"})
    /\ calls' = Did(t, {"sent", "applied"})
    /\ todo' = [todo EXCEPT ![t] = Tail(@)]
    /\ UNCHANGED <<files, call, snap>>

\* The command fails, or times out: it had no effect, or had it unnoticed, or
\* is still on its way (a remote shell outlives the ssh client that waited).
ActRaises(t) ==
    /\ At(t, {"act"})
    /\ \E effect \in {{}, {"applied"}, {"late"}} : calls' = Did(t, {"sent"} \cup effect)
    /\ todo' = [todo EXCEPT ![t] = Unwind(t)]
    /\ UNCHANGED <<files, call, snap>>

\* It arrives after all.
Arrive(n) ==
    /\ "late" \in calls[n].did
    /\ calls' = [calls EXCEPT ![n].did = (@ \ {"late"}) \cup {"applied"}]
    /\ UNCHANGED <<files, todo, call, snap>>

\* _note_outcome: the record after the operation, unless the log cannot be
\* written (audit_warning).
NoteOutcome(t) ==
    /\ At(t, {"outcome", "failure"})
    /\ \E o \in {IF Head(todo[t]) = "outcome" THEN "done" ELSE "failed", "unwritten"} :
         calls' = [calls EXCEPT ![call[t]].outcome = o]
    /\ todo' = [todo EXCEPT ![t] = Tail(@)]
    /\ UNCHANGED <<files, call, snap>>

\* The server is killed and started again.  What it sent may still arrive.
Crash ==
    /\ \E t \in Threads : todo[t] # << >>
    /\ calls' = [n \in DOMAIN calls |->
                   IF \E t \in Threads : todo[t] # << >> /\ call[t] = n
                   THEN [calls[n] EXCEPT !.did = @ \cup {"cut"}] ELSE calls[n]]
    /\ todo' = [t \in Threads |-> << >>]
    /\ UNCHANGED <<files, call, snap>>

Step(t) == Pass(t) \/ Raise(t) \/ Probe(t) \/ Act(t) \/ ActRaises(t) \/ NoteOutcome(t)

Next ==
    \/ Edit \/ Crash
    \/ \E t \in Threads : Step(t) \/ \E tool \in Tools, target \in Targets : Call(t, tool, target)
    \/ \E n \in DOMAIN calls : Arrive(n)

Spec == Init /\ [][Next]_vars

-----------------------------------------------------------------------------
(* Properties *)

TypeOK ==
    /\ files \in Seq(File)
    /\ calls \in Seq([tool : Tools, target : Targets, since : Nat, judged : Nat,
                      outcome : Outcomes, did : SUBSET Flags])
    /\ todo \in [Threads -> Seq(Stages \cup {"failure"})]
    /\ call \in [Threads -> 0..Len(calls)]
    /\ snap \in [Threads -> 0..Len(files)]

\* "Nothing moves unless it is written": what a command changes, even one that
\* arrives after its call gave up or after the server was killed, was charged
\* to a budget and has its own record from before.
ActsAreBacked ==
    \A n \in DOMAIN calls :
        calls[n].did \cap {"applied", "late"} # {} => {"charged", "started"} \subseteq calls[n].did

\* Nothing is sent to a device or service but what was found attached or
\* open, or is allowed by a configuration that was on disk at some moment of
\* the call itself: an edit of config.toml holds for every call after it.
TouchesAllowed ==
    \A n \in DOMAIN calls :
        LET c == calls[n] IN
        "sent" \in c.did =>
            /\ "found" \in c.did \/ c.judged # 0
            /\ c.judged # 0 => c.since <= c.judged /\ c.target \in files[c.judged].allows

\* The log tells what happened: "done" only of a command that took effect (or
\* of a question that was answered), and no started record is without its
\* outcome unless the server was killed, the log could not be written, or the
\* call is still on its way.
OutcomesAreTrue ==
    \A n \in DOMAIN calls :
        LET c == calls[n] IN
        /\ c.outcome = "done" => {"started", "applied"} \subseteq c.did
        /\ "started" \in c.did /\ c.outcome = "none" /\ "cut" \notin c.did =>
             \E t \in Threads : call[t] = n /\ todo[t] # << >>

\* "A rejected call neither spends the budget nor leaves a record of a change
\* that never happened" (server.py:1240, of gpio_set_mode): so it is of every
\* tool but the two whose operation judges the code or the value itself, after
\* the charge and the record.  Those spend and leave a record when they reject,
\* and even they have changed nothing by then.
RejectedCostNothing ==
    \A n \in DOMAIN calls :
        LET c == calls[n] IN
        "rejected" \in c.did =>
            /\ c.did \cap {"applied", "late"} = {}
            /\ c.did \cap {"charged", "started"} # {} => c.tool \in Judges

\* The calls and what they left behind.
CallsSound == TypeOK /\ OutcomesAreTrue
=============================================================================

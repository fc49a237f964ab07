----------------------------- MODULE SlackBridge -----------------------------
(***************************************************************************)
(* slack_bridge.Bridge: the main thread, which takes Slack's envelopes off *)
(* a Socket Mode connection, and the worker thread, which runs Claude for  *)
(* one queued request at a time, next to Slack itself, which delivers a    *)
(* mention again until an acknowledgement of it arrives.                   *)
(*                                                                          *)
(* Of a mention only who wrote it is kept, and whether it is in a listed   *)
(* channel and says anything.  An hour is not measured: a charge becomes    *)
(* an hour old at a moment of its own.  A short reply of the main thread,   *)
(* sent or not, changes nothing in the bridge and is left out with          *)
(* Bridge.refused, which only decides whether a stranger gets one, and so   *)
(* are the wait between two attempts to connect and Outcome.ok, which only  *)
(* words the record: "answered" stands for "failed" too.                    *)
(***************************************************************************)
EXTENDS Integers, Sequences

CONSTANTS
    Users,          \* people who mention the app
    Listed,         \* Settings.users: those with a tier
    Mentions,       \* the app_mention events, with what matters of their text
    Nothing,        \* no mention in hand
    QueueLimit,     \* QUEUE_LIMIT
    SeenLimit,      \* maxlen of Bridge.seen
    HourlyLimit,    \* Settings.max_requests_per_hour
    MaxUnread,      \* bound: messages waiting in the connection
    MaxDeliveries,  \* bound: deliveries over the whole behaviour
    MaxCrashes      \* bound: how often the process dies

Kinds == {"ask", "empty", "elsewhere"}

ASSUME ListedAssumption == Listed \subseteq Users
ASSUME MentionsAssumption ==
    \A m \in Mentions : m.from \in Users /\ m.kind \in Kinds
ASSUME NothingAssumption == Nothing \notin Mentions
ASSUME LimitsAssumption ==
    QueueLimit \in Nat \ {0} /\ SeenLimit \in Nat \ {0} /\ HourlyLimit \in Nat \ {0}
ASSUME BoundsAssumption == MaxUnread \in Nat /\ MaxDeliveries \in Nat /\ MaxCrashes \in Nat

VARIABLES
    acked,       \* Slack: mentions whose acknowledgement arrived
    deliveries,  \* Slack: how many times it sent a mention
    unread,      \* messages in the connection that recv_text has not returned
    pc,          \* where the main thread is
    event,       \* the mention it handles
    seen,        \* Bridge.seen
    spent,       \* spent[u]: charges of u the budget still counts
    jobs,        \* Bridge.jobs
    worker,      \* where the worker thread is
    job,         \* the request it handles
    answered,    \* mentions whose answer is in the thread
    log,         \* slack_request records of the audit log
    marked,      \* history of this process: how many ids entered `seen`
    charged,     \* history of this process: requests charged, in order
    done,        \* history of this process: requests the worker finished
    crashes      \* how often the process died

slack == <<acked, deliveries>>
main == <<pc, event>>
memory == <<seen, marked>>
account == <<spent, charged>>
work == <<worker, job, done>>
vars == <<slack, unread, main, memory, account, jobs, work, answered, log, crashes>>

Places == {"connect", "receive", "mention", "charge", "put"}
WorkPlaces == {"idle", "run", "post", "audit", "apologise"}
Record(m, outcome) == [of |-> m, outcome |-> outcome]
Outcomes == {"refused_user", "rate_limited", "answered"}
Charge(m) == [ask |-> m, at |-> marked]

\* The bridge starts: __post_init__ and serve.
Init ==
    /\ acked = {} /\ deliveries = 0
    /\ unread = << >> /\ pc = "connect" /\ event = Nothing
    /\ seen = << >> /\ marked = 0
    /\ spent = [u \in Users |-> 0] /\ charged = << >>
    /\ jobs = << >>
    /\ worker = "idle" /\ job = Nothing /\ done = << >>
    /\ answered = {} /\ log = {} /\ crashes = 0

-----------------------------------------------------------------------------
(* Slack, the clock and the process *)

\* Slack sends a mention until it has its acknowledgement.
Deliver(m) ==
    /\ pc # "connect"
    /\ m \notin acked /\ deliveries < MaxDeliveries /\ Len(unread) < MaxUnread
    /\ unread' = Append(unread, m)
    /\ deliveries' = deliveries + 1
    /\ UNCHANGED <<acked, main, memory, account, jobs, work, answered, log, crashes>>

\* A charge, the oldest of u, leaves the budget's window of an hour.
ChargeExpires(u) ==
    /\ spent[u] > 0
    /\ spent' = [spent EXCEPT ![u] = @ - 1]
    /\ UNCHANGED <<slack, unread, main, memory, charged, jobs, work, answered, log, crashes>>

\* The connection ends, by WsError or because Slack asked for it, and what
\* was not read from it is lost.
Reconnect == pc' = "connect" /\ unread' = << >> /\ event' = Nothing

\* The process dies and is started again; its memory is gone.
Crash ==
    /\ crashes < MaxCrashes
    /\ crashes' = crashes + 1
    /\ Reconnect
    /\ seen' = << >> /\ marked' = 0
    /\ spent' = [u \in Users |-> 0] /\ charged' = << >>
    /\ jobs' = << >>
    /\ worker' = "idle" /\ job' = Nothing /\ done' = << >>
    /\ UNCHANGED <<slack, answered, log>>

-----------------------------------------------------------------------------
(* serve and handle_envelope *)

\* Mutant: every connection starts with a fresh memory of the ids.
ConnectForgetting ==
    /\ pc = "connect"
    /\ pc' = "receive" /\ seen' = << >>
    /\ UNCHANGED <<slack, unread, event, marked, account, jobs, work, answered, log, crashes>>

\* A connection is made; one that fails is tried again.
Connect ==
    /\ pc = "connect"
    /\ pc' = "receive"
    /\ UNCHANGED <<slack, unread, event, memory, account, jobs, work, answered, log, crashes>>

\* The connection drops, or a "disconnect" message is read.
Drop ==
    /\ pc = "receive"
    /\ Reconnect
    /\ UNCHANGED <<slack, memory, account, jobs, work, answered, log, crashes>>

\* recv_text returns a mention, and ack() answers it: that is sent and
\* arrives, is sent and lost, or cannot be sent and the event is left for
\* Slack to deliver again.
Receive ==
    /\ pc = "receive" /\ unread # << >>
    /\ \/ /\ acked' = acked \cup {Head(unread)} \/ UNCHANGED acked
          /\ event' = Head(unread) /\ unread' = Tail(unread)
          /\ pc' = "mention"
       \/ Reconnect /\ UNCHANGED acked
    /\ UNCHANGED <<deliveries, memory, account, jobs, work, answered, log, crashes>>

\* seen.append(event_id): a full deque drops its oldest id.
Remember(m) ==
    LET all == Append(seen, m) IN
    seen' = IF Len(all) > SeenLimit THEN Tail(all) ELSE all

\* Mutant: the queue counts as full one request late.
FullTooLate == Len(jobs) > QueueLimit

\* jobs.full()
Full == Len(jobs) >= QueueLimit

\* event_id in self.seen
Remembered(m) == \E k \in DOMAIN seen : seen[k] = m

\* The event is over: back to recv_text.
EventOver == pc' = "receive" /\ event' = Nothing

\* _audit of the main thread: an OSError is logged only.
Note(r) == log' = log \cup {r} \/ UNCHANGED log

\* An event whose id is remembered is a retry of one already handled.
Retry ==
    /\ pc = "mention" /\ Remembered(event)
    /\ EventOver
    /\ UNCHANGED <<slack, unread, memory, account, jobs, work, answered, log, crashes>>

\* on_mention up to the check of the queue: an unlisted channel, a person
\* without a tier, a mention that says nothing and a full queue end it.
Mention ==
    /\ pc = "mention" /\ ~Remembered(event)
    /\ Remember(event) /\ marked' = marked + 1
    /\ \/ /\ event.kind # "elsewhere" /\ event.from \notin Listed
          /\ Note(Record(event, "refused_user"))
          /\ EventOver
       \/ /\ \/ event.kind = "elsewhere"
             \/ event.from \in Listed /\ event.kind = "empty"
             \/ event.from \in Listed /\ event.kind = "ask" /\ Full
          /\ EventOver
          /\ UNCHANGED log
       \/ /\ event.from \in Listed /\ event.kind = "ask" /\ ~Full
          /\ pc' = "charge"
          /\ UNCHANGED <<event, log>>
    /\ UNCHANGED <<slack, unread, account, jobs, work, answered, crashes>>

\* budget.charge(user): within the hour's limit, or RATE_LIMITED.
ChargeRequest ==
    /\ pc = "charge"
    /\ \/ /\ spent[event.from] < HourlyLimit
          /\ spent' = [spent EXCEPT ![event.from] = @ + 1]
          /\ charged' = Append(charged, Charge(event))
          /\ pc' = "put"
          /\ UNCHANGED <<event, log>>
       \/ /\ spent[event.from] >= HourlyLimit
          /\ Note(Record(event, "rate_limited"))
          /\ EventOver
          /\ UNCHANGED account
    /\ UNCHANGED <<slack, unread, memory, jobs, work, answered, crashes>>

\* jobs.put_nowait: a full queue would raise, and serve go on without the
\* request.
Put ==
    /\ pc = "put"
    /\ jobs' = IF Len(jobs) < QueueLimit THEN Append(jobs, event) ELSE jobs
    /\ EventOver
    /\ UNCHANGED <<slack, unread, memory, account, work, answered, log, crashes>>

-----------------------------------------------------------------------------
(* worker and work_once *)

Take ==
    /\ worker = "idle" /\ jobs # << >>
    /\ job' = Head(jobs) /\ jobs' = Tail(jobs)
    /\ worker' = "run"
    /\ UNCHANGED <<slack, unread, main, memory, account, done, answered, log, crashes>>

Finish == worker' = "idle" /\ job' = Nothing /\ done' = Append(done, job)

\* Mutant: an exception of the run ends the worker's thread.
RunUnguarded ==
    /\ worker = "run"
    /\ worker' \in {"post", "dead"}
    /\ UNCHANGED <<slack, unread, main, memory, account, jobs, job, done, answered, log, crashes>>

\* run_claude answers, fails or is stopped at its time limit; or something
\* in the run raises.
Run ==
    /\ worker = "run"
    /\ worker' \in {"post", "apologise"}
    /\ UNCHANGED <<slack, unread, main, memory, account, jobs, job, done, answered, log, crashes>>

\* Mutant: the outcome is recorded whether the answer was posted or not.
PostUnchecked ==
    /\ worker = "post"
    /\ answered' = answered \cup {job} \/ UNCHANGED answered
    /\ worker' = "audit"
    /\ UNCHANGED <<slack, unread, main, memory, account, jobs, job, done, log, crashes>>

\* api.post of the answer.  The call may fail although Slack took the message.
Post ==
    /\ worker = "post"
    /\ \/ answered' = answered \cup {job} /\ worker' \in {"audit", "apologise"}
       \/ UNCHANGED answered /\ worker' = "apologise"
    /\ UNCHANGED <<slack, unread, main, memory, account, jobs, job, done, log, crashes>>

\* _audit of the outcome, after the answer was posted.
Audit ==
    /\ worker = "audit"
    /\ Note(Record(job, "answered"))
    /\ Finish
    /\ UNCHANGED <<slack, unread, main, memory, account, jobs, answered, crashes>>

\* The apology for an exception, posted or not.
Apologise ==
    /\ worker = "apologise"
    /\ Finish
    /\ UNCHANGED <<slack, unread, main, memory, account, jobs, answered, log, crashes>>

MainStep == Connect \/ Drop \/ Receive \/ Retry \/ Mention \/ ChargeRequest \/ Put
WorkerStep == Take \/ Run \/ Post \/ Audit \/ Apologise

Next ==
    \/ \E m \in Mentions : Deliver(m)
    \/ \E u \in Users : ChargeExpires(u)
    \/ Crash
    \/ MainStep
    \/ WorkerStep

\* Both threads go on: a run ends at its time limit and every call to Slack
\* has one.
Fairness == WF_vars(Put) /\ WF_vars(WorkerStep)

Spec == Init /\ [][Next]_vars /\ Fairness

-----------------------------------------------------------------------------
(* Properties *)

TypeOK ==
    /\ acked \in SUBSET Mentions /\ deliveries \in Nat
    /\ unread \in Seq(Mentions)
    /\ pc \in Places
    /\ event \in Mentions \cup {Nothing}
    /\ event = Nothing <=> pc \in {"connect", "receive"}
    /\ seen \in Seq(Mentions) /\ Len(seen) <= SeenLimit
    /\ spent \in [Users -> 0..HourlyLimit]
    /\ jobs \in Seq(Mentions) /\ Len(jobs) <= QueueLimit
    /\ worker \in WorkPlaces
    /\ job \in Mentions \cup {Nothing}
    /\ job = Nothing <=> worker = "idle"
    /\ answered \in SUBSET Mentions
    /\ log \in SUBSET [of : Mentions, outcome : Outcomes]
    /\ marked \in Nat
    /\ charged \in Seq([ask : Mentions, at : Nat])
    /\ done \in Seq(Mentions)
    /\ crashes \in Nat

InHand == IF worker = "idle" THEN << >> ELSE <<job>>
Charged == IF pc = "put" THEN <<event>> ELSE << >>
Asks(s) == [k \in DOMAIN s |-> s[k].ask]

\* Who is charged is served: the requests charged are, in the order of the
\* charges, those finished, the one the worker has, those queued and the one
\* about to be queued.  So a "busy" refusal spends nothing of the hourly cap,
\* and the queue is never full when a charged request is put into it.
ServedInOrder == Asks(charged) = done \o InHand \o jobs \o Charged

\* The queue, the budget and the requests in them.
ServedSound == TypeOK /\ ServedInOrder

\* Claude is not run twice for one mention, however often Slack delivers it
\* and over however many connections, until SeenLimit other events came in
\* between.  This holds within one life of the process, of which `charged' is
\* the history: one that is started again remembers no event (Crash).
AskedOnce ==
    \A i, j \in DOMAIN charged :
        i < j /\ charged[i].ask = charged[j].ask => charged[j].at - charged[i].at > SeenLimit

\* A record that a request was answered stands only for an answer that is in
\* the thread.
RecordedIsReplied ==
    \A r \in log : r.outcome = "answered" => r.of \in answered

\* A charged request is finished, whatever raises on the way, unless the
\* process dies.
ServedAtLast ==
    \A k \in 1..MaxDeliveries :
        Len(charged) >= k ~> Len(done) >= k \/ charged = << >>
=============================================================================

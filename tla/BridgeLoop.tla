----------------------------- MODULE BridgeLoop -----------------------------
(***************************************************************************)
(* One serial-to-MQTT bridge of bridge.py: the thread that takes JSON      *)
(* lines from its session and publishes at most one in an interval, next   *)
(* to the serial_bridge_stop call that ends it.  A reading is its number   *)
(* in the order the device printed them.  Of the clock only two facts are  *)
(* kept, each of which becomes true at a moment of its own: the interval   *)
(* since the last message is over, and the bridge's duration is.           *)
(***************************************************************************)
EXTENDS Integers, Sequences

CONSTANTS
    MaxReadings,    \* bound on the readings the device prints
    KeptErrors      \* how many messages of failed publishes are kept, 5 in the code

ASSUME MaxReadingsAssumption == MaxReadings \in Nat
ASSUME KeptErrorsAssumption == KeptErrors \in Nat \ {0}

VARIABLES
    place,        \* where the bridge's thread is in _run
    after,        \* where _send returns to
    payload,      \* the reading _offer or _send was given
    readings,     \* how many readings the device has printed
    pending,      \* _pending
    due,          \* min_interval has passed since _last_sent
    over,         \* the deadline has passed
    why,          \* the reason with which the bridge's own thread stops it
    stopReason,   \* stop_reason
    stopping,     \* _stop
    published,    \* the readings published, in order
    dropped,      \* dropped_rate + dropped_budget + dropped_size
    errors,       \* Len(errors): the messages of failed publishes that are kept
    recorded,     \* on_stop's audit record of the end, with its reason
    stopper       \* where the serial_bridge_stop call is

loopVars == <<place, after, payload, readings, pending, due, over, why, stopReason,
          stopping, published, dropped, errors, recorded, stopper>>
counts == <<published, dropped, errors>>
stops == <<stopReason, stopping>>

NoReading == 0
Places == {"loop", "expect", "offer", "send", "publish", "name", "set", "ending", "dead"}
Reasons == {"requested", "duration", "session"}

LoopInit ==
    /\ place = "loop" /\ after = "loop"
    /\ payload = NoReading /\ pending = NoReading
    /\ readings = 0
    /\ due = TRUE /\ over = FALSE
    /\ why = "none" /\ stopReason = "none" /\ stopping = FALSE
    /\ published = << >> /\ dropped = 0 /\ errors = 0
    /\ recorded = "no"
    /\ stopper = "idle"

-----------------------------------------------------------------------------
(* The clock, and serial_bridge_stop on another thread *)

IntervalPasses ==
    /\ ~due
    /\ due' = TRUE
    /\ UNCHANGED <<place, after, payload, readings, pending, over, why, stops, counts,
                   recorded, stopper>>

DurationPasses ==
    /\ ~over
    /\ over' = TRUE
    /\ UNCHANGED <<place, after, payload, readings, pending, due, why, stops, counts,
                   recorded, stopper>>

\* stop("requested") in its steps: a reason is named if none is yet, and then
\* the event is set.  Between the look and the naming the bridge's own thread
\* may name another, which is lost.
StopRequest ==
    \/ /\ stopper = "idle"
       /\ stopper' = IF stopReason = "none" THEN "naming" ELSE "setting"
       /\ UNCHANGED stops
    \/ /\ stopper = "naming" /\ stopReason' = "requested" /\ stopper' = "setting"
       /\ UNCHANGED stopping
    \/ /\ stopper = "setting" /\ stopping' = TRUE /\ stopper' = "joining"
       /\ UNCHANGED stopReason

RequestStop ==
    /\ StopRequest
    /\ UNCHANGED <<place, after, payload, readings, pending, due, over, why, counts, recorded>>

\* join(): the thread has ended, or five seconds have passed.
StopReturns ==
    /\ stopper = "joining"
    /\ stopper' = "returned"
    /\ UNCHANGED <<place, after, payload, readings, pending, due, over, why, stops, counts,
                   recorded>>

-----------------------------------------------------------------------------
(* _run *)

\* The bridge's own stop(r), up to its look at the reason.
Stop(r) ==
    /\ why' = r
    /\ place' = IF stopReason = "none" THEN "name" ELSE "set"

\* The rest of it; the loop is left.
StopItself ==
    /\ \/ place = "name" /\ stopReason' = why /\ place' = "set" /\ UNCHANGED stopping
       \/ place = "set" /\ stopping' = TRUE /\ place' = "ending" /\ UNCHANGED stopReason
    /\ UNCHANGED <<after, payload, readings, pending, due, over, why, counts, recorded, stopper>>

\* Mutant: the pending reading is sent and kept.
LoopKeepsPending ==
    /\ place = "loop"
    /\ IF stopping THEN place' = "ending" /\ UNCHANGED <<payload, after, why>>
       ELSE IF over THEN Stop("duration") /\ UNCHANGED <<payload, after>>
       ELSE IF pending # NoReading /\ due
       THEN place' = "send" /\ payload' = pending /\ after' = "expect" /\ UNCHANGED why
       ELSE place' = "expect" /\ UNCHANGED <<payload, after, why>>
    /\ UNCHANGED <<readings, pending, due, over, stops, counts, recorded, stopper>>

\* Mutant: the loop never looks at the deadline.
LoopWithoutDeadline ==
    /\ place = "loop"
    /\ IF stopping THEN place' = "ending" /\ UNCHANGED <<payload, pending, after>>
       ELSE IF pending # NoReading /\ due
       THEN /\ place' = "send" /\ payload' = pending /\ after' = "expect"
            /\ pending' = NoReading
       ELSE place' = "expect" /\ UNCHANGED <<payload, pending, after>>
    /\ UNCHANGED <<readings, due, over, why, stops, counts, recorded, stopper>>

\* The top of the loop: end if stopped or overdue, else send the pending
\* reading once the interval is over, else wait for a line.
Loop ==
    /\ place = "loop"
    /\ IF stopping THEN place' = "ending" /\ UNCHANGED <<payload, pending, after, why>>
       ELSE IF over THEN Stop("duration") /\ UNCHANGED <<payload, pending, after>>
       ELSE IF pending # NoReading /\ due
       THEN /\ place' = "send" /\ payload' = pending /\ after' = "expect"
            /\ pending' = NoReading /\ UNCHANGED why
       ELSE place' = "expect" /\ UNCHANGED <<payload, pending, after, why>>
    /\ UNCHANGED <<readings, due, over, stops, counts, recorded, stopper>>

\* expect() finds no JSON line in time, or finds one, or raises because the
\* session is closed or failed.
Expect ==
    /\ place = "expect"
    /\ \/ place' = "loop" /\ UNCHANGED <<readings, payload, why>>
       \/ /\ readings < MaxReadings
          /\ readings' = readings + 1 /\ payload' = readings + 1
          /\ place' = "offer" /\ UNCHANGED why
       \/ Stop("session") /\ UNCHANGED <<readings, payload>>
    /\ UNCHANGED <<after, pending, due, over, stops, counts, recorded, stopper>>

\* A reading that comes too early waits; the one that waited before is dropped.
Keep ==
    /\ pending' = payload
    /\ dropped' = IF pending # NoReading THEN dropped + 1 ELSE dropped

\* _offer: a reading too large to publish is dropped.
Offer ==
    /\ place = "offer"
    /\ \/ stopping /\ place' = "loop" /\ UNCHANGED <<pending, dropped, after>>
       \/ /\ ~stopping /\ place' = "loop" /\ dropped' = dropped + 1
          /\ UNCHANGED <<pending, after>>
       \/ /\ ~stopping /\ due /\ place' = "send" /\ after' = "loop"
          /\ UNCHANGED <<pending, dropped>>
       \/ ~stopping /\ ~due /\ place' = "loop" /\ Keep /\ UNCHANGED after
    /\ UNCHANGED <<payload, readings, due, over, why, stops, published, errors, recorded,
                   stopper>>

\* Mutant: the stop flag is not looked at before a publish.
SendUnchecked ==
    /\ place = "send"
    /\ \/ place' = after /\ dropped' = dropped + 1
       \/ place' = "publish" /\ UNCHANGED dropped
    /\ UNCHANGED <<after, payload, readings, pending, due, over, why, stops, published,
                   errors, recorded, stopper>>

\* _send up to the publish: nothing once stopped; the write budget may refuse.
Send ==
    /\ place = "send"
    /\ \/ stopping /\ place' = after /\ UNCHANGED dropped
       \/ ~stopping /\ place' = after /\ dropped' = dropped + 1
       \/ ~stopping /\ place' = "publish" /\ UNCHANGED dropped
    /\ UNCHANGED <<after, payload, readings, pending, due, over, why, stops, published,
                   errors, recorded, stopper>>

\* The broker takes the message or not; either way the interval starts anew.
\* Only the last messages of failed publishes are kept.
Publish ==
    /\ place = "publish"
    /\ \/ published' = Append(published, payload) /\ UNCHANGED errors
       \/ /\ errors' = IF errors < KeptErrors THEN errors + 1 ELSE errors
          /\ UNCHANGED published
    /\ due' = FALSE
    /\ place' = after
    /\ UNCHANGED <<after, payload, readings, pending, over, why, stops, dropped, recorded,
                   stopper>>

\* on_stop: the audit record of the end, if the log can be written.
End ==
    /\ place = "ending"
    /\ recorded' \in {stopReason, "unwritable"}
    /\ place' = "dead"
    /\ UNCHANGED <<after, payload, readings, pending, due, over, why, stops, counts, stopper>>

Run == Loop \/ Expect \/ Offer \/ Send \/ Publish \/ StopItself \/ End

LoopNext == Run \/ RequestStop \/ StopReturns \/ IntervalPasses \/ DurationPasses

LoopSpec == LoopInit /\ [][LoopNext]_loopVars
LoopFairSpec == LoopSpec /\ WF_loopVars(Run) /\ WF_loopVars(DurationPasses)

-----------------------------------------------------------------------------
(* Properties *)

LoopTypeOK ==
    /\ place \in Places /\ after \in {"loop", "expect"}
    /\ readings \in Nat /\ dropped \in Nat /\ errors \in 0..KeptErrors
    /\ payload \in 0..readings /\ pending \in 0..readings
    /\ due \in BOOLEAN /\ over \in BOOLEAN /\ stopping \in BOOLEAN
    /\ why \in Reasons \cup {"none"} /\ stopReason \in Reasons \cup {"none"}
    /\ published \in Seq(1..readings)
    /\ recorded \in Reasons \cup {"no", "none", "unwritable"}
    /\ stopper \in {"idle", "naming", "setting", "joining", "returned"}

\* While a bridge runs and has kept fewer messages of failed publishes than it
\* can, every reading it took is published, counted as dropped or as an error,
\* or still to be sent ("faster lines are dropped (counted)"); and the counts
\* never say more than that.  From then on a failed publish pushes an older
\* message out, and its reading is in no count.
EveryReadingCounted ==
    LET counted == Len(published) + dropped + errors
                   + (IF pending # NoReading THEN 1 ELSE 0)
                   + (IF place \in {"offer", "send", "publish"} THEN 1 ELSE 0)
    IN  ~stopping => counted <= readings /\ (errors < KeptErrors => counted = readings)

\* No reading is published twice.
PublishedOnce ==
    \A i, j \in 1..Len(published) : published[i] = published[j] => i = j

\* The audit record of a bridge's end has a reason, and one that somebody gave:
\* the bridge's own thread when it left the loop by itself, or a call of
\* serial_bridge_stop; of two that race either may be the one recorded.
EndHasReason ==
    /\ recorded # "none"
    /\ recorded \in Reasons => recorded = why \/ (recorded = "requested" /\ stopper # "idle")

\* What the counters and the records of a bridge say is what happened.
ReadingsSound == LoopTypeOK /\ EveryReadingCounted /\ PublishedOnce /\ EndHasReason

\* Once serial_bridge_stop has returned, even because it waited long enough,
\* the bridge begins no publish ("serial_bridge_stop may already have
\* returned").
QuietAfterStop == [][stopper = "returned" /\ place # "publish" => place' # "publish"]_loopVars

\* Every bridge ends, at the latest with its duration.
EndsAtLast == <>(place = "dead")
=============================================================================

---------------------------- MODULE RollingBudget ----------------------------
(***************************************************************************)
(* policy.RollingBudget for one target, with the module-level reference to *)
(* it that server._keep_budget maintains, used by several worker threads.  *)
(* A tool call reads the reference, creates the budget at first use or      *)
(* updates its limit from the configuration it loaded, then charges it.     *)
(* The slots `_budget`, `_actuation`, `_ming_budget` and `_flash_budget`    *)
(* all go through the same three functions; this is one of them.            *)
(*                                                                          *)
(* `charges` is the history of admitted charges; a budget's event list is   *)
(* the set of the positions in it that the budget still remembers.          *)
(***************************************************************************)
EXTENDS Integers, Sequences, FiniteSets

CONSTANTS
    Threads,     \* worker threads of one server process
    Budgets,     \* budget objects that may be created (a bound)
    NoBudget,    \* the reference before first use
    Window,      \* RollingBudget.window
    Limits,      \* limits the configuration file may hold
    Counts,      \* what one call may charge
    MaxTime,     \* bound: the clock's last reading
    MaxCharges   \* bound: charges attempted over the whole behaviour

ASSUME WindowAssumption == Window \in Nat \ {0}
ASSUME LimitsAssumption == Limits \subseteq Nat
ASSUME CountsAssumption == Counts \subseteq Nat
ASSUME NoBudgetAssumption == NoBudget \notin Budgets

VARIABLES
    clock,     \* time.monotonic()
    ref,       \* the module global, e.g. server._budget
    created,   \* budget objects that exist
    limit,     \* limit[b]
    events,    \* events[b]: positions in `charges` still in _events[target]
    charges,   \* history: every charge admitted, in the order of admission
    pc,        \* where a thread is
    seen,      \* seen[t]: a budget reference it has read
    conf,      \* conf[t]: the limit in the configuration it loaded
    now,       \* now[t]: the clock as it read it
    calls      \* how many calls have started

vars == <<clock, ref, created, limit, events, charges, pc, seen, conf, now, calls>>

Charge == [at : Nat, n : Nat, limit : Nat, budget : Budgets]
Places == {"idle", "keep", "return", "clock", "charge"}

\* A charge of n units counts n times in a total.
Units(f, S) == UNION {{k} \X (1..f[k].n) : k \in S}
Total(S) == Cardinality(Units(charges, S))

Init ==
    /\ clock = 0
    /\ ref = NoBudget
    /\ created = {}
    /\ limit = [b \in Budgets |-> 0]
    /\ events = [b \in Budgets |-> {}]
    /\ charges = <<>>
    /\ pc = [t \in Threads |-> "idle"]
    /\ seen = [t \in Threads |-> NoBudget]
    /\ conf = [t \in Threads |-> 0]
    /\ now = [t \in Threads |-> 0]
    /\ calls = 0

Tick ==
    /\ clock < MaxTime
    /\ clock' = clock + 1
    /\ UNCHANGED <<ref, created, limit, events, charges, pc, seen, conf, now, calls>>

\* A call has loaded the configuration and reads the global to pass it on.
Read(t) ==
    /\ pc[t] = "idle"
    /\ calls < MaxCharges
    /\ calls' = calls + 1
    /\ \E l \in Limits : conf' = [conf EXCEPT ![t] = l]
    /\ seen' = [seen EXCEPT ![t] = ref]
    /\ pc' = [pc EXCEPT ![t] = "keep"]
    /\ UNCHANGED <<clock, ref, created, limit, events, charges, now>>

\* Mutant: a changed limit makes a new budget.
KeepRebuilding(t) ==
    /\ pc[t] = "keep"
    /\ \/ /\ \E b \in Budgets \ created :
               /\ created' = created \cup {b}
               /\ limit' = [limit EXCEPT ![b] = conf[t]]
               /\ ref' = b
          /\ seen[t] # NoBudget => limit[seen[t]] # conf[t]
       \/ /\ seen[t] # NoBudget /\ limit[seen[t]] = conf[t]
          /\ ref' = seen[t]
          /\ UNCHANGED <<created, limit>>
    /\ pc' = [pc EXCEPT ![t] = "return"]
    /\ UNCHANGED <<clock, events, charges, seen, conf, now, calls>>

\* _keep_budget: a new budget for the None it was given, or the one it was
\* given with the configured limit; the caller assigns the result back.
Keep(t) ==
    /\ pc[t] = "keep"
    /\ \/ /\ seen[t] = NoBudget
          /\ \E b \in Budgets \ created :
               /\ created' = created \cup {b}
               /\ limit' = [limit EXCEPT ![b] = conf[t]]
               /\ ref' = b
       \/ /\ seen[t] # NoBudget
          /\ limit' = [limit EXCEPT ![seen[t]] = conf[t]]
          /\ ref' = seen[t]
          /\ UNCHANGED created
    /\ pc' = [pc EXCEPT ![t] = "return"]
    /\ UNCHANGED <<clock, events, charges, seen, conf, now, calls>>

\* return _budget: the global is read once more.
Return(t) ==
    /\ pc[t] = "return"
    /\ seen' = [seen EXCEPT ![t] = ref]
    /\ pc' = [pc EXCEPT ![t] = "clock"]
    /\ UNCHANGED <<clock, ref, created, limit, events, charges, conf, now, calls>>

\* now = time.monotonic(), before the lock is taken.
ReadClock(t) ==
    /\ pc[t] = "clock"
    /\ now' = [now EXCEPT ![t] = clock]
    /\ pc' = [pc EXCEPT ![t] = "charge"]
    /\ UNCHANGED <<clock, ref, created, limit, events, charges, seen, conf, calls>>

\* Mutant: an event leaves the window one instant early.
LiveTooShort(b, at) == {k \in events[b] : at - charges[k].at < Window - 1}

\* The events of b still inside the window that ends at `at`.
Live(b, at) == {k \in events[b] : at - charges[k].at < Window}

\* The charge itself, under the budget's lock.
Admit(t, n) ==
    LET b == seen[t] IN
    /\ pc[t] = "charge"
    /\ Total(Live(b, now[t])) + n <= limit[b]
    /\ charges' = Append(charges, [at |-> now[t], n |-> n, limit |-> limit[b], budget |-> b])
    /\ events' = [events EXCEPT ![b] = Live(b, now[t]) \cup {Len(charges) + 1}]
    /\ pc' = [pc EXCEPT ![t] = "idle"]
    /\ UNCHANGED <<clock, ref, created, limit, seen, conf, now, calls>>

\* RATE_LIMITED: raised before the pruned list is stored.
Refuse(t, n) ==
    LET b == seen[t] IN
    /\ pc[t] = "charge"
    /\ Total(Live(b, now[t])) + n > limit[b]
    /\ pc' = [pc EXCEPT ![t] = "idle"]
    /\ UNCHANGED <<clock, ref, created, limit, events, charges, seen, conf, now, calls>>

Next ==
    \/ Tick
    \/ \E t \in Threads :
         \/ Read(t) \/ Keep(t) \/ Return(t) \/ ReadClock(t)
         \/ \E n \in Counts : Admit(t, n) \/ Refuse(t, n)

Spec == Init /\ [][Next]_vars

-----------------------------------------------------------------------------
(* Properties *)

TypeOK ==
    /\ clock \in Nat
    /\ created \in SUBSET Budgets
    /\ ref \in created \cup {NoBudget}
    /\ limit \in [Budgets -> Nat]
    /\ events \in [Budgets -> SUBSET (1..Len(charges))]
    /\ charges \in Seq(Charge)
    /\ pc \in [Threads -> Places]
    /\ seen \in [Threads -> created \cup {NoBudget}]
    /\ \A t \in Threads :
         /\ pc[t] = "return" => ref \in created
         /\ pc[t] \in {"clock", "charge"} => seen[t] \in created
    /\ conf \in [Threads -> Nat]
    /\ now \in [Threads -> Nat]
    /\ calls \in Nat

\* The charges one budget admitted, and whether their timestamps never go back.
ChargesOf(b) == {k \in 1..Len(charges) : charges[k].budget = b}
InOrder(b) == \A i, j \in ChargesOf(b) : i <= j => charges[i].at <= charges[j].at

\* Those in the window that ends at a.
InWindow(b, a) == {k \in ChargesOf(b) : a - Window < charges[k].at /\ charges[k].at <= a}

\* What was admitted in the window is within any limit that was in force at
\* every charge in it.
Capped(b, a) ==
    \A l \in Limits :
        (\A k \in InWindow(b, a) : charges[k].limit <= l) => Total(InWindow(b, a)) <= l

\* "For every window, not only the ones ending at a charge, the units admitted
\* inside it never exceed limit", forgotten events included, as long as the
\* charges are admitted in the order of their timestamps.  Without that
\* condition a window can hold more, since the clock is read before the lock
\* is taken.
CapInOrder == \A b \in Budgets : InOrder(b) => \A a \in 0..clock : Capped(b, a)

\* A budget and everything it ever admitted.
BudgetSound == TypeOK /\ CapInOrder

\* A changed limit never costs the memory of what was spent ("replacing the
\* object would forget what was already spent"): the budget in use is replaced
\* only by a call that had read the global before that budget was put there.
KeptWhenLimitChanges ==
    [][ref # NoBudget /\ ref' # ref =>
         \E t \in Threads : pc[t] = "keep" /\ seen[t] # ref]_vars
=============================================================================

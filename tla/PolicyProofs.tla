---------------------------- MODULE PolicyProofs ----------------------------
(***************************************************************************)
(* Proofs about the two parts of the policy, RollingBudget and             *)
(* Configuration, for every value of their constants.                      *)
(*                                                                         *)
(* The rolling cap: a budget forgets an event only when a charge at least  *)
(* a window later is admitted; when timestamps never go back, no later     *)
(* window can reach the forgotten event again, so the total the budget     *)
(* compares with its limit is the whole total of the window.               *)
(*                                                                         *)
(* The configuration: what a call is given comes from a file that loads;   *)
(* the rest is about the values that load lets through.                    *)
(***************************************************************************)
EXTENDS RollingBudget, Configuration, FiniteSetTheorems, SequenceTheorems,
        WellFoundedInduction, TLAPS

-----------------------------------------------------------------------------
(* Rolling budgets *)

\* A non-empty set of positions has a last one: of the intervals i..n, the
\* smallest, which well-founded inclusion provides.
LEMMA MaxExists ==
    ASSUME NEW n \in Nat, NEW S \in SUBSET (1..n), S # {}
    PROVE  \E m \in S : \A j \in S : j <= m
<1> DEFINE Above == {i..n : i \in S}
<1>1. ASSUME NEW i \in S
      PROVE  i..n \in FiniteSubsetsOf(1..n)
  <2>1. IsFiniteSet(i..n)
    BY FS_Interval
  <2>2. i..n \subseteq 1..n
    OBVIOUS
  <2> QED
    BY <2>1, <2>2 DEF FiniteSubsetsOf
<1>2. Above \subseteq FiniteSubsetsOf(1..n) /\ Above # {}
  BY <1>1
<1>3. PICK x \in Above : \A y \in Above : ~(<<y, x>> \in StrictSubsetOrdering(1..n))
  <2> HIDE DEF Above
  <2> QED
    BY <1>2, WFMin, FS_StrictSubsetOrderingWellFounded
<1>4. PICK m \in S : x = m..n
  OBVIOUS
<1>5. ASSUME NEW j \in S, j > m
      PROVE  FALSE
  <2>1. j..n \in Above
    OBVIOUS
  <2>2. j..n \subseteq m..n /\ m \in m..n /\ m \notin j..n
    BY <1>5
  <2>3. <<j..n, m..n>> \in StrictSubsetOrdering(1..n)
    BY <2>2 DEF StrictSubsetOrdering
  <2> QED
    BY <1>3, <1>4, <2>1, <2>3
<1> QED
  BY <1>5

\* A budget remembers only its own charges.
OwnEvents == \A b \in Budgets : events[b] \subseteq ChargesOf(b)

\* What it has forgotten lies a window or more before some charge of its own.
ForgottenAreOld ==
    \A b \in Budgets : \A j \in ChargesOf(b) \ events[b] :
        \E k \in ChargesOf(b) : charges[k].at - charges[j].at >= Window

\* The charges of b up to its k-th that are in the window ending with it.
Recent(b, k) ==
    {j \in ChargesOf(b) : j <= k /\ charges[k].at - charges[j].at < Window}

CappedAtCharges ==
    \A b \in Budgets : InOrder(b) =>
        \A k \in ChargesOf(b) : Total(Recent(b, k)) <= charges[k].limit

NotFromFuture ==
    /\ \A k \in 1..Len(charges) : charges[k].at <= clock
    /\ \A t \in Threads : now[t] <= clock

IInv ==
    /\ TypeOK
    /\ OwnEvents
    /\ ForgottenAreOld
    /\ CappedAtCharges
    /\ NotFromFuture

-----------------------------------------------------------------------------
(* Totals *)

LEMMA UnitsFinite ==
    ASSUME NEW f, NEW S, IsFiniteSet(S), \A k \in S : f[k].n \in Nat
    PROVE  IsFiniteSet(Units(f, S))
<1> DEFINE Of(k) == {k} \X (1..f[k].n)
           Parts == {Of(k) : k \in S}
<1>1. ASSUME NEW k \in S
      PROVE  IsFiniteSet(Of(k))
  <2>1. IsFiniteSet({k})
    BY FS_Singleton
  <2>2. IsFiniteSet(1..f[k].n)
    <3>1. f[k].n \in Int
      OBVIOUS
    <3> QED
      BY <3>1, FS_Interval
  <2> QED
    BY <2>1, <2>2, FS_Product
<1>2. IsFiniteSet(Parts)
  <2> DEFINE g == [k \in S |-> Of(k)]
  <2>1. g \in Surjection(S, Parts)
    BY DEF Surjection
  <2> HIDE DEF g, Parts
  <2> QED
    BY <2>1, FS_Surjection
<1>3. \A P \in Parts : IsFiniteSet(P)
  BY <1>1
<1> QED
  <2> HIDE DEF Of
  <2>1. IsFiniteSet(UNION Parts)
    BY <1>2, <1>3, FS_UNION
  <2> QED
    BY <2>1 DEF Units, Of

\* A total only grows with the set it is taken over.
LEMMA TotalMonotone ==
    ASSUME NEW f, NEW T, NEW S \in SUBSET T, IsFiniteSet(T), \A k \in T : f[k].n \in Nat
    PROVE  /\ Cardinality(Units(f, S)) \in Nat
           /\ Cardinality(Units(f, T)) \in Nat
           /\ Cardinality(Units(f, S)) <= Cardinality(Units(f, T))
<1>1. IsFiniteSet(Units(f, T))
  BY UnitsFinite
<1>2. Units(f, S) \subseteq Units(f, T)
  BY DEF Units
<1> QED
  BY <1>1, <1>2, FS_Subset, FS_CardinalityType

\* A new charge adds its units to a total.
LEMMA TotalAdds ==
    ASSUME NEW f, NEW S, IsFiniteSet(S), NEW new, new \notin S,
           \A k \in S \cup {new} : f[k].n \in Nat
    PROVE  Cardinality(Units(f, S \cup {new})) = Cardinality(Units(f, S)) + f[new].n
<1> DEFINE own == {new} \X (1..f[new].n)
<1>1. Units(f, S \cup {new}) = Units(f, S) \cup own
  BY DEF Units
<1>2. Units(f, S) \cap own = {}
  BY DEF Units
<1>3. IsFiniteSet(Units(f, S))
  BY UnitsFinite
<1>4. IsFiniteSet(own) /\ Cardinality(own) = f[new].n
  <2>1. f[new].n \in Nat
    OBVIOUS
  <2>2. IsFiniteSet({new}) /\ Cardinality({new}) = 1
    BY FS_Singleton
  <2> DEFINE m == f[new].n
  <2>3. IsFiniteSet(1..m) /\ Cardinality(1..m) = m
    <3>1. m \in Nat
      BY <2>1
    <3> HIDE DEF m
    <3>2. /\ IsFiniteSet(1..m)
          /\ Cardinality(1..m) = IF 1 > m THEN 0 ELSE m - 1 + 1
      BY <3>1, FS_Interval
    <3> QED
      BY <3>1, <3>2
  <2>4. IsFiniteSet({new} \X (1..m)) /\ Cardinality({new} \X (1..m)) = 1 * m
    <3> HIDE DEF m
    <3>1. /\ IsFiniteSet({new} \X (1..m))
          /\ Cardinality({new} \X (1..m)) = Cardinality({new}) * Cardinality(1..m)
      BY <2>2, <2>3, FS_Product, Zenon
    <3> QED
      BY <2>2, <2>3, <3>1, Zenon
  <2> QED
    BY <2>1, <2>4
<1>5. Cardinality(Units(f, S) \cup own)
        = Cardinality(Units(f, S)) + Cardinality(own) - Cardinality(Units(f, S) \cap own)
  <2> HIDE DEF own
  <2> QED
    BY <1>3, <1>4, FS_Union
<1>6. Cardinality(Units(f, S)) \in Nat
  BY <1>3, FS_CardinalityType
<1>7. Cardinality(Units(f, S) \cap own) = 0
  BY <1>2, FS_EmptySet
<1> QED
  <2> DEFINE x == Cardinality(Units(f, S))
             y == f[new].n
             z == Cardinality(Units(f, S) \cup own)
  <2>1. x \in Nat /\ y \in Nat /\ z = x + y - 0
    BY <1>4, <1>5, <1>6, <1>7, Zenon
  <2>2. z = x + y
    <3> HIDE DEF x, y, z
    <3> QED
      BY <2>1
  <2> QED
    BY <1>1, <2>2, Zenon

-----------------------------------------------------------------------------
(* Steps that admit nothing *)

LEMMA InitIInv == Init => IInv
<1> SUFFICES ASSUME Init
             PROVE  IInv
  OBVIOUS
<1>1. TypeOK
  BY DEF Init, TypeOK, Places
<1>2. \A b \in Budgets : ChargesOf(b) = {}
  BY DEF Init, ChargesOf
<1> QED
  BY <1>1, <1>2
     DEF Init, IInv, OwnEvents, ForgottenAreOld, CappedAtCharges, NotFromFuture

LEMMA TypeStep == TypeOK /\ [Next]_vars => TypeOK'
<1> SUFFICES ASSUME TypeOK, [Next]_vars
             PROVE  TypeOK'
  OBVIOUS
<1> USE DEF TypeOK, Places
<1>1. CASE Tick
  BY <1>1 DEF Tick
<1>2. ASSUME NEW t \in Threads, Read(t)
      PROVE  TypeOK'
  BY <1>2, LimitsAssumption DEF Read
<1>3. ASSUME NEW t \in Threads, Keep(t)
      PROVE  TypeOK'
  <2>1. conf[t] \in Nat
    OBVIOUS
  <2>2. CASE seen[t] = NoBudget
    BY <1>3, <2>1, <2>2, NoBudgetAssumption DEF Keep
  <2>3. CASE seen[t] # NoBudget
    <3>1. seen[t] \in created
      BY <2>3
    <3> QED
      BY <1>3, <2>1, <2>3, <3>1 DEF Keep
  <2> QED
    BY <2>2, <2>3
<1>4. ASSUME NEW t \in Threads, Return(t)
      PROVE  TypeOK'
  BY <1>4 DEF Return
<1>5. ASSUME NEW t \in Threads, ReadClock(t)
      PROVE  TypeOK'
  BY <1>5 DEF ReadClock
<1>6. ASSUME NEW t \in Threads, NEW n \in Counts, Admit(t, n)
      PROVE  TypeOK'
  <2> DEFINE b == seen[t]
             new == [at |-> now[t], n |-> n, limit |-> limit[b], budget |-> b]
  <2>1. b \in Budgets /\ pc[t] = "charge"
    BY <1>6 DEF Admit
  <2>2. new \in Charge
    BY <2>1, CountsAssumption DEF Charge
  <2>3. charges' = Append(charges, new)
    BY <1>6 DEF Admit
  <2>4. charges' \in Seq(Charge) /\ Len(charges') = Len(charges) + 1 /\ Len(charges) \in Nat
    <3> HIDE DEF new
    <3> QED
      BY <2>2, <2>3
  <2>5. Live(b, now[t]) \subseteq 1..Len(charges)
    BY <2>1 DEF Live
  <2>6. events' \in [Budgets -> SUBSET (1..Len(charges'))]
    BY <1>6, <2>1, <2>4, <2>5 DEF Admit
  <2> QED
    BY <1>6, <2>4, <2>6 DEF Admit
<1>7. ASSUME NEW t \in Threads, NEW n \in Counts, Refuse(t, n)
      PROVE  TypeOK'
  BY <1>7 DEF Refuse
<1>8. CASE UNCHANGED vars
  BY <1>8 DEF vars
<1> QED
  BY <1>1, <1>2, <1>3, <1>4, <1>5, <1>6, <1>7, <1>8 DEF Next

LEMMA QuietKeeps ==
    ASSUME IInv, [Next]_vars, UNCHANGED <<events, charges>>
    PROVE  IInv'
<1>1. TypeOK'
  BY TypeStep DEF IInv
<1>2. OwnEvents' /\ ForgottenAreOld' /\ CappedAtCharges'
  BY DEF IInv, OwnEvents, ForgottenAreOld, CappedAtCharges, ChargesOf, InOrder, Recent,
         Total, Units
<1>3. clock <= clock' /\ \A t \in Threads : now'[t] = now[t] \/ now'[t] = clock
  <2>1. clock \in Nat /\ now \in [Threads -> Nat]
    BY DEF IInv, TypeOK
  <2>2. CASE Tick
    BY <2>1, <2>2 DEF Tick
  <2>3. ASSUME NEW t \in Threads, ReadClock(t)
        PROVE  clock' = clock /\ \A u \in Threads : now'[u] = now[u] \/ now'[u] = clock
    BY <2>1, <2>3 DEF ReadClock
  <2>4. CASE UNCHANGED <<clock, now>>
    BY <2>1, <2>4
  <2>5. \/ Tick
        \/ \E t \in Threads : ReadClock(t)
        \/ UNCHANGED <<clock, now>>
    BY DEF Next, Read, Keep, Return, Admit, Refuse, vars
  <2> QED
    BY <2>1, <2>2, <2>3, <2>4, <2>5
<1>4. \A t \in Threads : now[t] \in Nat /\ now[t] <= clock
  BY DEF IInv, TypeOK, NotFromFuture
<1>5. \A k \in 1..Len(charges) : charges[k].at \in Nat
  <2>1. \A k \in 1..Len(charges) : charges[k] \in Charge
    BY DEF IInv, TypeOK
  <2> QED
    BY <2>1 DEF Charge
<1>6. clock \in Nat /\ clock' \in Nat
  BY <1>1 DEF IInv, TypeOK
<1>7. NotFromFuture'
  <2>1. \A k \in 1..Len(charges) : charges[k].at <= clock'
    BY <1>3, <1>5, <1>6 DEF IInv, NotFromFuture
  <2>2. \A t \in Threads : now'[t] <= clock'
    BY <1>3, <1>4, <1>6
  <2> QED
    BY <2>1, <2>2 DEF NotFromFuture
<1> QED
  BY <1>1, <1>2, <1>7 DEF IInv

-----------------------------------------------------------------------------
(* The step that admits a charge *)

LEMMA AdmitKeeps ==
    ASSUME IInv, NEW t \in Threads, NEW n \in Counts, Admit(t, n)
    PROVE  IInv'
<1>0. PICK b \in Budgets, at \in Nat, k \in Nat :
         b = seen[t] /\ at = now[t] /\ k = Len(charges) + 1
  BY DEF IInv, TypeOK, Admit
<1> DEFINE new == [at |-> at, n |-> n, limit |-> limit[b], budget |-> b]
<1>1. /\ TypeOK /\ b \in Budgets /\ at \in Nat /\ n \in Nat /\ limit[b] \in Nat
      /\ charges \in Seq(Charge) /\ k \in Nat /\ at <= clock
  BY <1>0, CountsAssumption DEF IInv, TypeOK, Admit, NotFromFuture
<1>2. TypeOK'
  BY TypeStep DEF IInv, Next
<1>3. /\ Len(charges') = k /\ charges'[k] = new
      /\ \A j \in 1..Len(charges) : charges'[j] = charges[j]
      /\ \A j \in 1..Len(charges) : charges[j] \in Charge
      /\ 1..k = (1..Len(charges)) \cup {k} /\ k \notin 1..Len(charges)
  <2>1. new \in Charge
    BY <1>1 DEF Charge
  <2>2. charges' = Append(charges, new)
    BY <1>0 DEF Admit
  <2> HIDE DEF new
  <2> QED
    BY <1>0, <1>1, <2>1, <2>2
<1>4. ChargesOf(b)' = ChargesOf(b) \cup {k}
  BY <1>1, <1>3 DEF ChargesOf
<1>5. ASSUME NEW c \in Budgets, c # b
      PROVE  ChargesOf(c)' = ChargesOf(c) /\ events'[c] = events[c]
  BY <1>0, <1>1, <1>3, <1>5 DEF ChargesOf, Admit, TypeOK
<1>6. events'[b] = Live(b, at) \cup {k}
  BY <1>0, <1>1 DEF Admit, TypeOK
<1>7. OwnEvents'
  BY <1>4, <1>5, <1>6 DEF IInv, OwnEvents, Live
<1>8. NotFromFuture'
  <2>1. \A j \in 1..Len(charges') : charges'[j].at <= clock
    BY <1>1, <1>3 DEF IInv, NotFromFuture
  <2> QED
    BY <2>1 DEF IInv, NotFromFuture, Admit
<1>9. ForgottenAreOld'
  <2>1. ASSUME NEW j \in ChargesOf(b) \ Live(b, at)
        PROVE  \E m \in ChargesOf(b) \cup {k} :
                  charges'[m].at - charges'[j].at >= Window
    <3>1. j \in 1..Len(charges) /\ charges[j].at \in Nat
      BY <1>3, <2>1 DEF ChargesOf, Charge
    <3>2. CASE j \in events[b]
      <4>1. at - charges[j].at >= Window
        BY <1>0, <3>1, <3>2, <2>1, WindowAssumption DEF Live
      <4> QED
        BY <1>3, <3>1, <4>1
    <3>3. CASE j \notin events[b]
      <4>1. PICK m \in ChargesOf(b) : charges[m].at - charges[j].at >= Window
        BY <2>1, <3>3 DEF IInv, ForgottenAreOld
      <4>2. m \in 1..Len(charges)
        BY DEF ChargesOf
      <4> QED
        BY <1>3, <3>1, <4>1, <4>2
    <3> QED
      BY <3>2, <3>3
  <2>2. ASSUME NEW c \in Budgets, c # b, NEW j \in ChargesOf(c) \ events[c]
        PROVE  \E m \in ChargesOf(c) : charges'[m].at - charges'[j].at >= Window
    <3>1. PICK m \in ChargesOf(c) : charges[m].at - charges[j].at >= Window
      BY <2>2 DEF IInv, ForgottenAreOld
    <3>2. m \in 1..Len(charges) /\ j \in 1..Len(charges)
      BY DEF ChargesOf
    <3> QED
      BY <1>3, <3>1, <3>2
  <2>3. ASSUME NEW c \in Budgets, NEW j \in ChargesOf(c)' \ events'[c]
        PROVE  \E m \in ChargesOf(c)' : charges'[m].at - charges'[j].at >= Window
    <3>1. CASE c = b
      BY <1>4, <1>6, <2>1, <2>3, <3>1
    <3>2. CASE c # b
      BY <1>5, <2>2, <2>3, <3>2
    <3> QED
      BY <3>1, <3>2
  <2> QED
    BY <2>3 DEF ForgottenAreOld
<1>10. \A S \in SUBSET (1..Len(charges)) : Units(charges', S) = Units(charges, S)
  BY <1>3 DEF Units
<1>11. ASSUME NEW c \in Budgets, InOrder(c)', NEW m \in ChargesOf(c)
       PROVE  /\ InOrder(c)
              /\ Recent(c, m)' = Recent(c, m)
              /\ Total(Recent(c, m))' <= charges'[m].limit
  <2>1. ChargesOf(c) \subseteq ChargesOf(c)' /\ ChargesOf(c) \subseteq 1..Len(charges)
    BY <1>4, <1>5 DEF ChargesOf
  <2>2. \A i \in ChargesOf(c) : charges'[i] = charges[i]
    BY <1>3, <2>1
  <2>3. InOrder(c)
    BY <1>11, <2>1, <2>2 DEF InOrder
  <2>4. ChargesOf(c)' \subseteq ChargesOf(c) \cup {k} /\ ~(k <= m)
    <3>1. m \in 1..Len(charges)
      BY <2>1
    <3>2. ~(k <= m)
      BY <1>0, <1>1, <3>1
    <3> QED
      BY <1>4, <1>5, <3>2
  <2>5. Recent(c, m)' = Recent(c, m)
    BY <2>1, <2>2, <2>4 DEF Recent
  <2>6. Recent(c, m) \in SUBSET (1..Len(charges))
    BY <2>1 DEF Recent
  <2>7. Total(Recent(c, m))' = Total(Recent(c, m))
    BY <1>10, <2>5, <2>6 DEF Total
  <2> QED
    BY <2>2, <2>3, <2>5, <2>7 DEF IInv, CappedAtCharges
<1>12. ASSUME InOrder(b)'
       PROVE  Total(Recent(b, k))' <= charges'[k].limit
  <2> DEFINE old == Live(b, at)
             all == old \cup {k}
  <2>1. old \subseteq 1..Len(charges) /\ k \notin old
    BY <1>1, <1>3 DEF Live, TypeOK
  <2>2. Recent(b, k)' \subseteq all
    <3>1. ASSUME NEW j \in ChargesOf(b), charges'[k].at - charges'[j].at < Window,
                 j \notin events[b]
          PROVE  FALSE
      <4>1. PICK m \in ChargesOf(b) : charges[m].at - charges[j].at >= Window
        BY <3>1 DEF IInv, ForgottenAreOld
      <4>2. /\ m \in 1..Len(charges) /\ j \in 1..Len(charges) /\ m <= k
        BY <1>0, <1>1 DEF ChargesOf
      <4>3. charges'[m].at <= charges'[k].at
        BY <1>4, <1>12, <4>1, <4>2 DEF InOrder
      <4>4. charges[m].at <= at /\ at - charges[j].at < Window
        BY <1>3, <3>1, <4>2, <4>3
      <4>5. charges[m].at \in Nat /\ charges[j].at \in Nat
        BY <1>3, <4>2 DEF Charge
      <4> QED
        BY <4>1, <4>4, <4>5, WindowAssumption
    <3>2. ASSUME NEW j \in ChargesOf(b), charges'[k].at - charges'[j].at < Window
          PROVE  j \in old
      <4>1. j \in events[b] /\ j \in 1..Len(charges)
        BY <3>1, <3>2 DEF ChargesOf
      <4> QED
        BY <1>3, <3>2, <4>1 DEF Live
    <3> QED
      BY <1>4, <3>2 DEF Recent
  <2>3. IsFiniteSet(old)
    <3>1. IsFiniteSet(1..Len(charges))
      BY <1>0, <1>1, FS_Interval
    <3> QED
      BY <2>1, <3>1, FS_Subset
  <2>4. IsFiniteSet(all)
    BY <2>3, FS_AddElement
  <2>5. \A j \in all : charges'[j].n \in Nat
    <3>1. ASSUME NEW j \in old
          PROVE  charges'[j].n \in Nat
      <4>1. charges'[j] = charges[j] /\ charges[j] \in Charge
        BY <1>3, <2>1
      <4> QED
        BY <4>1 DEF Charge
    <3>2. charges'[k].n \in Nat
      BY <1>1, <1>3
    <3> QED
      BY <3>1, <3>2
  <2>6. Units(charges', old) = Units(charges, old)
    BY <1>10, <2>1
  <2>7. Cardinality(Units(charges', all)) = Total(old) + n
    <3>1. charges'[k].n = n
      BY <1>3
    <3> HIDE DEF old
    <3>2. Cardinality(Units(charges', old \cup {k}))
            = Cardinality(Units(charges', old)) + charges'[k].n
      BY <2>1, <2>3, <2>5, TotalAdds
    <3> QED
      BY <2>6, <3>1, <3>2 DEF Total
  <2>8. Total(old) + n <= limit[b]
    BY <1>0 DEF Admit
  <2>9. /\ Cardinality(Units(charges', Recent(b, k)')) \in Nat
        /\ Cardinality(Units(charges', all)) \in Nat
        /\ Cardinality(Units(charges', Recent(b, k)')) <= Cardinality(Units(charges', all))
    <3> HIDE DEF all
    <3> QED
      BY <2>2, <2>4, <2>5, TotalMonotone
  <2>10. charges'[k].limit = limit[b]
    BY <1>3
  <2> QED
    BY <1>1, <2>7, <2>8, <2>9, <2>10 DEF Total
<1>13. CappedAtCharges'
  <2>1. ASSUME NEW c \in Budgets, InOrder(c)', NEW m \in ChargesOf(c)'
        PROVE  Total(Recent(c, m))' <= charges'[m].limit
    BY <1>4, <1>5, <1>11, <1>12, <2>1
  <2> QED
    BY <2>1 DEF CappedAtCharges
<1> QED
  BY <1>2, <1>7, <1>8, <1>9, <1>13 DEF IInv

LEMMA Invariance == Spec => []IInv
<1>1. IInv /\ [Next]_vars => IInv'
  <2>1. ASSUME [Next]_vars
        PROVE  \/ UNCHANGED <<events, charges>>
               \/ \E t \in Threads, n \in Counts : Admit(t, n)
    BY <2>1 DEF Next, Tick, Read, Keep, Return, ReadClock, Refuse, vars
  <2> QED
    BY <2>1, QuietKeeps, AdmitKeeps
<1> QED
  BY <1>1, InitIInv, PTL DEF Spec

-----------------------------------------------------------------------------
(* Theorems *)

\* Calls, budgets and charges stay within their types; a budget that a call
\* charges exists.
THEOREM TypeCorrect == Spec => []TypeOK
BY Invariance, PTL DEF IInv

\* The charges in a window are among those recent at the last of them.
LEMMA WindowAtLastCharge ==
    ASSUME IInv, NEW b \in Budgets, InOrder(b), NEW a \in 0..clock
    PROVE  Capped(b, a)
<1> SUFFICES ASSUME NEW l \in Limits, \A k \in InWindow(b, a) : charges[k].limit <= l
             PROVE  Total(InWindow(b, a)) <= l
  BY DEF Capped
<1>1. /\ charges \in Seq(Charge) /\ l \in Nat /\ a \in Nat /\ Len(charges) \in Nat
      /\ \A k \in 1..Len(charges) : charges[k] \in Charge
  BY LimitsAssumption DEF IInv, TypeOK
<1>2. CASE InWindow(b, a) = {}
  <2>1. Units(charges, InWindow(b, a)) = {}
    BY <1>2 DEF Units
  <2> QED
    BY <1>1, <2>1, FS_EmptySet DEF Total
<1>3. CASE InWindow(b, a) # {}
  <2>1. InWindow(b, a) \in SUBSET (1..Len(charges))
    BY DEF InWindow, ChargesOf
  <2>2. PICK k \in InWindow(b, a) : \A j \in InWindow(b, a) : j <= k
    BY <1>1, <1>3, <2>1, MaxExists
  <2>3. InWindow(b, a) \subseteq Recent(b, k)
    <3>1. ASSUME NEW j \in InWindow(b, a)
          PROVE  charges[k].at - charges[j].at < Window
      <4>1. charges[k].at \in Nat /\ charges[j].at \in Nat
        BY <1>1, <2>1 DEF Charge
      <4>2. charges[k].at <= a /\ a - Window < charges[j].at
        BY DEF InWindow
      <4> QED
        BY <1>1, <4>1, <4>2, WindowAssumption
    <3> QED
      BY <2>2, <3>1 DEF Recent, InWindow
  <2>4. Recent(b, k) \in SUBSET (1..Len(charges)) /\ IsFiniteSet(1..Len(charges))
    <3>1. Len(charges) \in Nat
      BY <1>1
    <3>2. IsFiniteSet(1..Len(charges))
      BY <3>1, FS_Interval
    <3> QED
      BY <3>2 DEF Recent, ChargesOf
  <2>5. IsFiniteSet(Recent(b, k)) /\ \A j \in Recent(b, k) : charges[j].n \in Nat
    BY <1>1, <2>4, FS_Subset DEF Charge
  <2>6. Total(InWindow(b, a)) \in Nat /\ Total(Recent(b, k)) \in Nat
        /\ Total(InWindow(b, a)) <= Total(Recent(b, k))
    BY <2>3, <2>5, TotalMonotone DEF Total
  <2>7. Total(Recent(b, k)) <= charges[k].limit
    BY DEF IInv, CappedAtCharges, InWindow
  <2>8. charges[k].limit \in Nat /\ charges[k].limit <= l
    BY <1>1, <2>1 DEF Charge
  <2> QED
    BY <1>1, <2>6, <2>7, <2>8
<1> QED
  BY <1>2, <1>3

\* In every window, ending anywhere, a budget whose charges are admitted in the
\* order of their timestamps admits no more than the limit that was in force.
THEOREM BudgetSafe == Spec => []CapInOrder
<1>1. IInv => CapInOrder
  BY WindowAtLastCharge DEF CapInOrder
<1> QED
  BY <1>1, Invariance, PTL

\* A change of the configured limit keeps the budget and what it was charged: a
\* budget in use is replaced only by a call that read the global before.
THEOREM KeptOnLimitChange == Spec => KeptWhenLimitChanges
<1>1. ASSUME [Next]_vars, ref # NoBudget, ref' # ref
      PROVE  \E t \in Threads : pc[t] = "keep" /\ seen[t] # ref
  BY <1>1 DEF Next, vars, Tick, Read, Keep, Return, ReadClock, Admit, Refuse
<1> QED
  BY <1>1, PTL DEF Spec, KeptWhenLimitChanges

\* In every window an ordered budget admitted no more than its limit.
THEOREM SoundBudget == Spec => []BudgetSound
BY TypeCorrect, BudgetSafe, PTL DEF BudgetSound

-----------------------------------------------------------------------------
(* The configuration *)

\* covers is sound, for filters and topics of any length: what a requested
\* filter matches, an allowed filter that covers it matches too.
THEOREM CoversIsSound ==
    ASSUME NEW allowed \in Seq(Levels \cup {"+", "#"}),
           NEW requested \in Seq(Levels \cup {"+", "#"}), requested # << >>,
           NEW topic, Covers(allowed, requested), Matches(requested, topic)
    PROVE  Matches(allowed, topic)
  <1>1. ~Hidden(allowed, topic)
    <2>1. SUFFICES ASSUME topic[1] \in Reserved, allowed[1] \in {"+", "#"}
                   PROVE  FALSE
      BY DEF Hidden
    <2>2. requested[1] \notin {"+", "#"} /\ requested[1] \notin Reserved
      BY <2>1 DEF Covers, Matches, Hidden
    <2>3. 1 \in Fixed(requested)
      BY <2>2 DEF Fixed
    <2>4. requested[1] = topic[1]
      BY <2>2, <2>3 DEF Matches
    <2> QED BY <2>1, <2>2, <2>4
  <1>2. ASSUME NEW i \in Fixed(allowed)
        PROVE  i \in Fixed(requested) /\ i <= Len(topic) /\ allowed[i] \in {"+", topic[i]}
    <2>0. Len(allowed) \in Nat /\ i \in 1..Len(allowed)
      BY DEF Fixed
    <2>1. i \in Nat /\ 1 <= i
      BY <2>0
    <2>2. i <= Len(requested) /\ requested[i] # "#" /\ allowed[i] \in {"+", requested[i]}
      BY DEF Covers
    <2>3. i \in Fixed(requested)
      BY <2>1, <2>2 DEF Fixed
    <2>4. i <= Len(topic) /\ requested[i] \in {"+", topic[i]}
      BY <2>3 DEF Matches
    <2> QED BY <2>2, <2>3, <2>4
  <1>3. Open(allowed) \/ Len(allowed) = Len(topic)
    <2>1. CASE Open(allowed)
      BY <2>1
    <2>2. CASE Len(allowed) = Len(requested)
      <3>1. CASE Len(requested) = Len(topic)
        BY <2>2, <3>1
      <3>2. CASE Open(requested)
        <4>1. PICK k \in 1..Len(allowed) : requested[k] = "#"
          BY <2>2, <3>2 DEF Open
        <4>2. k \notin Fixed(allowed)
          BY <4>1 DEF Covers
        <4> QED BY <4>2 DEF Fixed, Open
      <3> QED BY <3>1, <3>2 DEF Matches
    <2> QED BY <2>1, <2>2 DEF Covers
  <1> QED BY <1>1, <1>2, <1>3 DEF Matches

\* Every address of a range that an allowed one covers is an allowed address,
\* and one of the area.
LEMMA RangeCoversIsSound ==
    ASSUME NEW allowed, ValidRange(allowed), NEW ask \in ModbusRange, RangeCovers(allowed, ask)
    PROVE  /\ Addresses(ask) \subseteq Addresses(allowed)
           /\ \A address \in Addresses(ask) :
                IF ask.area = "RW" THEN 9999 <= address[2] /\ address[2] <= 65535
                ELSE address[2] \in 0..Size(ask.area) - 1
  <1>1. /\ allowed.start \in Nat /\ allowed.count \in Nat /\ ask.start \in Nat /\ ask.count \in Nat
        /\ allowed.area \in {"LB", "LW", "RW"} /\ ask.area = allowed.area
        /\ allowed.start <= ask.start
        /\ ask.start + ask.count <= allowed.start + allowed.count
        /\ allowed.start + allowed.count <= Size(ask.area)
    BY DEF ValidRange, RangeCovers, ModbusRange
  <1>2. Size("LB") = 12800 /\ Size("LW") = 9999 /\ Size("RW") = 55536
    BY DEF Size
  <1>3. Size(ask.area) \in Nat
    BY <1>1, <1>2
  <1>4. ASSUME NEW k \in 0..ask.count - 1
        PROVE  /\ ask.start + k \in 0..Size(ask.area) - 1
               /\ \E l \in 0..allowed.count - 1 : allowed.start + l = ask.start + k
    <2>1. k \in Nat /\ k <= ask.count - 1
      BY <1>1
    <2>2. ask.start + k - allowed.start \in 0..allowed.count - 1
      BY <1>1, <2>1
    <2>3. allowed.start + (ask.start + k - allowed.start) = ask.start + k
      BY <1>1, <2>1
    <2>4. ask.start + k \in 0..Size(ask.area) - 1
      BY <1>1, <1>3, <2>1
    <2> QED BY <2>2, <2>3, <2>4
  <1>5. Addresses(ask) \subseteq Addresses(allowed)
    <2>1. SUFFICES ASSUME NEW k \in 0..ask.count - 1
                   PROVE  <<Table(ask.area), Base(ask.area) + ask.start + k>> \in Addresses(allowed)
      BY Zenon DEF Addresses
    <2>2. Addresses(allowed) =
            {<<Table(ask.area), Base(ask.area) + allowed.start + l>> : l \in 0..allowed.count - 1}
      BY <1>1 DEF Addresses
    <2>3. PICK l \in 0..allowed.count - 1 : allowed.start + l = ask.start + k
      BY <1>4
    <2>4. Base(ask.area) \in Nat /\ k \in Nat /\ l \in Nat
      BY <1>1 DEF Base
    <2>5. Base(ask.area) + allowed.start + l = Base(ask.area) + ask.start + k
      BY ONLY <1>1, <2>3, <2>4
    <2> QED BY <2>2, <2>5, Zenon
  <1>6. ASSUME NEW address \in Addresses(ask)
        PROVE  IF ask.area = "RW" THEN 9999 <= address[2] /\ address[2] <= 65535
               ELSE address[2] \in 0..Size(ask.area) - 1
    <2>1. PICK k \in 0..ask.count - 1 :
            address[2] = Base(ask.area) + ask.start + k
      BY DEF Addresses
    <2>2. ask.start + k \in 0..Size(ask.area) - 1
      BY <1>4
    <2>3. ASSUME NEW start \in Nat, NEW l \in Nat, start + l <= 55535
          PROVE  9999 <= 9999 + start + l /\ 9999 + start + l <= 65535
      BY ONLY <2>3
    <2>4. k \in Nat
      BY <1>1
    <2>5. CASE ask.area = "RW"
      <3>1. ask.start + k <= 55535
        BY <1>1, <1>2, <2>2, <2>4, <2>5
      <3>2. 9999 <= 9999 + ask.start + k /\ 9999 + ask.start + k <= 65535
        BY ONLY <1>1, <2>3, <2>4, <3>1
      <3> QED BY <2>1, <2>5, <3>2 DEF Base
    <2>6. CASE ask.area # "RW"
      <3>1. 0 + ask.start + k = ask.start + k
        BY ONLY <1>1, <2>4
      <3> QED BY <2>1, <2>2, <2>6, <3>1 DEF Base
    <2> QED BY <2>5, <2>6
  <1> QED BY <1>5, <1>6

\* A table that loads passes the second look.
LEMMA LoadedIsSecure ==
    ASSUME NEW kind \in Kinds, NEW t, TableLoads(kind, t)
    PROVE  Secure(kind, t) /\ (kind = "hosts" => t.pi \cap t.jetson = {})
  <1> USE DEF TableLoads, Secure, Ming, Kinds, Fields
  <1>1. CASE kind = "mqtt"
    BY <1>1 DEF MingLoads, MqttSecurity, SecureMing
  <1>2. CASE kind = "http"
    BY <1>2 DEF MingLoads, HttpSecurity, SecureMing
  <1>3. CASE kind = "opcua"
    BY <1>3 DEF HmiLoads, OpcUaSecurity, SecureOpcUa
  <1>4. CASE kind = "hmi_mqtt"
    BY <1>4 DEF HmiLoads, MqttSecurity
  <1>5. CASE kind \in {"modbus", "hosts"}
    BY <1>5 DEF HostsLoad
  <1> QED BY <1>1, <1>2, <1>3, <1>4, <1>5

\* What policy has checked of what a call is given.
Granted(c, target, ask, i) ==
    /\ Enabled(c) /\ i \in Candidates(c, ask) /\ ask \in Asks(c.kind)
    /\ target = c.tables[i] /\ Secure(c.kind, target) /\ Grants(c.kind, target, ask)

\* A file has one of the sections.
IsFile(f) ==
    \E status, allow, tables, S : \E kind \in Kinds :
        /\ f = [status |-> status, allow |-> allow, kind |-> kind, tables |-> tables]
        /\ tables \in Seq(S) /\ tables # << >>

\* A call works on a file that loads, and is given what that file grants.
ConfigInv ==
    /\ IsFile(file)
    /\ loaded # << >> => IsFile(loaded[1]) /\ Loads(loaded[1])
    /\ given # << >> => loaded # << >> /\ \E i : Granted(loaded[1], given[1].target, given[1].ask, i)

LEMMA FileKind == \A f : IsFile(f) => f.kind \in Kinds
  BY DEF IsFile

LEMMA FileTables == ASSUME NEW f, IsFile(f) PROVE f.tables # << >> /\ \E S : f.tables \in Seq(S)
  BY DEF IsFile

LEMMA ConfigInitially == ConfigInit => ConfigInv
  <1>1. SUFFICES ASSUME ConfigInit, NEW kind \in Kinds,
                        file = [status |-> "private", allow |-> "yes", kind |-> kind,
                                tables |-> <<Plain(kind)>>]
                 PROVE  ConfigInv
    BY DEF ConfigInit
  <1>2. <<Plain(kind)>> \in Seq({Plain(kind)}) /\ <<Plain(kind)>> # << >>
    OBVIOUS
  <1>3. IsFile(file)
    BY <1>1, <1>2 DEF IsFile
  <1> QED BY <1>1, <1>3 DEF ConfigInit, ConfigInv

\* An edit leaves the section as it is, and its tables a sequence.
LEMMA EditKeepsSection == ASSUME IsFile(file), Edit PROVE IsFile(file')
  <1>1. PICK status, allow, tables, S : \E kind \in Kinds :
          /\ file = [status |-> status, allow |-> allow, kind |-> kind, tables |-> tables]
          /\ tables \in Seq(S) /\ tables # << >>
    BY DEF IsFile
  <1>2. PICK kind \in Kinds :
          file = [status |-> status, allow |-> allow, kind |-> kind, tables |-> tables]
    BY <1>1
  <1>3. tables \in Seq(S) /\ tables # << >>
    BY <1>1
  <1>4. file' \in Changes(file)
    BY DEF Edit
  <1>5. CASE file' \in {[file EXCEPT !.status = s] : s \in {"private", "shared", "linked", "broken"}}
    <2>1. PICK s : file' = [file EXCEPT !.status = s]
      BY <1>5, Zenon
    <2>2. file' = [status |-> s, allow |-> allow, kind |-> kind, tables |-> tables]
      BY <1>2, <2>1
    <2> QED BY <1>3, <2>2 DEF IsFile
  <1>6. CASE file' \in {[file EXCEPT !.allow = a] : a \in Flag}
    <2>1. PICK a : file' = [file EXCEPT !.allow = a]
      BY <1>6, Zenon
    <2>2. file' = [status |-> status, allow |-> a, kind |-> kind, tables |-> tables]
      BY <1>2, <2>1
    <2> QED BY <1>3, <2>2 DEF IsFile
  <1>7. CASE file' \in Rewritten(file)
    <2>1. PICK i \in DOMAIN file.tables :
            file' \in UNION {{[file EXCEPT !.tables[i][field] = value] :
                                value \in Fields[file.kind][field]} : field \in DOMAIN Fields[file.kind]}
      BY <1>7, Zenon DEF Rewritten
    <2>2. PICK field \in DOMAIN Fields[file.kind] :
            file' \in {[file EXCEPT !.tables[i][field] = value] : value \in Fields[file.kind][field]}
      BY <2>1, Zenon
    <2>3. PICK value : file' = [file EXCEPT !.tables[i][field] = value]
      BY <2>2, Zenon
    <2>4. PICK table : file' = [status |-> status, allow |-> allow, kind |-> kind,
                                tables |-> [tables EXCEPT ![i] = table]]
      BY <1>2, <2>3
    <2>5. tables \in Seq(S \cup {table}) /\ Len(tables) # 0 /\ i \in 1..Len(tables)
      BY <1>2, <1>3
    <2>6. /\ [tables EXCEPT ![i] = table] \in Seq(S \cup {table})
          /\ Len([tables EXCEPT ![i] = table]) = Len(tables)
      <3>1. table \in S \cup {table}
        OBVIOUS
      <3> QED BY <2>5, <3>1, ExceptSeq
    <2>7. [tables EXCEPT ![i] = table] # << >>
      BY <2>5, <2>6
    <2> QED BY <2>4, <2>6, <2>7 DEF IsFile
  <1>8. CASE file' \in Extended(file)
    <2>1. file' = [file EXCEPT !.tables = Append(@, Plain(file.kind))]
      BY <1>8 DEF Extended
    <2>2. file' = [status |-> status, allow |-> allow, kind |-> kind,
                   tables |-> Append(tables, Plain(kind))]
      BY <1>2, <2>1
    <2>3. /\ Append(tables, Plain(kind)) \in Seq(S \cup {Plain(kind)})
          /\ Append(tables, Plain(kind)) # << >>
      BY <1>3
    <2> QED BY <2>2, <2>3 DEF IsFile
  <1> QED BY <1>4, <1>5, <1>6, <1>7, <1>8, Zenon DEF Changes

LEMMA ConfigStep == ASSUME ConfigInv, [ConfigNext]_configVars PROVE ConfigInv'
  <1>1. CASE Edit
    BY <1>1, EditKeepsSection DEF ConfigInv, Edit
  <1>2. CASE Load
    BY <1>2 DEF ConfigInv, Load
  <1>3. CASE Check
    BY <1>3 DEF ConfigInv, Check, Granted
  <1>4. CASE Answer
    BY <1>4 DEF ConfigInv, Answer
  <1>5. CASE UNCHANGED configVars
    BY <1>5 DEF ConfigInv, configVars
  <1> QED BY <1>1, <1>2, <1>3, <1>4, <1>5 DEF ConfigNext

THEOREM ConfigAlways == ConfigSpec => []ConfigInv
  BY ConfigInitially, ConfigStep, PTL DEF ConfigSpec

-----------------------------------------------------------------------------
\* No target of a configuration that loads is refused by the second look.
THEOREM LoadedIsAccepted == ConfigSpec => []SecondLookAgrees
  <1>1. ASSUME ConfigInv PROVE SecondLookAgrees
    <2>1. SUFFICES ASSUME loaded # << >>, NEW i \in DOMAIN loaded[1].tables
                   PROVE  /\ Secure(loaded[1].kind, loaded[1].tables[i])
                          /\ loaded[1].kind = "hosts" =>
                               loaded[1].tables[i].pi \cap loaded[1].tables[i].jetson = {}
      BY DEF SecondLookAgrees
    <2>2. TableLoads(loaded[1].kind, loaded[1].tables[i]) /\ loaded[1].kind \in Kinds
      BY <1>1, <2>1, FileKind DEF ConfigInv, Loads
    <2> QED BY <2>2, LoadedIsSecure
  <1>2. ConfigInv => SecondLookAgrees
    BY <1>1
  <1> QED BY <1>2, ConfigAlways, PTL

\* Nothing is reached in cleartext, or unpinned, unless it was waived.
THEOREM CleartextOnlyIfWaived == ConfigSpec => []CleartextIsWaived
  <1>1. ASSUME ConfigInv, given # << >> PROVE CleartextIsWaived
    <2>1. PICK i : Granted(loaded[1], given[1].target, given[1].ask, i)
      BY <1>1 DEF ConfigInv
    <2>2. loaded[1].kind \in Kinds /\ Loads(loaded[1])
      BY <1>1, FileKind DEF ConfigInv
    <2>3. loaded[1].kind \in Ming \cup Weintek => loaded[1].allow = "yes"
      BY <2>1 DEF Granted, Enabled
    <2>4. loaded[1].kind = "modbus" => given[1].target.waiver = "yes"
      <3>1. loaded[1].kind = "modbus" => i \in DOMAIN loaded[1].tables
        BY <2>1 DEF Granted, Candidates, Ming, Weintek, Listed
      <3>2. loaded[1].kind = "modbus" /\ i \in DOMAIN loaded[1].tables =>
              TableLoads("modbus", loaded[1].tables[i])
        BY <2>2 DEF Loads
      <3>3. ASSUME NEW t, TableLoads("modbus", t) PROVE t.waiver = "yes"
        BY <3>3 DEF TableLoads, Ming, ModbusLoads
      <3> QED BY <2>1, <3>1, <3>2, <3>3 DEF Granted
    <2>5. Secure(loaded[1].kind, given[1].target)
      BY <2>1 DEF Granted
    <2>6. ASSUME NEW kind \in {"mqtt", "http", "hmi_mqtt", "opcua"}, NEW t, Secure(kind, t)
          PROVE  /\ kind \in {"mqtt", "http"} => t.tls = "yes" \/ t.waiver = "yes" \/ t.host \in Local
                 /\ kind = "hmi_mqtt" => t.tls = "yes" \/ t.waiver = "yes"
                 /\ kind = "opcua" => IF t.mode = "no" THEN t.waiver = "yes"
                                      ELSE {"certificate", "key", "trust"} \subseteq t.paths
      BY <2>6 DEF Secure, SecureMing, SecureOpcUa, IsLoopback, Ming
    <2> QED BY <2>3, <2>4, <2>5, <2>6 DEF CleartextIsWaived
  <1>2. ConfigInv => CleartextIsWaived
    BY <1>1 DEF CleartextIsWaived
  <1> QED BY <1>2, ConfigAlways, PTL

\* A call is given the target it named, or the only one.
THEOREM GivenAsNamed == ConfigSpec => []NeverAGuess
  <1>1. ASSUME ConfigInv, given # << >> PROVE NeverAGuess
    <2> DEFINE c == loaded[1]
               ask == given[1].ask
               t == given[1].target
    <2>1. PICK i : Granted(c, t, ask, i)
      BY <1>1 DEF ConfigInv
    <2>2. c.kind \in Kinds /\ Loads(c)
      BY <1>1, FileKind DEF ConfigInv
    <2>3. PICK S : c.tables \in Seq(S) /\ c.tables # << >>
      BY <1>1, FileTables DEF ConfigInv
    <2>4. i \in Candidates(c, ask) /\ t = c.tables[i]
      BY <2>1 DEF Granted
    <2>5. ASSUME c.kind # "hosts", NEW j \in DOMAIN c.tables, c.tables[j] # t
          PROVE  Key(c.kind, c.tables[j]) # ask.key /\ (c.kind \in Ming => ask.key # "none")
      <3> HIDE DEF c, ask, t
      <3>1. i # j
        BY <2>4, <2>5
      <3>2. CASE c.kind \in Ming
        <4>1. i \in Pick(c, ask.key)
          BY <2>4, <3>2 DEF Candidates, Ming, Weintek
        <4>2. i \in DOMAIN c.tables
          BY <4>1 DEF Pick
        <4>3. ask.key # "none"
          <5>1. ask.key = "none" => Len(c.tables) = 1
            BY <4>1 DEF Pick
          <5>2. Len(c.tables) = 1 => i = 1 /\ j = 1
            BY <2>3, <2>5, <4>2
          <5> QED BY <3>1, <5>1, <5>2
        <4>4. Key(c.kind, c.tables[i]) = ask.key
          BY <4>1, <4>3 DEF Pick
        <4> QED BY <2>2, <2>5, <3>1, <4>2, <4>3, <4>4 DEF Loads
      <3>3. CASE c.kind \in Weintek
        <4>1. i \in Listed(c, ask.key)
          BY <2>4, <3>3 DEF Candidates, Ming, Weintek
        <4>2. i \in DOMAIN c.tables /\ Key(c.kind, c.tables[i]) = ask.key
          BY <4>1 DEF Listed
        <4>3. c.kind \notin Ming
          BY <3>3 DEF Ming, Weintek
        <4> QED BY <2>2, <2>5, <3>1, <4>2, <4>3 DEF Loads
      <3> QED BY <2>2, <2>5, <3>2, <3>3 DEF Kinds, Fields, Ming, Weintek
    <2>6. ASSUME c.kind = "hosts"
          PROVE  IF ask.key = "none" THEN Cardinality(t[ask.on]) = 1
                 ELSE ask.key \notin t[IF ask.on = "pi" THEN "jetson" ELSE "pi"]
      <3> HIDE DEF c, ask, t
      <3>1. i = 1 /\ ask.on \in {"pi", "jetson"} /\ HostGiven(t[ask.on], ask.key)
        BY <2>1, <2>6 DEF Granted, Candidates, Ming, Weintek, Asks, Grants
      <3>2. t.pi \cap t.jetson = {}
        <4>1. i \in DOMAIN c.tables
          BY <2>3, <3>1
        <4> QED BY <2>2, <2>4, <2>6, <4>1, LoadedIsSecure DEF Loads
      <3> QED BY <3>1, <3>2 DEF HostGiven
    <2> QED BY <2>5, <2>6 DEF NeverAGuess
  <1>2. ConfigInv => NeverAGuess
    BY <1>1 DEF NeverAGuess
  <1> QED BY <1>2, ConfigAlways, PTL

LEMMA FilterIsSeq == \A filter \in Filters : filter \in Seq(Levels \cup {"+", "#"}) /\ filter # << >>
  <1>1. ASSUME NEW n \in 1..2, NEW filter \in [1..n -> Levels \cup {"+", "#"}]
        PROVE  filter \in Seq(Levels \cup {"+", "#"}) /\ filter # << >>
    <2>1. n \in Nat /\ n # 0
      OBVIOUS
    <2>2. filter \in Seq(Levels \cup {"+", "#"}) /\ Len(filter) = n
      BY <2>1
    <2> QED BY <2>1, <2>2
  <1> QED BY <1>1 DEF Filters

\* What a call may listen to, publish or read is never wider than what the user
\* allowed.
THEOREM GivenAsAllowed == ConfigSpec => []NeverWidened
  <1>1. ASSUME ConfigInv, given # << >> PROVE NeverWidened
    <2> DEFINE c == loaded[1]
               ask == given[1].ask
               t == given[1].target
    <2>1. PICK i : Granted(c, t, ask, i)
      BY <1>1 DEF ConfigInv
    <2>2. Loads(c)
      BY <1>1 DEF ConfigInv
    <2> HIDE DEF c, ask, t
    <2>3. /\ i \in Candidates(c, ask) /\ t = c.tables[i]
          /\ ask \in Asks(c.kind) /\ Grants(c.kind, t, ask)
      BY <2>1 DEF Granted
    <2>4. c.kind \in {"mqtt", "modbus"} => i \in DOMAIN c.tables
      BY <2>3 DEF Candidates, Ming, Weintek, Pick, Listed
    <2>5. c.kind \in {"mqtt", "modbus"} => TableLoads(c.kind, t)
      BY <2>2, <2>3, <2>4 DEF Loads
    <2>6. ASSUME c.kind = "mqtt", "topic" \in DOMAIN ask PROVE ask.topic \in Levels \ Reserved
      <3>1. t.publish \cap (Reserved \cup {"+"}) = {}
        BY <2>5, <2>6 DEF TableLoads, Ming, MingLoads
      <3>2. ask.topic \in t.publish
        BY <2>3, <2>6 DEF Grants
      <3>3. ask.topic \in Levels \cup {"+"}
        BY <2>3, <2>6 DEF Asks
      <3> QED BY <3>1, <3>2, <3>3
    <2>7. ASSUME c.kind = "mqtt", "topic" \notin DOMAIN ask,
                 NEW topic \in Topics, Matches(ask.item, topic)
          PROVE  \E allowed \in t.subscribe : Matches(allowed, topic)
      <3>1. ask.item \in Filters
        BY <2>3, <2>7 DEF Grants, ValidFilter
      <3>2. PICK allowed \in t.subscribe : Covers(allowed, ask.item)
        BY <2>3, <2>7 DEF Grants
      <3>3. ValidFilter(allowed)
        BY <2>5, <2>7 DEF TableLoads, Ming, MingLoads
      <3> QED BY <2>7, <3>1, <3>2, <3>3, CoversIsSound, FilterIsSeq DEF ValidFilter
    <2>8. ASSUME c.kind = "modbus"
          PROVE  /\ Addresses(ask.item) \subseteq UNION {Addresses(allowed) : allowed \in t.read}
                 /\ \A address \in Addresses(ask.item) :
                      IF ask.item.area = "RW" THEN 9999 <= address[2] /\ address[2] <= 65535
                      ELSE address[2] \in 0..Size(ask.item.area) - 1
      <3>1. ask.item \in ModbusRange
        BY <2>3, <2>8, RangesAreRanges DEF Asks
      <3>2. PICK allowed \in t.read : RangeCovers(allowed, ask.item)
        BY <2>3, <2>8 DEF Grants
      <3>3. ValidRange(allowed)
        BY <2>5, <2>8 DEF TableLoads, Ming, ModbusLoads
      <3>4. Addresses(ask.item) \subseteq Addresses(allowed)
        BY <3>1, <3>2, <3>3, RangeCoversIsSound
      <3>5. Addresses(ask.item) \subseteq UNION {Addresses(a) : a \in t.read}
        BY <3>4, Zenon
      <3> QED BY <3>1, <3>2, <3>3, <3>5, RangeCoversIsSound
    <2> QED BY <2>6, <2>7, <2>8 DEF NeverWidened, c, ask, t
  <1>2. ConfigInv => NeverWidened
    BY <1>1 DEF NeverWidened
  <1> QED BY <1>2, ConfigAlways, PTL
=============================================================================

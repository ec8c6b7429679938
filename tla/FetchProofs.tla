----------------------------- MODULE FetchProofs -----------------------------
(***************************************************************************)
(* The two sides of a fetch.                                               *)
(*                                                                         *)
(* Permits, for every set of flights, every configured list and every      *)
(* capacity: the bound on the calls of an engine, and, where no two        *)
(* configured engines share an id, that flights never wait for each other  *)
(* in a circle.                                                            *)
(*                                                                         *)
(* FanOut, for any set of engines: types, and Accounted.  The invariant    *)
(* adds what the code leaves implicit: which wave each engine is in at     *)
(* each phase, that the gated engines are those with a task, and that a    *)
(* report is made when the task joins, or, for a task that panicked, at    *)
(* the end.                                                                *)
(***************************************************************************)
EXTENDS FanOut, Permits, TLAPS, FiniteSetTheorems, WellFoundedInduction

LastPosition == Primary + Deferred

-----------------------------------------------------------------------------
(* Least and greatest positions.                                           *)

LEMMA LeastNatural ==
  ASSUME NEW S \in SUBSET Nat, S # {}
  PROVE  \E m \in S : \A n \in S : m <= n
<1>1. PICK m \in S : \A n \in S : ~ (<<n, m>> \in OpToRel(<, Nat))
  BY WFMin, NatLessThanWellFounded
<1>2. \A n \in S : ~ (n < m)
  BY <1>1 DEF OpToRel
<1> QED
  BY <1>2

LEMMA PositionsAreNaturals == Positions \subseteq Nat /\ \A p \in Positions : p <= LastPosition
  BY PermitsAssumption DEF Positions, LastPosition

LEMMA LeastPosition ==
  ASSUME NEW S \in SUBSET Positions, S # {}
  PROVE  \E m \in S : \A n \in S : m <= n
  BY LeastNatural, PositionsAreNaturals

LEMMA GreatestPosition ==
  ASSUME NEW S \in SUBSET Positions, S # {}
  PROVE  \E m \in S : \A n \in S : n <= m
<1> DEFINE T == {LastPosition - p : p \in S}
<1>1. T \in SUBSET Nat /\ T # {}
  <2>1. LastPosition \in Nat
    BY PermitsAssumption DEF LastPosition
  <2>2. \A p \in S : LastPosition - p \in Nat
    BY <2>1, PositionsAreNaturals
  <2>3. PICK p \in S : TRUE
    OBVIOUS
  <2> QED
    BY <2>2, <2>3
<1>2. PICK t \in T : \A u \in T : t <= u
  BY <1>1, LeastNatural
<1>3. PICK m \in S : t = LastPosition - m
  BY <1>2
<1>4. \A n \in S : LastPosition - m <= LastPosition - n
  BY <1>2, <1>3
<1> QED
  BY <1>3, <1>4, PositionsAreNaturals, PermitsAssumption DEF LastPosition

\* acquire_all's next permit is one still missing, and the first of those.
LEMMA UpcomingIsFirst ==
  ASSUME NEW f \in Flights, wave[f] \in SUBSET Positions,
         held[f] \subseteq wave[f], wave[f] # held[f]
  PROVE  /\ Upcoming(f) \in wave[f] \ held[f]
         /\ \A q \in wave[f] \ held[f] : Upcoming(f) <= q
<1>1. wave[f] \ held[f] \in SUBSET Positions /\ wave[f] \ held[f] # {}
  OBVIOUS
<1>2. \E p \in wave[f] \ held[f] : \A q \in wave[f] \ held[f] : p <= q
  BY <1>1, LeastPosition
<1> QED
  BY <1>2 DEF Upcoming

-----------------------------------------------------------------------------
(* The inductive invariant.                                                *)

\* Permits are taken from the first position of a wave on, and a second wave
\* lies beyond the first.
InOrder ==
  \A f \in Flights :
    /\ pc[f] = "idle" => held[f] = {}
    /\ pc[f] = "queued" => wave[f] \subseteq 1..Primary
    /\ pc[f] = "fetching" => held[f] = wave[f] /\ wave[f] \subseteq 1..Primary
    /\ pc[f] \in {"queued", "hedging"} =>
         \A p \in held[f], q \in wave[f] \ held[f] : p < q

\* Only a flight with a permit to wait for stands in line.
LinedUp == \A f \in inLine : f \in Waiting /\ wave[f] # held[f]

QueueInv == PermitsTypeOK /\ InOrder /\ LinedUp /\ Polite

LEMMA QueueInitInv == PermitsInit => QueueInv
<1> SUFFICES ASSUME PermitsInit PROVE QueueInv
  OBVIOUS
<1>1. PermitsTypeOK /\ InOrder /\ LinedUp
  BY DEF PermitsInit, PermitsTypeOK, InOrder, LinedUp
<1>2. Polite
  <2>1. \A i \in EngineIds : Taken(i) = {}
    BY DEF PermitsInit, Taken
  <2> QED
    BY <2>1, FS_EmptySet, PermitsAssumption DEF Polite, Available
<1> QED
  BY <1>1, <1>2 DEF QueueInv

LEMMA TakenIsFinite ==
  ASSUME NEW i
  PROVE  IsFiniteSet(Taken(i)) /\ Cardinality(Taken(i)) \in Nat
<1>1. IsFiniteSet(Positions)
  BY FS_Interval, PermitsAssumption DEF Positions
<1>2. IsFiniteSet(Flights \X Positions)
  BY <1>1, FS_Product, PermitsAssumption
<1>3. Taken(i) \subseteq Flights \X Positions
  BY DEF Taken
<1> QED
  BY <1>2, <1>3, FS_Subset, FS_CardinalityType

\* A step that takes no permit leaves every engine within its bound.
LEMMA ReleasingIsPolite ==
  ASSUME Polite, \A f \in Flights : held'[f] \subseteq held[f]
  PROVE  Polite'
<1> SUFFICES ASSUME NEW i \in EngineIds PROVE Available(i)' >= 0
  BY DEF Polite, EngineIds
<1>1. Taken(i)' \subseteq Taken(i)
  BY DEF Taken
<1>2. Cardinality(Taken(i)') <= Cardinality(Taken(i))
  BY <1>1, TakenIsFinite, FS_Subset
<1>3. Cardinality(Taken(i)') \in Nat
  BY <1>1, TakenIsFinite, FS_Subset, FS_CardinalityType
<1> QED
  BY <1>2, <1>3, TakenIsFinite, PermitsAssumption DEF Polite, Available

\* Grant takes one, of an engine that has one to give.
LEMMA GrantingIsPolite ==
  ASSUME QueueInv, NEW f \in Flights, Grant(f)
  PROVE  Polite'
<1> DEFINE p == Upcoming(f)
<1>1. p \in Positions
  BY UpcomingIsFirst DEF QueueInv, PermitsTypeOK, LinedUp, Grant
<1> SUFFICES ASSUME NEW i \in EngineIds PROVE Available(i)' >= 0
  BY DEF Polite, EngineIds
<1>2. \A g \in Flights : held'[g] = IF g = f THEN held[g] \cup {p} ELSE held[g]
  BY DEF QueueInv, PermitsTypeOK, Grant
<1> HIDE DEF p
<1>3. CASE Id[p] = i
  <2> DEFINE more == Taken(i) \cup {<<f, p>>}
  <2>1. Taken(i)' \subseteq more
    <3> SUFFICES ASSUME NEW g \in Flights, NEW q \in Positions,
                        <<g, q>> \in Taken(i)'
                 PROVE  <<g, q>> \in more
      BY DEF Taken
    <3>1. q \in held'[g] /\ Id[q] = i
      BY DEF Taken
    <3>2. CASE q \in held[g]
      BY <3>1, <3>2 DEF Taken
    <3>3. CASE q \notin held[g]
      BY <3>1, <3>3, <1>2
    <3> QED
      BY <3>2, <3>3
  <2>2. /\ IsFiniteSet(more)
        /\ Cardinality(more) \in Nat
        /\ Cardinality(more) <= Cardinality(Taken(i)) + 1
    <3>1. /\ IsFiniteSet(more)
          /\ Cardinality(more) = IF <<f, p>> \in Taken(i)
                                  THEN Cardinality(Taken(i))
                                  ELSE Cardinality(Taken(i)) + 1
      BY TakenIsFinite, FS_AddElement, Zenon
    <3> QED
      BY <3>1, TakenIsFinite
  <2>3. /\ Cardinality(Taken(i)') <= Cardinality(more)
        /\ Cardinality(Taken(i)') \in Nat
    BY <2>1, <2>2, FS_Subset, FS_CardinalityType
  <2>4. Available(i) > 0
    BY <1>3 DEF Grant, p
  <2> QED
    BY <2>2, <2>3, <2>4, TakenIsFinite, PermitsAssumption DEF Available
<1>4. CASE Id[p] # i
  <2>1. Taken(i)' = Taken(i)
    BY <1>2, <1>4 DEF Taken
  <2> QED
    BY <2>1 DEF QueueInv, Polite, Available
<1> QED
  BY <1>3, <1>4

LEMMA QueueNextInv == QueueInv /\ [PermitsNext]_permitsVars => QueueInv'
<1> SUFFICES ASSUME QueueInv, [PermitsNext]_permitsVars PROVE QueueInv'
  OBVIOUS
<1> USE DEF QueueInv, PermitsTypeOK, Waiting
<1>1. ASSUME NEW f \in Flights, Queue(f) PROVE QueueInv'
  <2>1. PermitsTypeOK' /\ InOrder' /\ LinedUp'
    <3>1. PICK w \in SUBSET (1..Primary) : wave' = [wave EXCEPT ![f] = w]
      BY <1>1 DEF Queue
    <3>2. held[f] = {} /\ f \notin inLine
      BY <1>1 DEF Queue, InOrder, LinedUp
    <3>3. w \subseteq Positions
      BY PermitsAssumption DEF Positions
    <3>4. PermitsTypeOK'
      BY <1>1, <3>1, <3>2, <3>3 DEF Queue, line
    <3>5. InOrder'
      <4>1. /\ pc'[f] = "queued" /\ wave'[f] = w /\ held'[f] = {}
            /\ \A g \in Flights \ {f} : /\ pc'[g] = pc[g] /\ wave'[g] = wave[g]
                                       /\ held'[g] = held[g]
        BY <1>1, <3>1, <3>2 DEF Queue
      <4> QED
        BY <4>1 DEF InOrder
    <3>6. LinedUp'
      BY <1>1, <3>1, <3>2 DEF Queue, LinedUp, line
    <3> QED
      BY <3>4, <3>5, <3>6
  <2>2. Polite'
    BY <1>1, ReleasingIsPolite DEF Queue
  <2> QED
    BY <2>1, <2>2
<1>2. ASSUME NEW f \in Flights, QueueDeferred(f) PROVE QueueInv'
  <2>1. PermitsTypeOK' /\ InOrder' /\ LinedUp'
    <3>1. PICK w \in SUBSET DeferredPositions \ {{}} :
            wave' = [wave EXCEPT ![f] = @ \cup w]
      BY <1>2 DEF QueueDeferred
    <3>2. held[f] = wave[f] /\ wave[f] \subseteq 1..Primary /\ f \notin inLine
      BY <1>2 DEF QueueDeferred, InOrder, LinedUp
    <3>3. w \subseteq Positions
      BY PermitsAssumption DEF Positions, DeferredPositions
    <3>4. \A p \in wave[f], q \in w : p < q
      BY <3>2, PermitsAssumption DEF DeferredPositions
    <3>5. PermitsTypeOK'
      BY <1>2, <3>1, <3>3 DEF QueueDeferred, line
    <3>6. InOrder'
      BY <1>2, <3>1, <3>2, <3>4 DEF QueueDeferred, InOrder
    <3>7. LinedUp'
      BY <1>2, <3>1, <3>2 DEF QueueDeferred, LinedUp, line
    <3> QED
      BY <3>5, <3>6, <3>7
  <2>2. Polite'
    BY <1>2, ReleasingIsPolite DEF QueueDeferred
  <2> QED
    BY <2>1, <2>2
<1>3. ASSUME NEW f \in Flights, Enqueue(f) PROVE QueueInv'
  <2>1. PermitsTypeOK' /\ InOrder' /\ LinedUp'
    BY <1>3 DEF Enqueue, InOrder, LinedUp
  <2>2. Polite'
    BY <1>3, ReleasingIsPolite DEF Enqueue
  <2> QED
    BY <2>1, <2>2
<1>4. ASSUME NEW f \in Flights, Grant(f) PROVE QueueInv'
  <2>1. /\ wave[f] # held[f] /\ f \in Waiting
        /\ Upcoming(f) \in wave[f] \ held[f]
        /\ \A q \in wave[f] \ held[f] : Upcoming(f) <= q
    BY <1>4, UpcomingIsFirst DEF Grant, LinedUp
  <2> DEFINE p == Upcoming(f)
  <2> HIDE DEF p
  <2>2. held' = [held EXCEPT ![f] = held[f] \cup {p}]
    BY <1>4 DEF Grant, p
  <2>3. PermitsTypeOK'
    BY <1>4, <2>1, <2>2 DEF Grant, LeaveLine, p
  <2>4. InOrder'
    <3>1. \A q \in wave[f] \ (held[f] \cup {p}) : p < q
      <4> TAKE q \in wave[f] \ (held[f] \cup {p})
      <4>1. p <= q /\ p # q
        BY <2>1 DEF p
      <4>2. p \in Nat /\ q \in Nat
        BY <2>1, PositionsAreNaturals DEF p
      <4> QED
        BY <4>1, <4>2
    <3> QED
      BY <1>4, <2>1, <2>2, <3>1 DEF Grant, InOrder, p
  <2>5. LinedUp'
    BY <1>4, <2>2 DEF Grant, LinedUp, LeaveLine
  <2>6. Polite'
    BY <1>4, GrantingIsPolite
  <2> QED
    BY <2>3, <2>4, <2>5, <2>6
<1>5. ASSUME NEW f \in Flights, Acquired(f) PROVE QueueInv'
  <2>1. PermitsTypeOK' /\ InOrder' /\ LinedUp'
    BY <1>5 DEF Acquired, InOrder, LinedUp, line
  <2>2. Polite'
    BY <1>5, ReleasingIsPolite DEF Acquired
  <2> QED
    BY <2>1, <2>2
<1>6. ASSUME NEW f \in Flights, GiveUp(f) PROVE QueueInv'
  <2>1. PermitsTypeOK' /\ InOrder' /\ LinedUp'
    BY <1>6 DEF GiveUp, LeaveLine, InOrder, LinedUp
  <2>2. Polite'
    BY <1>6, ReleasingIsPolite DEF GiveUp
  <2> QED
    BY <2>1, <2>2
<1>7. ASSUME NEW f \in Flights, ReleaseAll(f) PROVE QueueInv'
  <2>1. PermitsTypeOK' /\ InOrder' /\ LinedUp'
    BY <1>7 DEF ReleaseAll, InOrder, LinedUp, line
  <2>2. Polite'
    BY <1>7, ReleasingIsPolite DEF ReleaseAll
  <2> QED
    BY <2>1, <2>2
<1>8. CASE UNCHANGED permitsVars
  <2>1. PermitsTypeOK' /\ InOrder' /\ LinedUp'
    BY <1>8 DEF permitsVars, line, InOrder, LinedUp
  <2>2. Polite'
    BY <1>8, ReleasingIsPolite DEF permitsVars
  <2> QED
    BY <2>1, <2>2
<1> QED
  BY <1>1, <1>2, <1>3, <1>4, <1>5, <1>6, <1>7, <1>8 DEF PermitsNext, Acquire

-----------------------------------------------------------------------------
(* The theorems.                                                           *)

THEOREM QueueInvariance == PermitsSpec => []QueueInv
  BY QueueInitInv, QueueNextInv, PTL DEF PermitsSpec

\* Every variable keeps to its type: permits are only held within a wave.
THEOREM QueuesTyped == PermitsSpec => []PermitsTypeOK
<1>1. QueueInv => PermitsTypeOK
  BY DEF QueueInv
<1> QED
  BY QueueInvariance, <1>1, PTL

\* Whatever flights there are, an engine never has more calls out than
\* max_concurrent_per_engine (admission.rs, Admission::acquire).
THEOREM PoliteAlways == PermitsSpec => []Polite
<1>1. QueueInv => Polite
  BY DEF QueueInv
<1> QED
  BY QueueInvariance, <1>1, PTL

\* Of the flights that wait, take one that waits for the greatest position.
LEMMA FurthestFlight ==
  ASSUME PermitsTypeOK, NEW S \in SUBSET Flights, S # {},
         \A f \in S : wave[f] # held[f]
  PROVE  \E f \in S : \A g \in S : Upcoming(g) <= Upcoming(f)
<1> DEFINE P == {Upcoming(f) : f \in S}
<1>1. \A f \in S : Upcoming(f) \in Positions
  BY UpcomingIsFirst DEF PermitsTypeOK
<1>2. P \in SUBSET Positions /\ P # {}
  BY <1>1
<1>3. PICK m \in P : \A n \in P : n <= m
  BY <1>2, GreatestPosition
<1> QED
  BY <1>3

\* Were everyone stuck, whoever holds the permit that the furthest flight
\* waits for would wait for one still further.
LEMMA SomeoneCanGoOn ==
  ASSUME QueueInv, \A p, q \in Positions : Id[p] = Id[q] => p = q
  PROVE  NoCircularWait
<1> SUFFICES ASSUME Waiting # {}, \A f \in Flights : ~CanGoOn(f) PROVE FALSE
  BY DEF NoCircularWait
<1>1. \A f \in Waiting : wave[f] # held[f]
  BY DEF CanGoOn, Waiting
<1>2. PICK f \in Waiting : \A g \in Waiting : Upcoming(g) <= Upcoming(f)
  BY <1>1, FurthestFlight DEF QueueInv, Waiting
<1>3. f \in Flights /\ Upcoming(f) \in Positions
  BY <1>1, UpcomingIsFirst DEF QueueInv, PermitsTypeOK, Waiting
<1>4. ~ (Available(Id[Upcoming(f)]) > 0)
  BY <1>3 DEF CanGoOn
<1>5. Taken(Id[Upcoming(f)]) # {}
  BY <1>4, FS_EmptySet, PermitsAssumption DEF Available
<1>6. PICK g \in Flights, p \in Positions :
        p \in held[g] /\ Id[p] = Id[Upcoming(f)]
  BY <1>5 DEF Taken
<1>7. Upcoming(f) \in held[g]
  BY <1>3, <1>6
<1>8. g \in Waiting
  BY <1>7 DEF QueueInv, PermitsTypeOK, InOrder, CanGoOn, Waiting
<1>9. Upcoming(g) \in wave[g] \ held[g] /\ Upcoming(g) \in Positions
  BY <1>1, <1>8, UpcomingIsFirst DEF QueueInv, PermitsTypeOK
<1>10. Upcoming(f) < Upcoming(g)
  BY <1>7, <1>8, <1>9 DEF QueueInv, InOrder, Waiting
<1>11. Upcoming(g) <= Upcoming(f)
  BY <1>2, <1>8
<1>12. Upcoming(f) \in Nat /\ Upcoming(g) \in Nat
  BY <1>3, <1>9, PositionsAreNaturals
<1> QED
  BY <1>10, <1>11, <1>12

\* admission.rs:175, for every number of engines, flights and permits: where
\* no two configured engines share an id, flights never wait in a circle.
THEOREM NoCircularWaitAlways ==
  ASSUME \A p, q \in Positions : Id[p] = Id[q] => p = q
  PROVE  PermitsSpec => []NoCircularWait
<1>1. QueueInv => NoCircularWait
  BY SomeoneCanGoOn
<1> QED
  BY QueueInvariance, <1>1, PTL

-----------------------------------------------------------------------------
(* The fan-out.                                                            *)

\* The waves are disjoint; nothing has been called before the loop; from the
\* promotion on every engine is in one of the waves.
WavesPartition ==
  /\ gated \cap skipped = {} /\ gated \cap deferred = {}
  /\ skipped \cap deferred = {}
  /\ phase \in {"gating", "promoting"} =>
       gated = {} /\ answered = {} /\ permits = Engines \ deferred
  /\ phase = "gating" => skipped = {}
  /\ phase # "gating" => gated \cup skipped \cup deferred = Engines

\* The engines with a task are the gated ones.
TasksAreGated == \A e \in Engines : e \in gated <=> call[e] # "unsent"

\* A joined task has been counted, unless it panicked and the flight runs.
CountedOnce ==
  /\ \A e \in answered : call[e] = "joined"
  /\ phase # "done" =>
       \A e \in Engines : reported[e] = IF e \in answered THEN 1 ELSE 0
  /\ phase = "done" =>
       \A e \in Engines : reported[e] = IF call[e] = "joined" THEN 1 ELSE 0

\* The loop holds the permits of all it has called; afterwards nothing runs.
PermitsCover ==
  /\ phase = "looping" => gated \subseteq permits
  /\ phase = "done" => InSet = {}
  /\ phase \in {"breakerOpen", "rateLimited"} => gated = {}

IInv == TypeOK /\ WavesPartition /\ TasksAreGated /\ CountedOnce /\ PermitsCover

\* The invariant starts with every engine deferred or waiting for the gate.
LEMMA InitIInv == Init => IInv
<1> SUFFICES ASSUME Init PROVE IInv
  OBVIOUS
<1>1. TypeOK
  <2>1. reported \in [Engines -> 0..1]
    <3>1. 0 \in 0..1
      OBVIOUS
    <3> QED
      BY <3>1 DEF Init
  <2> QED
    BY <2>1 DEF Init, TypeOK
<1>2. WavesPartition /\ TasksAreGated /\ CountedOnce /\ PermitsCover
  BY DEF Init, WavesPartition, TasksAreGated, CountedOnce, PermitsCover,
              InSet
<1> QED
  BY <1>1, <1>2 DEF IInv

\* The gate takes every engine of the first wave into gated or skipped.
LEMMA GateStep ==
  ASSUME IInv, Gate
  PROVE  IInv'
<1>1. TypeOK'
  BY DEF IInv, TypeOK, Ended, Outcomes, Gate, Spawn, results
<1>2. WavesPartition'
  BY DEF IInv, WavesPartition, Gate, Spawn, results, TypeOK
<1>3. TasksAreGated'
  BY DEF IInv, TypeOK, TasksAreGated, Gate, Spawn, results, WavesPartition
<1>4. CountedOnce'
  BY DEF IInv, TypeOK, CountedOnce, Gate, Spawn, results, WavesPartition
<1>5. PermitsCover'
  BY DEF IInv, TypeOK, PermitsCover, InSet, Gate, Spawn, results,
         WavesPartition
<1> QED
  BY <1>1, <1>2, <1>3, <1>4, <1>5 DEF IInv

\* The promotion does the same for the deferred wave.
LEMMA PromoteStep ==
  ASSUME IInv, Promote
  PROVE  IInv'
<1>1. TypeOK'
  BY DEF IInv, TypeOK, Ended, Outcomes, Promote, Spawn, results, hedge
<1>2. WavesPartition'
  BY DEF IInv, WavesPartition, Promote, Spawn, results, hedge, TypeOK
<1>3. TasksAreGated'
  BY DEF IInv, TypeOK, TasksAreGated, Promote, Spawn, results, hedge,
         WavesPartition
<1>4. CountedOnce'
  BY DEF IInv, TypeOK, CountedOnce, Promote, Spawn, results, hedge,
         WavesPartition
<1>5. PermitsCover'
  BY DEF IInv, TypeOK, PermitsCover, InSet, Promote, Spawn, results, hedge,
         WavesPartition
<1> QED
  BY <1>1, <1>2, <1>3, <1>4, <1>5 DEF IInv

LEMMA PromoteTimeoutStep ==
  ASSUME IInv, PromoteTimeout
  PROVE  IInv'
<1>1. TypeOK'
  BY DEF IInv, TypeOK, Ended, Outcomes, PromoteTimeout, waves, results,
         hedge
<1>2. WavesPartition'
  BY DEF IInv, WavesPartition, PromoteTimeout, waves, results, hedge
<1>3. TasksAreGated'
  BY DEF IInv, TypeOK, TasksAreGated, PromoteTimeout, waves, results, hedge
<1>4. CountedOnce'
  BY DEF IInv, TypeOK, CountedOnce, PromoteTimeout, waves, results, hedge
<1>5. PermitsCover'
  BY DEF IInv, TypeOK, PermitsCover, InSet, PromoteTimeout, waves, results,
         hedge, WavesPartition
<1> QED
  BY <1>1, <1>2, <1>3, <1>4, <1>5 DEF IInv

LEMMA ReturnStep ==
  ASSUME IInv, NEW e \in Engines, Return(e)
  PROVE  IInv'
<1>1. TypeOK'
  BY DEF IInv, TypeOK, Ended, Outcomes, Return, waves, results, hedge
<1>2. WavesPartition'
  BY DEF IInv, WavesPartition, Return, Outcomes, waves, results, hedge
<1>3. TasksAreGated'
  BY DEF IInv, TypeOK, TasksAreGated, Return, Outcomes, waves, results,
         hedge, Outcomes
<1>4. CountedOnce'
  BY DEF IInv, TypeOK, CountedOnce, Return, Outcomes, waves, results,
         hedge, Outcomes
<1>5. PermitsCover'
  BY DEF IInv, TypeOK, PermitsCover, InSet, Return, Outcomes, waves,
         results, hedge
<1> QED
  BY <1>1, <1>2, <1>3, <1>4, <1>5 DEF IInv

LEMMA PanicStep ==
  ASSUME IInv, NEW e \in Engines, Panic(e)
  PROVE  IInv'
<1>1. TypeOK'
  BY DEF IInv, TypeOK, Ended, Outcomes, Panic, waves, results, hedge
<1>2. WavesPartition'
  BY DEF IInv, WavesPartition, Panic, waves, results, hedge
<1>3. TasksAreGated'
  BY DEF IInv, TypeOK, TasksAreGated, Panic, waves, results, hedge
<1>4. CountedOnce'
  BY DEF IInv, TypeOK, CountedOnce, Panic, waves, results, hedge
<1>5. PermitsCover'
  BY DEF IInv, TypeOK, PermitsCover, InSet, Panic, waves, results, hedge
<1> QED
  BY <1>1, <1>2, <1>3, <1>4, <1>5 DEF IInv

LEMMA PermitTaskStep ==
  ASSUME IInv, PermitTask
  PROVE  IInv'
<1>1. TypeOK'
  BY DEF IInv, TypeOK, Ended, Outcomes, PermitTask, PermitsGranted,
         PermitsTimeout, waves, results
<1>2. WavesPartition'
  BY DEF IInv, WavesPartition, PermitTask, PermitsGranted, PermitsTimeout,
         waves, results
<1>3. TasksAreGated'
  BY DEF IInv, TypeOK, TasksAreGated, PermitTask, PermitsGranted,
         PermitsTimeout, waves, results
<1>4. CountedOnce'
  BY DEF IInv, TypeOK, CountedOnce, PermitTask, PermitsGranted,
         PermitsTimeout, waves, results
<1>5. PermitsCover'
  BY DEF IInv, TypeOK, PermitsCover, InSet, PermitTask, PermitsGranted,
         PermitsTimeout, waves, results
<1> QED
  BY <1>1, <1>2, <1>3, <1>4, <1>5 DEF IInv

\* A task that joins had a task, and had not been reported.
LEMMA JoinedStep ==
  ASSUME IInv, NEW e \in Engines, Joined(e)
  PROVE  IInv'
<1>1. TypeOK'
  <2>1. phase = "looping" /\ call[e] \in Outcomes
    BY DEF Joined
  <2>2. e \notin answered
    BY <2>1 DEF IInv, CountedOnce, Outcomes
  <2>3. reported[e] = 0
    BY <2>1, <2>2 DEF IInv, CountedOnce
  <2>4. reported' \in [Engines -> 0..1]
    <3>1. \A d \in Engines : reported[d] \in 0..1 /\ 0 + 1 \in 0..1
      BY DEF IInv, TypeOK
    <3>2. reported' = [d \in Engines |-> IF d = e THEN 0 + 1 ELSE reported[d]]
      BY <2>3 DEF Joined, Report
    <3> QED
      BY <3>1, <3>2
  <2>5. /\ answered' \subseteq Engines /\ full' \in BOOLEAN
        /\ hedgePending' \in BOOLEAN
    BY DEF IInv, TypeOK, Joined
  <2>6. acquiring' \in {"none", "waiting", "granted", "timedOut"}
    BY DEF IInv, TypeOK, Joined, Queued
  <2> QED
    BY <2>4, <2>5, <2>6 DEF IInv, TypeOK, Joined, waves
<1>2. WavesPartition'
  BY DEF IInv, WavesPartition, Joined, Report, Queued, Outcomes, waves
<1>3. TasksAreGated'
  BY DEF IInv, TypeOK, TasksAreGated, Joined, Report, Queued, Outcomes,
         waves, Outcomes
<1>4. CountedOnce'
  BY DEF IInv, TypeOK, CountedOnce, Joined, Report, Queued, Outcomes,
         waves, Outcomes
<1>5. PermitsCover'
  BY DEF IInv, TypeOK, PermitsCover, InSet, Joined, Report, Queued,
         Outcomes, waves, Outcomes
<1> QED
  BY <1>1, <1>2, <1>3, <1>4, <1>5 DEF IInv

LEMMA JoinErrorStep ==
  ASSUME IInv, NEW e \in Engines, JoinError(e)
  PROVE  IInv'
<1>1. TypeOK'
  BY DEF IInv, TypeOK, Ended, Outcomes, JoinError, waves, results, hedge
<1>2. WavesPartition'
  BY DEF IInv, WavesPartition, JoinError, waves, results, hedge
<1>3. TasksAreGated'
  BY DEF IInv, TypeOK, TasksAreGated, JoinError, waves, results, hedge
<1>4. CountedOnce'
  BY DEF IInv, TypeOK, CountedOnce, JoinError, waves, results, hedge
<1>5. PermitsCover'
  BY DEF IInv, TypeOK, PermitsCover, InSet, JoinError, waves, results,
         hedge
<1> QED
  BY <1>1, <1>2, <1>3, <1>4, <1>5 DEF IInv

LEMMA HedgeWakeStep ==
  ASSUME IInv, HedgeWake
  PROVE  IInv'
<1>1. TypeOK'
  BY DEF IInv, TypeOK, Ended, Outcomes, HedgeWake, Queued, waves, results
<1>2. WavesPartition'
  BY DEF IInv, WavesPartition, HedgeWake, Queued, waves, results
<1>3. TasksAreGated'
  BY DEF IInv, TypeOK, TasksAreGated, HedgeWake, Queued, waves, results
<1>4. CountedOnce'
  BY DEF IInv, TypeOK, CountedOnce, HedgeWake, Queued, waves, results
<1>5. PermitsCover'
  BY DEF IInv, TypeOK, PermitsCover, InSet, HedgeWake, Queued, waves,
         results
<1> QED
  BY <1>1, <1>2, <1>3, <1>4, <1>5 DEF IInv

\* The hedge moves the deferred engines, and only adds permits.
LEMMA FinishHedgeStep ==
  ASSUME IInv, FinishHedge
  PROVE  IInv'
<1>1. TypeOK'
  BY DEF IInv, TypeOK, Ended, Outcomes, FinishHedge, Spawn, waves, results
<1>2. WavesPartition'
  BY DEF IInv, WavesPartition, FinishHedge, Spawn, waves, results
<1>3. TasksAreGated'
  BY DEF IInv, TypeOK, TasksAreGated, FinishHedge, Spawn, waves, results,
         WavesPartition
<1>4. CountedOnce'
  BY DEF IInv, TypeOK, CountedOnce, FinishHedge, Spawn, waves, results,
         WavesPartition, TasksAreGated
<1>5. PermitsCover'
  BY DEF IInv, TypeOK, PermitsCover, InSet, FinishHedge, Spawn, waves,
         results
<1> QED
  BY <1>1, <1>2, <1>3, <1>4, <1>5 DEF IInv

LEMMA HedgeDroppedStep ==
  ASSUME IInv, HedgeDropped
  PROVE  IInv'
<1>1. TypeOK'
  BY DEF IInv, TypeOK, Ended, Outcomes, HedgeDropped, waves, results
<1>2. WavesPartition'
  BY DEF IInv, WavesPartition, HedgeDropped, waves, results
<1>3. TasksAreGated'
  BY DEF IInv, TypeOK, TasksAreGated, HedgeDropped, waves, results
<1>4. CountedOnce'
  BY DEF IInv, TypeOK, CountedOnce, HedgeDropped, waves, results
<1>5. PermitsCover'
  BY DEF IInv, TypeOK, PermitsCover, InSet, HedgeDropped, waves, results
<1> QED
  BY <1>1, <1>2, <1>3, <1>4, <1>5 DEF IInv

\* What has not answered when the set is empty has panicked.
LEMMA FinishStep ==
  ASSUME IInv, Finish
  PROVE  IInv'
<1>1. TypeOK'
  BY DEF IInv, TypeOK, Ended, Outcomes, Finish, Report, waves, hedge,
         CountedOnce
<1>2. WavesPartition'
  BY DEF IInv, WavesPartition, Finish, Report, waves, hedge
<1>3. TasksAreGated'
  BY DEF IInv, TypeOK, TasksAreGated, Finish, Report, waves, hedge
<1>4. CountedOnce'
  BY DEF IInv, TypeOK, CountedOnce, Finish, Report, waves, hedge, InSet,
         TasksAreGated, Outcomes
<1>5. PermitsCover'
  BY DEF IInv, TypeOK, PermitsCover, InSet, Finish, Report, waves, hedge,
         TasksAreGated
<1> QED
  BY <1>1, <1>2, <1>3, <1>4, <1>5 DEF IInv

LEMMA TickStep ==
  ASSUME IInv, Tick
  PROVE  IInv'
<1>1. TypeOK'
  BY DEF IInv, TypeOK, Ended, Outcomes, Tick, waves, results, hedge
<1>2. WavesPartition'
  BY DEF IInv, WavesPartition, Tick, waves, results, hedge
<1>3. TasksAreGated'
  BY DEF IInv, TypeOK, TasksAreGated, Tick, waves, results, hedge
<1>4. CountedOnce'
  BY DEF IInv, TypeOK, CountedOnce, Tick, waves, results, hedge
<1>5. PermitsCover'
  BY DEF IInv, TypeOK, PermitsCover, InSet, Tick, waves, results, hedge
<1> QED
  BY <1>1, <1>2, <1>3, <1>4, <1>5 DEF IInv

\* Every step of the fan-out, and none, keeps the invariant.
LEMMA NextIInv == IInv /\ [Next]_vars => IInv'
<1> SUFFICES ASSUME IInv, [Next]_vars PROVE IInv'
  OBVIOUS
<1>1. CASE Setup
  BY <1>1, GateStep, PromoteStep, PromoteTimeoutStep DEF Setup
<1>2. CASE Loop
  BY <1>2, HedgeWakeStep, FinishHedgeStep, HedgeDroppedStep, FinishStep DEF Loop
<1>3. CASE PermitTask
  BY <1>3, PermitTaskStep
<1>4. CASE Tick
  BY <1>4, TickStep
<1>5. CASE \E e \in Engines : Resolve(e) \/ JoinNext(e)
  BY <1>5, ReturnStep, PanicStep, JoinedStep, JoinErrorStep
     DEF Resolve, JoinNext
<1>6. CASE UNCHANGED vars
  BY <1>6 DEF vars, waves, hedge, results, IInv, TypeOK, WavesPartition,
              TasksAreGated, CountedOnce, PermitsCover, InSet
<1> QED
  BY <1>1, <1>2, <1>3, <1>4, <1>5, <1>6 DEF Next

\* The waves, the tasks, the reports and the permits of a fan-out agree in
\* every reachable state, for any engines.
THEOREM Invariance == Spec => []IInv
<1> QED
  BY InitIInv, NextIInv, PTL DEF Spec

\* Every reachable state of the fan-out is well typed; in particular no
\* engine is ever reported twice.
THEOREM TypeCorrect == Spec => []TypeOK
<1>1. IInv => TypeOK
  BY DEF IInv
<1> QED
  BY <1>1, Invariance, PTL

\* CallsHoldPermits: nothing runs outside the loop, and the loop holds all.
LEMMA InvariantAccounts == IInv => Accounted
<1> SUFFICES ASSUME IInv PROVE Accounted
  OBVIOUS
<1>1. CallsHoldPermits
  <2> SUFFICES ASSUME NEW e \in Engines, call[e] = "running" PROVE e \in permits
    BY DEF CallsHoldPermits
  <2>1. e \in gated
    BY DEF IInv, TasksAreGated
  <2>2. phase = "looping"
    BY <2>1 DEF IInv, TypeOK, Ended, WavesPartition, PermitsCover, InSet
  <2> QED
    BY <2>1, <2>2 DEF IInv, PermitsCover
<1>2. AdmittedAreCalled
  BY DEF IInv, TypeOK, TasksAreGated, AdmittedAreCalled
<1>3. OneReportEach
  BY DEF IInv, TypeOK, WavesPartition, TasksAreGated, CountedOnce, OneReportEach
<1> QED
  BY <1>1, <1>2, <1>3 DEF Accounted

\* Nothing is claimed, called or held that the response does not account for,
\* whichever of hedge timer, permits, answers and panics comes first.
THEOREM AccountedAlways == Spec => []Accounted
<1> QED
  BY Invariance, InvariantAccounts, PTL
=============================================================================

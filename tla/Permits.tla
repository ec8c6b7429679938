------------------------------ MODULE Permits ------------------------------
(***************************************************************************)
(* The bounded per-engine queues of admission: the flights of every cache  *)
(* key take one permit per engine call, wave by wave, from the engines'    *)
(* FIFO semaphores, within a wait budget                                   *)
(* (crates/cauce-core/src/admission.rs, as flight, promote_deferred and    *)
(* queue_hedge call it).                                                   *)
(*                                                                         *)
(* Positions are the configured engines in the order they are acquired:    *)
(* tier 1 and 3 in configured order for the t=0 wave, then tier 2 for the  *)
(* deferred one.  Two positions may share an engine id.                    *)
(***************************************************************************)
EXTENDS Integers, FiniteSets

CONSTANTS
  Flights,
  Primary, Deferred,  \* numbers of positions
  Id,                 \* the engine id of each position
  Capacity            \* max_concurrent_per_engine

Positions == 1..(Primary + Deferred)
DeferredPositions == (Primary + 1)..(Primary + Deferred)

ASSUME PermitsAssumption ==
  /\ Primary \in Nat /\ Deferred \in Nat
  /\ Capacity \in Nat \ {0}
  /\ DOMAIN Id = Positions
  /\ IsFiniteSet(Flights)

VARIABLES
  pc,       \* where each flight is
  wave,     \* the positions it has to hold before it goes on
  held,     \* the positions whose permits it holds
  inLine,   \* the flights that stand in the queue of a semaphore
  ahead     \* those before them: the semaphores are FIFO

line == <<inLine, ahead>>
permitsVars == <<pc, wave, held, line>>

EngineIds == {Id[p] : p \in Positions}
Waiting == {f \in Flights : pc[f] \in {"queued", "hedging"}}

PermitsTypeOK ==
  /\ pc \in [Flights -> {"idle", "queued", "fetching", "hedging", "hedged"}]
  /\ wave \in [Flights -> SUBSET Positions]
  /\ held \in [Flights -> SUBSET Positions]
  /\ \A f \in Flights : held[f] \subseteq wave[f]
  /\ inLine \subseteq Flights
  /\ ahead \in [Flights -> SUBSET Flights]

Taken(i) == {x \in Flights \X Positions : x[2] \in held[x[1]] /\ Id[x[2]] = i}
Available(i) == Capacity - Cardinality(Taken(i))

-----------------------------------------------------------------------------
\* Mutated Upcoming: a flight takes its permits in whatever order.
UpcomingAnyOrder(f) == CHOOSE p \in wave[f] \ held[f] :
  \A q \in wave[f] \ held[f] : IF f = CHOOSE g \in Flights : TRUE THEN p <= q ELSE q <= p

\* acquire_all goes through its list in order.
Upcoming(f) == CHOOSE p \in wave[f] \ held[f] : \A q \in wave[f] \ held[f] : p <= q

\* A flight past its lexical lookup queues for its t=0 wave (a pin may leave
\* only tier 2, and the wave empty).
Queue(f) ==
  /\ pc[f] = "idle"
  /\ pc' = [pc EXCEPT ![f] = "queued"]
  /\ \E w \in SUBSET (1..Primary) : wave' = [wave EXCEPT ![f] = w]
  /\ UNCHANGED <<held, line>>

\* The deferred wave's permits, on top of those held: promote_deferred or
\* queue_hedge.
QueueDeferred(f) ==
  /\ pc[f] = "fetching"
  /\ pc' = [pc EXCEPT ![f] = "hedging"]
  /\ \E w \in SUBSET DeferredPositions \ {{}} :
       wave' = [wave EXCEPT ![f] = @ \cup w]
  /\ UNCHANGED <<held, line>>

LeaveLine(f) ==
  /\ inLine' = inLine \ {f}
  /\ ahead' = [g \in Flights |-> IF g = f THEN {} ELSE ahead[g] \ {f}]

\* acquire_owned: to the back of the semaphore's queue ...
Enqueue(f) ==
  /\ f \in Waiting /\ wave[f] # held[f] /\ f \notin inLine
  /\ inLine' = inLine \cup {f}
  /\ ahead' = [ahead EXCEPT ![f] =
                 {g \in inLine : Id[Upcoming(g)] = Id[Upcoming(f)]}]
  /\ UNCHANGED <<pc, wave, held>>

\* Mutated forms of Grant: no capacity check; no regard for the others in line.
GrantAnyway(f) ==
  /\ f \in inLine /\ ahead[f] = {}
  /\ held' = [held EXCEPT ![f] = @ \cup {Upcoming(f)}]
  /\ LeaveLine(f)
  /\ UNCHANGED <<pc, wave>>

GrantUnfair(f) ==
  /\ f \in inLine
  /\ Available(Id[Upcoming(f)]) > 0
  /\ held' = [held EXCEPT ![f] = @ \cup {Upcoming(f)}]
  /\ LeaveLine(f)
  /\ UNCHANGED <<pc, wave>>

\* ... and from its front when a permit is free.
Grant(f) ==
  /\ f \in inLine /\ ahead[f] = {}
  /\ Available(Id[Upcoming(f)]) > 0
  /\ held' = [held EXCEPT ![f] = @ \cup {Upcoming(f)}]
  /\ LeaveLine(f)
  /\ UNCHANGED <<pc, wave>>

Acquired(f) ==
  /\ f \in Waiting /\ wave[f] = held[f]
  /\ pc' = [pc EXCEPT ![f] = IF @ = "queued" THEN "fetching" ELSE "hedged"]
  /\ UNCHANGED <<wave, held, line>>

\* The wait budget is used up, or the merge has filled and the hedge is
\* aborted: the permits of this wave go, and so does the place in line.
GiveUp(f) ==
  /\ f \in Waiting
  /\ LeaveLine(f)
  /\ LET kept == IF pc[f] = "queued" THEN {} ELSE held[f] \ DeferredPositions
     IN  held' = [held EXCEPT ![f] = kept] /\ wave' = [wave EXCEPT ![f] = kept]
  /\ pc' = [pc EXCEPT ![f] = IF @ = "queued" THEN "idle" ELSE "hedged"]

\* The flight ends and drops what it holds.
ReleaseAll(f) ==
  /\ pc[f] \in {"fetching", "hedged"}
  /\ pc' = [pc EXCEPT ![f] = "idle"]
  /\ held' = [held EXCEPT ![f] = {}] /\ wave' = [wave EXCEPT ![f] = {}]
  /\ UNCHANGED line

-----------------------------------------------------------------------------
PermitsInit ==
  /\ pc = [f \in Flights |-> "idle"]
  /\ wave = [f \in Flights |-> {}] /\ held = [f \in Flights |-> {}]
  /\ inLine = {} /\ ahead = [f \in Flights |-> {}]

Acquire(f) == Enqueue(f) \/ Grant(f) \/ Acquired(f)

PermitsNext == \E f \in Flights :
  Queue(f) \/ QueueDeferred(f) \/ Acquire(f) \/ GiveUp(f) \/ ReleaseAll(f)

PermitsSpec == PermitsInit /\ [][PermitsNext]_permitsVars

\* Semaphores hand out what is free and fetches end by their deadline.  That
\* a wait is given up is not counted on: permits must come without it.
PermitsFairSpec ==
  PermitsSpec /\ \A f \in Flights : WF_permitsVars(Acquire(f)) /\ WF_permitsVars(ReleaseAll(f))

-----------------------------------------------------------------------------
(* What the queues promise.                                                *)

\* An engine never has more than max_concurrent_per_engine calls out.
Polite == \A i \in EngineIds : Available(i) >= 0

\* admission.rs:175: flights acquire "in the same order and cannot deadlock".
\* If flights wait, one of them can go on or one has a fetch that will end.
CanGoOn(f) ==
  \/ pc[f] \in {"fetching", "hedged"}
  \/ f \in Waiting /\ (wave[f] = held[f] \/ Available(Id[Upcoming(f)]) > 0)
NoCircularWait == Waiting # {} => \E f \in Flights : CanGoOn(f)

\* Nothing starves in the FIFO, hedges that hold permits while they wait for
\* more included: with no timeout at all every wait comes to an end.
WaitsEnd == \A f \in Flights : f \in Waiting ~> f \notin Waiting
=============================================================================

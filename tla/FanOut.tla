------------------------------- MODULE FanOut -------------------------------
(***************************************************************************)
(* One flight's fan-out: the breaker gate, the promotion of the deferred   *)
(* wave, the select loop that joins engine tasks, races the hedge timer    *)
(* and the tier-2 permits against them, and the reports it ends with       *)
(* (crates/cauce-core/src/pipeline/fanout.rs and waves.rs).                *)
(*                                                                         *)
(* A step runs up to the next await.  Time is where the flight stands with *)
(* respect to its hedge point and its hard deadline.  Of the merged list   *)
(* only whether it has reached hedge.min_results matters.  What the        *)
(* breakers let through is open: Breaker says when they do.                *)
(***************************************************************************)
EXTENDS Naturals

CONSTANT Engines    \* the runnable engines

VARIABLES
  gated, deferred, skipped,   \* Waves
  phase,        \* gating, promoting, looping, or how the fetch ended
  call,         \* each engine's task in the JoinSet
  answered,     \* FanOut.answered
  reported,     \* FanOut.reports: how many, by engine
  full,         \* merge.map.len() >= hedge.min_results
  hedgePending, \* hedge_pending
  acquiring,    \* hedge_acquire: none, or what its task has come to
  permits,      \* the engines whose admission permits are held
  hedged,       \* FanOut.hedged
  clock         \* before the hedge point, past it, past the deadline

waves == <<gated, deferred, skipped>>
hedge == <<hedgePending, acquiring, hedged>>
results == <<answered, reported, full>>
vars == <<waves, phase, call, results, hedge, permits, clock>>

Ended == {"done", "breakerOpen", "rateLimited"}
Outcomes == {"page", "empty", "error", "elapsed"}

TypeOK ==
  /\ gated \subseteq Engines /\ deferred \subseteq Engines /\ skipped \subseteq Engines
  /\ phase \in {"gating", "promoting", "looping"} \cup Ended
  /\ call \in [Engines -> {"unsent", "running", "panicked", "joined"} \cup Outcomes]
  /\ answered \subseteq Engines
  /\ reported \in [Engines -> 0..1]
  /\ full \in BOOLEAN /\ hedgePending \in BOOLEAN /\ hedged \in BOOLEAN
  /\ acquiring \in {"none", "waiting", "granted", "timedOut"}
  /\ permits \subseteq Engines
  /\ clock \in {"early", "hedge", "late"}

-----------------------------------------------------------------------------
\* spawn_into: one task per admitted engine.
Spawn(now) == call' = [e \in Engines |-> IF e \in now THEN "running" ELSE call[e]]

Report(set) ==
  reported' = [e \in Engines |-> IF e \in set THEN reported[e] + 1 ELSE reported[e]]

\* fetch, with the t=0 permits held: gate_waves, and straight on to the spawn
\* when any primary is admitted.
Gate ==
  /\ phase = "gating"
  /\ \E now \in SUBSET (Engines \ deferred) :
       /\ gated' = now
       /\ skipped' = (Engines \ deferred) \ now
       /\ Spawn(now)
       /\ hedgePending' = (now # {} /\ deferred # {})
       /\ phase' = IF now # {} THEN "looping"
                   ELSE IF deferred = {} THEN "breakerOpen" ELSE "promoting"
  /\ permits' = IF phase' = "breakerOpen" THEN {} ELSE permits
  /\ UNCHANGED <<deferred, results, acquiring, hedged, clock>>

\* promote_deferred: permits first, then the gate, then the spawn.
Promote ==
  /\ phase = "promoting"
  /\ deferred' = {}
  /\ \E now \in SUBSET deferred :
       /\ gated' = now
       /\ skipped' = skipped \cup (deferred \ now)
       /\ Spawn(now)
       /\ phase' = IF now = {} THEN "breakerOpen" ELSE "looping"
       /\ permits' = IF now = {} THEN {} ELSE permits \cup deferred
  /\ UNCHANGED <<results, hedge, clock>>

PromoteTimeout ==
  /\ phase = "promoting"
  /\ phase' = "rateLimited" /\ permits' = {}
  /\ UNCHANGED <<waves, call, results, hedge, clock>>

-----------------------------------------------------------------------------
(* The engine tasks and the permit task.                                   *)

\* timeout(deadline, engine.search(..)) resolves; the health record is made.
Return(e) ==
  /\ call[e] = "running"
  /\ \E o \in Outcomes :
       /\ o = "elapsed" => clock = "late"
       /\ call' = [call EXCEPT ![e] = o]
  /\ UNCHANGED <<waves, phase, results, hedge, permits, clock>>

Panic(e) ==
  /\ call[e] = "running"
  /\ call' = [call EXCEPT ![e] = "panicked"]
  /\ UNCHANGED <<waves, phase, results, hedge, permits, clock>>

\* acquire_within(ids, remaining).
PermitsGranted ==
  /\ acquiring = "waiting"
  /\ acquiring' = "granted"
  /\ UNCHANGED <<waves, phase, call, results, hedgePending, hedged, permits, clock>>

PermitsTimeout ==
  /\ acquiring = "waiting" /\ clock = "late"
  /\ acquiring' = "timedOut"
  /\ UNCHANGED <<waves, phase, call, results, hedgePending, hedged, permits, clock>>

-----------------------------------------------------------------------------
(* The select loop.                                                        *)

\* queue_hedge: nothing to wait for past the deadline.
Queued == IF clock = "late" \/ deferred = {} THEN "none" ELSE "waiting"

\* A task joins: fold_outcome, merge, and the two hedge decisions: queue it at
\* once when every primary has answered short, abort it once the merge fills.
Joined(e) ==
  /\ phase = "looping" /\ call[e] \in Outcomes
  /\ call' = [call EXCEPT ![e] = "joined"]
  /\ answered' = answered \cup {e}
  /\ Report({e})
  /\ IF call[e] = "page" THEN full' \in {full, TRUE} ELSE UNCHANGED full
  /\ LET early == hedgePending /\ gated \subseteq answered'
     IN  /\ hedgePending' = (hedgePending /\ ~early)
         /\ acquiring' = IF full' THEN "none"
                         ELSE IF early THEN Queued ELSE acquiring
  /\ UNCHANGED <<waves, phase, hedged, permits, clock>>

\* A panicked task joins as an error that does not name its engine.
JoinError(e) ==
  /\ phase = "looping" /\ call[e] = "panicked"
  /\ call' = [call EXCEPT ![e] = "joined"]
  /\ UNCHANGED <<waves, phase, results, hedge, permits, clock>>

\* Mutated HedgeWake: the timer that fires past the deadline is not spent.
HedgeWakeKept ==
  /\ phase = "looping" /\ hedgePending /\ clock = "hedge"
  /\ hedgePending' = FALSE
  /\ acquiring' = IF full THEN "none" ELSE Queued
  /\ UNCHANGED <<waves, phase, call, results, hedged, permits, clock>>

\* The hedge timer, capped at the hard deadline.
HedgeWake ==
  /\ phase = "looping" /\ hedgePending /\ clock \in {"hedge", "late"}
  /\ hedgePending' = FALSE
  /\ acquiring' = IF full THEN "none" ELSE Queued
  /\ UNCHANGED <<waves, phase, call, results, hedged, permits, clock>>

\* Mutated FinishHedge: the hedge's permits go out of scope with the branch.
FinishHedgeNoHold ==
  /\ phase = "looping" /\ acquiring = "granted"
  /\ acquiring' = "none"
  /\ IF clock = "late" THEN UNCHANGED <<waves, call, hedged>>
     ELSE \E now \in SUBSET deferred :
            /\ skipped' = skipped \cup (deferred \ now) /\ deferred' = {}
            /\ gated' = gated \cup now /\ Spawn(now)
            /\ hedged' = (now # {})
  /\ UNCHANGED <<phase, results, hedgePending, permits, clock>>

\* The permits are here: finish_hedge gates and spawns the deferred wave,
\* unless the deadline has passed meanwhile.
FinishHedge ==
  /\ phase = "looping" /\ acquiring = "granted"
  /\ acquiring' = "none" /\ permits' = permits \cup deferred
  /\ IF clock = "late" THEN UNCHANGED <<waves, call, hedged>>
     ELSE \E now \in SUBSET deferred :
            /\ skipped' = skipped \cup (deferred \ now) /\ deferred' = {}
            /\ gated' = gated \cup now /\ Spawn(now)
            /\ hedged' = (now # {})
  /\ UNCHANGED <<phase, results, hedgePending, clock>>

HedgeDropped ==
  /\ phase = "looping" /\ acquiring = "timedOut"
  /\ acquiring' = "none"
  /\ UNCHANGED <<waves, phase, call, results, hedgePending, hedged, permits, clock>>

InSet == {e \in Engines : call[e] \notin {"unsent", "joined"}}

\* The set is empty and no hedge is pending: reconcile_unanswered reports the
\* engines that never answered, finish_fetch builds the response, and the
\* permits go with the fetch.
Finish ==
  /\ phase = "looping" /\ InSet = {} /\ ~hedgePending /\ acquiring = "none"
  /\ Report(gated \ answered)
  /\ phase' = "done" /\ permits' = {}
  /\ UNCHANGED <<waves, call, answered, full, hedge, clock>>

Tick ==
  /\ clock # "late" /\ phase \notin Ended
  /\ clock' = IF clock = "early" THEN "hedge" ELSE "late"
  /\ UNCHANGED <<waves, phase, call, results, hedge, permits>>

-----------------------------------------------------------------------------
\* The deferred wave is tier 2; the t=0 permits are held before the fetch.
Init ==
  /\ deferred \in SUBSET Engines
  /\ gated = {} /\ skipped = {}
  /\ phase = "gating"
  /\ call = [e \in Engines |-> "unsent"]
  /\ answered = {} /\ reported = [e \in Engines |-> 0] /\ full = FALSE
  /\ hedgePending = FALSE /\ acquiring = "none" /\ hedged = FALSE
  /\ permits = Engines \ deferred
  /\ clock \in {"early", "hedge", "late"}

Resolve(e) == Return(e) \/ Panic(e)
JoinNext(e) == Joined(e) \/ JoinError(e)
PermitTask == PermitsGranted \/ PermitsTimeout
Loop == HedgeWake \/ FinishHedge \/ HedgeDropped \/ Finish
Setup == Gate \/ Promote \/ PromoteTimeout

Next ==
  \/ Setup \/ Loop \/ PermitTask \/ Tick
  \/ \E e \in Engines : Resolve(e) \/ JoinNext(e)

\* The runtime polls the flight and its tasks, the clock reaches the deadline,
\* and every engine call and every permit wait ends by then.
Fairness ==
  /\ WF_vars(Setup) /\ WF_vars(Loop) /\ WF_vars(PermitTask) /\ WF_vars(Tick)
  /\ \A e \in Engines : WF_vars(Resolve(e)) /\ WF_vars(JoinNext(e))

Spec == Init /\ [][Next]_vars /\ Fairness

-----------------------------------------------------------------------------
(* What the fan-out promises.                                              *)

\* An engine is called only under its admission permit, for as long as the
\* call runs: the hedge wave's permits outlive the loop branch that won them.
CallsHoldPermits == {e \in Engines : call[e] = "running"} \subseteq permits

\* An engine the breaker let through is called: no HalfOpen claim is left
\* behind by a permit wait that fails or by a fetch that ends in an error.
AdmittedAreCalled == \A e \in gated : call[e] # "unsent"

\* The response accounts for every engine exactly once: one report if it was
\* called (whether it answered, failed, timed out or panicked, at t=0 or in
\* the hedge), else engines_skipped or a hedge that did not fire.
OneReportEach ==
  phase = "done" =>
    \A e \in Engines :
      /\ reported[e] = IF call[e] = "joined" THEN 1 ELSE 0
      /\ call[e] = "unsent" <=> e \in skipped \cup deferred
      /\ ~(e \in skipped /\ e \in deferred)

\* Together: nothing is claimed, called or held that the response does not
\* account for, whichever of timer, permits and answers comes first.
Accounted == CallsHoldPermits /\ AdmittedAreCalled /\ OneReportEach

\* A fetch ends: no timer, permit wait or lost task keeps the loop alive.
FetchEnds == <>(phase \in Ended)
=============================================================================

------------------------------ MODULE Breaker ------------------------------
(***************************************************************************)
(* The circuit breaker of one engine: EngineHealth inside HealthTracker    *)
(* (crates/cauce-core/src/health.rs), with everything that drives it: the  *)
(* fan-out's engine calls, the background prober, the reset route and the  *)
(* hot apply of [health].  Every HealthTracker method holds the tracker's  *)
(* mutex from start to end, so each is one atomic part of a step; a call   *)
(* takes several steps (admission, record, guard drop) and other calls     *)
(* interleave between them.  No method relates two engines, so one engine  *)
(* is enough.                                                              *)
(*                                                                         *)
(* Time: breaker_until is kept as wait, the ticks left until it passes (0  *)
(* when it has passed or is None); Tick lets one tick of the wall clock go *)
(* by.  Counters compared with a threshold saturate at StreakCap and       *)
(* BackoffCap, beyond which no comparison can tell them apart.             *)
(***************************************************************************)
EXTENDS Integers, FiniteSets

CONSTANTS
  Requests,          \* slots for engine calls made by searches in progress
  Prober,            \* the one call the recovery prober may have out
  Policies,          \* the HealthPolicy values a [health] save may install
  AbuseWindow,       \* abuse_window: rest after RateLimited / Blocked
  TimeoutThreshold,  \* timeout_threshold
  TimeoutWindow,     \* timeout_window
  MinRest,           \* a lower bound of every rest the policies can impose
  StreakCap,         \* bound: the streaks saturate here
  BackoffCap         \* bound: probe_failures saturates here

Calls == Requests \cup {Prober}

PolicyType ==
  [degradedThreshold : Nat \ {0}, degradedWindow : Nat,
   probeMin : Nat, probeMax : Nat]

\* Config validation (config/mod.rs) rejects probe_window_max < probe_window;
\* the streak caps lie beyond every threshold, so saturation is invisible.
ASSUME PolicyAssumption ==
  /\ Policies \subseteq PolicyType
  /\ AbuseWindow \in Nat /\ TimeoutWindow \in Nat
  /\ TimeoutThreshold \in Nat /\ StreakCap \in Nat /\ BackoffCap \in Nat \ {0}
  /\ TimeoutThreshold <= StreakCap
  /\ \A p \in Policies : /\ p.probeMin <= p.probeMax
                         /\ p.degradedThreshold <= StreakCap

\* MinRest is below each window; a probe's window is jittered down to 3/4.
ASSUME RestAssumption ==
  /\ MinRest \in Nat
  /\ MinRest <= AbuseWindow /\ MinRest <= TimeoutWindow
  /\ \A p \in Policies : /\ MinRest <= p.degradedWindow
                         /\ 4 * MinRest <= 3 * p.probeMin

\* Saturated, the backoff has reached its cap: more failures change nothing.
ASSUME SaturationAssumption ==
  \A p \in Policies :
    p.probeMin = 0 \/ p.probeMin * 2^(BackoffCap - 1) >= p.probeMax

\* A fact of arithmetic the provers have no induction for.
ASSUME DoublingAssumption == \A k \in 0..BackoffCap : 2^k \in Nat \ {0}

ASSUME ProberAssumption == Prober \notin Requests

VARIABLES
  breaker, wait, probeInFlight,              \* EngineHealth: the gate
  timeoutStreak, degradedStreak, probeFailures,  \* EngineHealth: the evidence
  policy,            \* Inner.policy
  pc,                \* where each call is; probing: admitted as Gate::Probe
  healthy,           \* environment: the upstream answers every call
  quiet,             \* history: ticks since the last trip, up to MinRest
  disturbed          \* history: see Meddle

gate == <<breaker, wait, probeInFlight>>
evidence == <<timeoutStreak, degradedStreak, probeFailures>>
vars == <<gate, evidence, policy, pc, healthy, quiet, disturbed>>

Kinds == {"abuse", "timeout", "degraded"}

TypeOK ==
  /\ breaker \in {"Closed", "Open", "HalfOpen"}
  /\ wait \in Nat
  /\ probeInFlight \in BOOLEAN
  /\ timeoutStreak \in 0..StreakCap
  /\ degradedStreak \in 0..StreakCap
  /\ probeFailures \in 0..BackoffCap
  /\ policy \in Policies
  /\ pc \in [Calls -> {"idle", "calling", "probing", "recorded", "panicked"}]
  /\ healthy \in BOOLEAN
  /\ quiet \in 0..MinRest
  /\ disturbed \in BOOLEAN

\* The probes that are out: admitted as Gate::Probe, outcome not recorded.
LiveProbes == {c \in Calls : pc[c] = "probing"}
Running(c) == pc[c] \in {"calling", "probing"}

\* History: while a probe is out, some other party (a call that is not that
\* probe, or the reset route) lowers probe_in_flight.  Forgotten once no
\* probe is out.  Settle is c's own record, Meddle everyone else's step.
Settle(c) == disturbed' = (LiveProbes \ {c} # {})
Meddle == disturbed' = (disturbed \/ LiveProbes # {})

-----------------------------------------------------------------------------
(* The windows.                                                            *)

Min2(a, b) == IF a <= b THEN a ELSE b
Bump(n, cap) == IF n < cap THEN n + 1 ELSE cap

OpenWindow(kind) ==
  CASE kind = "abuse"    -> AbuseWindow
    [] kind = "degraded" -> policy.degradedWindow
    [] OTHER             -> TimeoutWindow

Backoff(attempt) == Min2(policy.probeMin * 2^(attempt - 1), policy.probeMax)

\* probe_jitter draws a factor in [0.75, 1.25).
Jittered(base) == {w \in 0..(2 * base) : 3 * base <= 4 * w /\ 4 * w <= 5 * base}

ProbeRetryWindows(attempt, kind) ==
  {Min2(w, OpenWindow(kind)) : w \in Jittered(Backoff(attempt))}

-----------------------------------------------------------------------------
(* HealthTracker.                                                          *)

\* Gate::Call.
AdmitCall == breaker = "Closed" /\ UNCHANGED gate

\* Mutated forms of AdmitProbe: the elapsed check dropped; the probe_in_flight
\* check dropped; a probe admitted by the flip out of Open only.
AdmitProbeEarly ==
  /\ breaker = "Open" \/ (breaker = "HalfOpen" /\ ~probeInFlight)
  /\ breaker' = "HalfOpen" /\ probeInFlight' = TRUE /\ UNCHANGED wait
AdmitProbeTwice ==
  /\ (breaker = "Open" /\ wait = 0) \/ breaker = "HalfOpen"
  /\ breaker' = "HalfOpen" /\ probeInFlight' = TRUE /\ UNCHANGED wait
AdmitProbeOnFlip ==
  /\ breaker = "Open" /\ wait = 0
  /\ breaker' = "HalfOpen" /\ probeInFlight' = TRUE /\ UNCHANGED wait

\* Gate::Probe: the lazy Open -> HalfOpen flip, or a free HalfOpen.
AdmitProbe ==
  /\ \/ breaker = "Open" /\ wait = 0
     \/ breaker = "HalfOpen" /\ ~probeInFlight
  /\ breaker' = "HalfOpen"
  /\ probeInFlight' = TRUE
  /\ UNCHANGED wait

RecordOk ==
  /\ breaker' = "Closed"
  /\ wait' = 0
  /\ probeInFlight' = FALSE
  /\ timeoutStreak' = 0 /\ degradedStreak' = 0 /\ probeFailures' = 0
  /\ quiet' = MinRest

Trip(windows) ==
  /\ breaker' = "Open"
  /\ wait' \in windows
  /\ quiet' = 0

\* The thresholds a failure that is not a probe's has to reach.
Trips(kind) ==
  \/ kind = "abuse"
  \/ kind = "timeout" /\ timeoutStreak' >= TimeoutThreshold
  \/ kind = "degraded" /\ degradedStreak' >= policy.degradedThreshold

RecordErr(kind) ==
  /\ timeoutStreak' = IF kind = "timeout" THEN Bump(timeoutStreak, StreakCap) ELSE 0
  /\ degradedStreak' = IF kind = "degraded" THEN Bump(degradedStreak, StreakCap) ELSE 0
  /\ probeInFlight' = FALSE
  /\ \/ /\ probeInFlight
        /\ probeFailures' = Bump(probeFailures, BackoffCap)
        /\ Trip(ProbeRetryWindows(probeFailures', kind))
     \/ /\ ~probeInFlight /\ Trips(kind)
        /\ Trip({OpenWindow(kind)})
        /\ UNCHANGED probeFailures
     \/ /\ ~probeInFlight /\ ~Trips(kind)
        /\ UNCHANGED <<breaker, wait, quiet, probeFailures>>

\* Mutated ProbeFinished: no guard, the flag is lowered by records alone.
ProbeFinishedNever == UNCHANGED gate

\* probe_finished, from ProbeGuard::drop: the flag goes down whoever holds it.
ProbeFinished == probeInFlight' = FALSE /\ UNCHANGED <<breaker, wait>>

-----------------------------------------------------------------------------
(* The actors.                                                             *)

\* breaker_gate then spawn_into, with no await between: the admitted call is
\* running (and holds its ProbeGuard) as soon as the gate has let it through.
Start(c) ==
  /\ pc[c] = "idle"
  /\ \/ c # Prober /\ AdmitCall /\ pc' = [pc EXCEPT ![c] = "calling"]
     \/ AdmitProbe /\ pc' = [pc EXCEPT ![c] = "probing"]
  /\ UNCHANGED <<evidence, policy, healthy, quiet, disturbed>>

\* A search reaches the gate with this engine runnable.
RequestStart == \E c \in Requests : Start(c)

\* probe_due: one pass at a time, and only Gate::Probe is followed by a call.
ProberClaim == Start(Prober)

\* The engine answers (results, or NoResults) within the deadline.
Answer(c) ==
  /\ Running(c)
  /\ RecordOk
  /\ pc' = [pc EXCEPT ![c] = "recorded"]
  /\ Settle(c)
  /\ UNCHANGED <<policy, healthy>>

\* The engine fails, or the deadline elapses (kind "timeout").
Fail(c) ==
  /\ Running(c) /\ ~healthy
  /\ \E kind \in Kinds : RecordErr(kind)
  /\ pc' = [pc EXCEPT ![c] = "recorded"]
  /\ Settle(c)
  /\ UNCHANGED <<policy, healthy>>

\* The task ends after its record: the guard drops.
Release(c) ==
  /\ pc[c] = "recorded"
  /\ ProbeFinished
  /\ pc' = [pc EXCEPT ![c] = "idle"]
  /\ Meddle
  /\ UNCHANGED <<evidence, policy, healthy, quiet>>

\* The engine panics: the guard drops and nothing was recorded.  A search's
\* fan-out reconciles the unanswered slot later, unless it is the flight that
\* died, and its JoinSet aborted the call; the prober only logs.
Panic(c) ==
  /\ Running(c) /\ ~healthy
  /\ ProbeFinished
  /\ \E to \in {"idle", "panicked"} :
       /\ c = Prober => to = "idle"
       /\ pc' = [pc EXCEPT ![c] = to]
  /\ Settle(c)
  /\ UNCHANGED <<evidence, policy, healthy, quiet>>

ReconcileUnanswered(c) ==
  /\ pc[c] = "panicked"
  /\ RecordErr("degraded")
  /\ pc' = [pc EXCEPT ![c] = "idle"]
  /\ Meddle
  /\ UNCHANGED <<policy, healthy>>

\* POST /api/engines/{id}/reset: a fresh HalfOpen health, no probe in flight.
Reset ==
  /\ breaker' = "HalfOpen" /\ wait' = 0 /\ probeInFlight' = FALSE
  /\ timeoutStreak' = 0 /\ degradedStreak' = 0 /\ probeFailures' = 0
  /\ quiet' = MinRest
  /\ Meddle
  /\ UNCHANGED <<policy, pc, healthy>>

\* set_policy: a saved [health] table, hot-applied.
SetPolicy ==
  /\ policy' \in Policies \ {policy}
  /\ UNCHANGED <<gate, evidence, pc, healthy, quiet, disturbed>>

\* The upstream recovers, or falls ill again.
UpstreamTurns ==
  /\ healthy' = ~healthy
  /\ UNCHANGED <<gate, evidence, policy, pc, quiet, disturbed>>

Tick ==
  /\ wait > 0
  /\ wait' = wait - 1
  /\ quiet' = Bump(quiet, MinRest)
  /\ UNCHANGED <<breaker, probeInFlight, evidence, policy, pc, healthy,
                 disturbed>>

-----------------------------------------------------------------------------
\* load: a persisted row brings back the breaker and its window; streaks and
\* the probe flag are not persisted.
Remaining == (0..AbuseWindow) \cup (0..TimeoutWindow)
               \cup UNION {0..p.degradedWindow : p \in Policies}

Init ==
  /\ breaker \in {"Closed", "Open", "HalfOpen"}
  /\ wait \in IF breaker = "Open" THEN Remaining ELSE {0}
  /\ probeInFlight = FALSE
  /\ timeoutStreak = 0 /\ degradedStreak = 0 /\ probeFailures = 0
  /\ policy \in Policies
  /\ pc = [c \in Calls |-> "idle"]
  /\ healthy \in BOOLEAN
  /\ quiet = MinRest
  /\ disturbed = FALSE

\* A call always ends: the engine runs under the deadline (timeout(..)), and
\* what follows it has no await.
Proceed(c) ==
  Answer(c) \/ Fail(c) \/ Release(c) \/ Panic(c) \/ ReconcileUnanswered(c)

Next ==
  \/ RequestStart
  \/ ProberClaim
  \/ \E c \in Calls : Proceed(c)
  \/ Reset
  \/ SetPolicy
  \/ UpstreamTurns
  \/ Tick

\* Tasks are scheduled, the clock runs and the prober's interval ticks.
\* Nothing is assumed of searches, of the operator or of the upstream.
Fairness ==
  /\ WF_vars(Tick)
  /\ WF_vars(ProberClaim)
  /\ \A c \in Calls : WF_vars(Proceed(c))

Spec == Init /\ [][Next]_vars
FairSpec == Spec /\ Fairness

-----------------------------------------------------------------------------
(* What the breaker promises.                                              *)

\* A raised probe_in_flight always has its call: some call admitted as a
\* probe is still out and will lower it when it ends.  Otherwise the engine
\* is unprobeable until a restart, which is what ProbeGuard exists to avoid.
ClaimHasOwner ==
  probeInFlight => breaker = "HalfOpen" /\ LiveProbes # {}

\* Once the breaker trips, no search and no prober reaches the engine for at
\* least MinRest ticks, whatever stragglers record meanwhile and however the
\* policy is changed, unless an answer or the reset route lifts the rest.
LetThrough == \E c \in Calls : pc[c] = "idle" /\ pc'[c] # "idle"
RestAfterTrip == [][LetThrough => quiet = MinRest]_vars

\* Two probes are never out at once, except after a party that is not the
\* probe itself lowered probe_in_flight under it (a straggler's record or
\* guard drop, a late reconcile, the reset route).
ExclusiveUnlessDisturbed ==
  ~disturbed => \A c, d \in LiveProbes : c = d

\* Issue #227, self-healing: an upstream that answers for good brings its
\* engine back into service without any search having to arrive.
Recovery == <>[]healthy => []<>(breaker = "Closed")

=============================================================================

---------------------------- MODULE SingleFlight ----------------------------
(***************************************************************************)
(* One cache key: the requests that miss it, the flights they elect, the   *)
(* stale serves and their background refreshes, and clients that go away   *)
(* or flights that die (crates/cauce-core/src/admission.rs and             *)
(* pipeline/{mod,cache}.rs).  Each await is a step boundary.               *)
(*                                                                         *)
(* A search leads at most two flights and owes at most one refresh, so the *)
(* flight ids of next_flight are <<r, n>> here, and are used again for r's *)
(* next search once all three tasks have ended and nobody waits on them.   *)
(*                                                                         *)
(* The engine permits are shared with every other key: whether they come   *)
(* within the wait budget is the environment's choice, and so is the       *)
(* outcome of the fan-out.  A lookup the store fails reads as a miss.      *)
(***************************************************************************)
EXTENDS Naturals, FiniteSets

CONSTANTS
  Requests,     \* searches in progress for the key
  Streams,      \* those that stream: a streaming leader is its own flight
  NoTask,
  MaxDeaths     \* bound: flight or refresh tasks that panic

Flights == Requests \X {1, 2}
Refresh(r) == <<r, 3>>
Tasks == Flights \cup {Refresh(r) : r \in Requests}

ASSUME SingleFlightAssumption ==
  Streams \subseteq Requests /\ NoTask \notin Tasks /\ MaxDeaths \in Nat

VARIABLES
  row,        \* the key's row: fresh, within its grace, older, or none
  slot,       \* Inner.flights[key].id
  task,       \* where each flight and refresh task is
  value,      \* its outcome, visible once sent
  pc,         \* where each request is
  on,         \* the flight whose channel it awaits
  tries,      \* re_elected: flights it has seen vanish
  deaths

request == <<pc, on, tries>>
vars == <<row, slot, task, value, request, deaths>>

Values == {"network", "hit", "stale", "error"}

\* Where a task that leads a flight is until its outcome is decided.
Leading == {"lexical", "queued", "overflow", "again", "fetching"}

TypeOK ==
  /\ row \in {"none", "fresh", "grace", "old"}
  /\ slot \in Tasks \cup {NoTask}
  /\ task \in [Tasks -> Leading \cup
                 {"none", "complete", "sent", "spawning", "waiting",
                  "entering", "dropped", "dying", "dead", "done"}]
  /\ value \in [Tasks -> Values \cup {"none"}]
  /\ pc \in [Requests -> {"idle", "missed", "serving", "seeking", "joined",
                          "served", "failed", "gone"}]
  /\ on \in [Requests -> Tasks \cup {NoTask}]
  /\ tries \in [Requests -> 0..1]
  /\ deaths \in 0..MaxDeaths

\* What a receiver of t's watch channel sees.
Published(t) == task[t] \in {"sent", "spawning", "done"}
Vanished(t) == task[t] = "dead"

Go(r, to) == pc' = [pc EXCEPT ![r] = to]
Quits(r, to) == Go(r, to) /\ on' = [on EXCEPT ![r] = NoTask]
TaskGo(t, to) == task' = [task EXCEPT ![t] = to]
Conclude(t, v) == TaskGo(t, "complete") /\ value' = [value EXCEPT ![t] = v]

-----------------------------------------------------------------------------
(* A request: run and run_stream.                                          *)

\* get_exact: a fresh row is the answer.
Lookup(r) ==
  /\ pc[r] = "idle"
  /\ Go(r, IF row = "fresh" THEN "served" ELSE "missed")
  /\ UNCHANGED <<row, slot, task, value, on, tries, deaths>>

\* stale_lookup reads the row again: servable only past expiry, within grace.
StaleLookup(r) ==
  /\ pc[r] = "missed"
  /\ Go(r, IF row = "grace" THEN "serving" ELSE "seeking")
  /\ UNCHANGED <<row, slot, task, value, on, tries, deaths>>

\* The search_log row of a stale serve is written; then spawn_refresh.
ServeStale(r) ==
  /\ pc[r] = "serving"
  /\ Go(r, "served")
  /\ TaskGo(Refresh(r), "waiting")
  /\ UNCHANGED <<row, slot, value, on, tries, deaths>>

\* Admission::enter: lead when the slot is vacant, else join its flight.
Lead(r) ==
  /\ pc[r] = "seeking" /\ slot = NoTask
  /\ slot' = <<r, tries[r] + 1>>
  /\ TaskGo(slot', "lexical")
  /\ Go(r, "joined") /\ on' = [on EXCEPT ![r] = slot']
  /\ UNCHANGED <<row, value, tries, deaths>>

Follow(r) ==
  /\ pc[r] = "seeking" /\ slot # NoTask
  /\ Go(r, "joined") /\ on' = [on EXCEPT ![r] = slot]
  /\ UNCHANGED <<row, slot, task, value, tries, deaths>>

Answer(r) ==
  /\ pc[r] = "joined" /\ Published(on[r])
  /\ Quits(r, "served")
  /\ UNCHANGED <<row, slot, task, value, tries, deaths>>

\* The channel closed with nothing sent: re-elect once, then give up.  A
\* streaming leader ran the flight itself and went down with it.
ReElect(r) ==
  /\ pc[r] = "joined" /\ Vanished(on[r])
  /\ \/ r \in Streams /\ on[r][1] = r
        /\ Quits(r, "gone") /\ UNCHANGED tries
     \/ ~(r \in Streams /\ on[r][1] = r) /\ tries[r] = 1
        /\ Quits(r, "failed") /\ UNCHANGED tries
     \/ ~(r \in Streams /\ on[r][1] = r) /\ tries[r] = 0
        /\ Quits(r, "seeking") /\ tries' = [tries EXCEPT ![r] = 1]
  /\ UNCHANGED <<row, slot, task, value, deaths>>

\* The client disconnects and the request's future is dropped at its await.
\* A streaming request runs in a task of its own and goes on.
Disconnect(r) ==
  /\ r \notin Streams
  /\ pc[r] \in {"missed", "serving", "seeking", "joined"}
  /\ Quits(r, "gone")
  /\ UNCHANGED <<row, slot, task, value, tries, deaths>>

-----------------------------------------------------------------------------
(* A flight (flight, lead_stream) and a refresh (spawn_refresh).           *)

\* Tier 2: a hit is published without a permit or an engine call.
Lexical(t) ==
  /\ task[t] = "lexical"
  /\ \/ Conclude(t, "hit")
     \/ Conclude(t, "error")                \* NoEngines
     \/ TaskGo(t, "queued") /\ UNCHANGED value
  /\ UNCHANGED <<row, slot, request, deaths>>

Permits(t) ==
  /\ \/ task[t] = "queued" /\ TaskGo(t, "fetching")
     \/ task[t] = "waiting" /\ TaskGo(t, "entering")
  /\ UNCHANGED <<row, slot, value, request, deaths>>

\* The wait budget is used up: a flight overflows, a refresh is dropped.
WaitTimeout(t) ==
  /\ \/ task[t] = "queued" /\ TaskGo(t, "overflow")
     \/ task[t] = "waiting" /\ TaskGo(t, "dropped")
  /\ UNCHANGED <<row, slot, value, request, deaths>>

\* overflow: the stored row whatever its age, else RateLimited.  The flight
\* that got RateLimited from its first read makes a second one.
Overflow(t) ==
  /\ \/ task[t] \in {"overflow", "again"} /\ row = "fresh" /\ Conclude(t, "hit")
     \/ task[t] \in {"overflow", "again"} /\ row \in {"grace", "old"}
        /\ Conclude(t, "stale")
     \/ task[t] = "overflow" /\ row = "none" /\ TaskGo(t, "again") /\ UNCHANGED value
     \/ task[t] = "again" /\ row = "none" /\ Conclude(t, "error")
  /\ UNCHANGED <<row, slot, request, deaths>>

\* The fan-out answered; the row is stored unless it is empty or the write
\* fails.  Or nobody answered.
Fetch(t) ==
  /\ task[t] = "fetching"
  /\ \/ Conclude(t, "network") /\ row' \in {row, "fresh"}
     \/ Conclude(t, "error") /\ UNCHANGED row
  /\ UNCHANGED <<slot, request, deaths>>

\* promote_deferred: with every primary at rest the deferred wave needs its
\* permits now, and they never came: RateLimited from inside the fetch.
FetchRateLimited(t) ==
  /\ task[t] = "fetching" /\ t \in Flights
  /\ TaskGo(t, "again")
  /\ UNCHANGED <<row, slot, value, request, deaths>>

\* Mutated Send: the slot is freed first and the outcome sent second.
SendSecond(t) ==
  /\ task[t] = "complete"
  /\ IF slot = t THEN slot' = NoTask /\ UNCHANGED task
                 ELSE TaskGo(t, "sent") /\ UNCHANGED slot
  /\ UNCHANGED <<row, value, request, deaths>>

\* Lead::complete, first half: the outcome reaches every receiver.
Send(t) ==
  /\ task[t] = "complete"
  /\ TaskGo(t, "sent")
  /\ UNCHANGED <<row, slot, value, request, deaths>>

OwesRefresh(t) == value[t] = "stale" /\ t \in Flights

\* Mutated RemoveEntry: the refresh is spawned before the slot is freed.
RemoveEntryLate(t) ==
  /\ task[t] = "sent"
  /\ IF OwesRefresh(t) /\ task[Refresh(t[1])] = "none"
       THEN TaskGo(Refresh(t[1]), "waiting") /\ UNCHANGED slot
       ELSE TaskGo(t, "done") /\ slot' = NoTask
  /\ UNCHANGED <<row, value, request, deaths>>

\* Second half: the slot is freed if it is still this flight's.
RemoveEntry(t) ==
  /\ task[t] = "sent"
  /\ slot' = IF slot = t THEN NoTask ELSE slot
  /\ TaskGo(t, IF OwesRefresh(t) THEN "spawning" ELSE "done")
  /\ UNCHANGED <<row, value, request, deaths>>

SpawnRefresh(t) ==
  /\ task[t] = "spawning"
  /\ task' = [task EXCEPT ![t] = "done", ![Refresh(t[1])] = "waiting"]
  /\ UNCHANGED <<row, slot, value, request, deaths>>

\* Mutated RefreshLead: the election does not look at the slot.
RefreshLeadAnyway(t) ==
  /\ task[t] = "entering"
  /\ slot' = t /\ TaskGo(t, "fetching")
  /\ UNCHANGED <<row, value, request, deaths>>

\* A refresh that has its permits elects itself, unless a flight is running.
RefreshLead(t) ==
  /\ task[t] = "entering" /\ slot = NoTask
  /\ slot' = t /\ TaskGo(t, "fetching")
  /\ UNCHANGED <<row, value, request, deaths>>

RefreshSkip(t) ==
  /\ task[t] = "entering" /\ slot # NoTask
  /\ TaskGo(t, "dropped")
  /\ UNCHANGED <<row, slot, value, request, deaths>>

\* Mutated Die: Lead has no Drop, the slot keeps the dead flight's sender.
DieKeepsSlot(t) ==
  /\ task[t] \in Leading /\ deaths < MaxDeaths /\ deaths' = deaths + 1
  /\ TaskGo(t, "dying")
  /\ UNCHANGED <<row, slot, value, request>>

\* The leading task panics: Lead::drop frees the slot ...
Die(t) ==
  /\ task[t] \in Leading /\ deaths < MaxDeaths /\ deaths' = deaths + 1
  /\ TaskGo(t, "dying")
  /\ slot' = IF slot = t THEN NoTask ELSE slot
  /\ UNCHANGED <<row, value, request>>

\* ... and the channel closes when the last sender, the slot's or the task's,
\* is gone.
CloseChannel(t) ==
  /\ task[t] = "dying" /\ slot # t
  /\ TaskGo(t, "dead")
  /\ UNCHANGED <<row, slot, value, request, deaths>>

-----------------------------------------------------------------------------
(* The environment.                                                        *)

\* Time passes over the row, or the store evicts it.
Age ==
  /\ row # "none"
  /\ row' \in {"none"} \cup (IF row = "fresh" THEN {"grace"} ELSE {"old"})
  /\ UNCHANGED <<slot, task, value, request, deaths>>

\* The bookkeeping of a finished search is dropped: its place takes the next.
Finished(r) ==
  /\ pc[r] \in {"served", "failed", "gone"}
  /\ \A n \in 1..3 : task[<<r, n>>] \in {"none", "dropped", "dead", "done"}
  /\ \A q \in Requests, n \in 1..3 : on[q] # <<r, n>>

Recycle(r) ==
  /\ Finished(r)
  /\ Go(r, "idle") /\ tries' = [tries EXCEPT ![r] = 0]
  /\ task' = [t \in Tasks |-> IF t[1] = r THEN "none" ELSE task[t]]
  /\ value' = [t \in Tasks |-> IF t[1] = r THEN "none" ELSE value[t]]
  /\ UNCHANGED <<row, slot, on, deaths>>

-----------------------------------------------------------------------------
Init ==
  /\ row \in {"none", "fresh", "grace", "old"}
  /\ slot = NoTask
  /\ task = [t \in Tasks |-> "none"] /\ value = [t \in Tasks |-> "none"]
  /\ pc = [r \in Requests |-> "idle"]
  /\ on = [r \in Requests |-> NoTask]
  /\ tries = [r \in Requests |-> 0]
  /\ deaths = 0

RequestStep(r) ==
  StaleLookup(r) \/ ServeStale(r) \/ Lead(r) \/ Follow(r) \/ Answer(r) \/ ReElect(r)

TaskStep(t) ==
  \/ Lexical(t) \/ Permits(t) \/ WaitTimeout(t) \/ Overflow(t)
  \/ Fetch(t) \/ FetchRateLimited(t) \/ Send(t) \/ RemoveEntry(t)
  \/ SpawnRefresh(t) \/ RefreshLead(t) \/ RefreshSkip(t) \/ CloseChannel(t)

Next ==
  \/ \E r \in Requests : Lookup(r) \/ RequestStep(r) \/ Disconnect(r) \/ Recycle(r)
  \/ \E t \in Tasks : TaskStep(t) \/ Die(t)
  \/ Age

Spec == Init /\ [][Next]_vars

\* Tasks are scheduled; permits are awaited within a budget and engines run
\* under a deadline.  No client has to stay, or to come.
FairSpec ==
  /\ Spec
  /\ \A r \in Requests : WF_vars(RequestStep(r))
  /\ \A t \in Tasks : WF_vars(TaskStep(t))

-----------------------------------------------------------------------------
(* What admission promises.                                                *)

\* One upstream fetch per key at a time: a task that leads, refreshes
\* included, is the one the slot names.
OneFetch == \A t \in Tasks : task[t] \in Leading => slot = t

\* Nobody hangs: a request that missed is served, told that the work failed,
\* or has gone, whatever flights die on it.
EveryoneAnswered ==
  \A r \in Requests : pc[r] = "missed" ~> pc[r] \in {"served", "failed", "gone"}

\* mod.rs:1291: the refresh that a stale serve owes is never given up because
\* of the very flight that served it.
OwnFlightNeverBlocksRefresh ==
  [][\A r \in Requests : RefreshSkip(Refresh(r)) => slot[1] # r]_vars

\* What the channels show of a task's outcome.
Outcome(t) ==
  IF task[t] \in Leading \cup {"complete", "dying"} THEN "pending"
  ELSE IF Published(t) THEN "published"
  ELSE IF Vanished(t) THEN "vanished" ELSE "none"

Place(r) == IF pc[r] \in {"joined", "served", "failed"} THEN pc[r] ELSE "outside"

Retried(r) == pc[r] \in {"seeking", "joined"} /\ tries[r] = 1

\* The per-key contract, seen through what the channels show.
Contract == INSTANCE Coalesce WITH
  Clients <- Requests, Flights <- Tasks, NoFlight <- NoTask,
  open <- slot,
  outcome <- [t \in Tasks |-> Outcome(t)],
  at <- [r \in Requests |-> Place(r)],
  retried <- [r \in Requests |-> Retried(r)]

RefinesCoalesce == Contract!Spec
=============================================================================

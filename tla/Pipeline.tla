------------------------------ MODULE Pipeline ------------------------------
(***************************************************************************)
(* What a search answers, stores, streams and logs: the pin check, the     *)
(* cache tiers, the flight and its fallbacks, the background refresh       *)
(* (crates/cauce-core/src/pipeline/{mod,cache,persistence,merge}.rs).      *)
(*                                                                         *)
(* SingleFlight has the deaths and the disconnects at one key, FanOut the  *)
(* waves of one fetch and Permits the waits; here the keys differ, rows    *)
(* have contents and expire.  A query is its set of lexical tokens.        *)
(***************************************************************************)
EXTENDS Merge

CONSTANTS
  Requests,      \* searches in progress
  Streams,       \* those that stream
  Asks,          \* [query, page, pin]: pin is NoPin or a set of engine ids
  NoPin,
  Pages,         \* what each engine may answer with
  TTL, DegradedTTL, Grace,  \* cache.ttl_s, degraded_ttl_s, stale_grace_s
  ThresholdNum, ThresholdDen,   \* lexical.threshold
  RecordHistory, \* false on a public instance
  EndOfTime,     \* bound on the clock
  MaxFetches,    \* bound on fan-outs
  Failed, Uncalled, None

ASSUME PipelineAssumption ==
  /\ Streams \subseteq Requests
  /\ {TTL, DegradedTTL, Grace, EndOfTime, MaxFetches} \subseteq Nat
  /\ RecordHistory \in BOOLEAN
  /\ Asks # {}
  /\ \A idx \in Engines : /\ Pages[idx] \subseteq Seq(DOMAIN Parts)
                          /\ Pages[idx] \cap {Failed, Uncalled} = {}

\* A request's own work, and the refresh its stale serve spawned.
Tasks == {<<r, job>> : r \in Requests, job \in {"search", "refresh"}}
Search(r) == <<r, "search">>
Refresh(r) == <<r, "refresh">>

VARIABLES
  now,       \* the clock rows expire by
  rows,      \* cache_entries: ask -> row, by CacheKey
  slot,      \* Inner.flights: ask -> the task that leads, or None
  fetches,   \* fan-outs so far
  at,        \* where each task is
  ask,       \* each request's parameters
  pages,     \* a task's outcomes so far: position -> page, or how it failed
  acc,       \* its merge
  outcome,   \* FlightResult: what a flight or a cache tier came up with
  events,    \* what a stream has sent
  logged     \* search_log rows of each request

flight == <<pages, acc, outcome>>
vars == <<now, rows, slot, fetches, at, ask, flight, events, logged>>

\* An engine that failed, timed out or panicked, and one that was not called:
\* breaker open, or a hedge that never fired.
Silent == {Failed, Uncalled}

Runnable(a) == IF a.pin = NoPin THEN Engines ELSE Engines \cap a.pin
Nothing == [kind |-> "nothing"]
Error(e) == [kind |-> "error", error |-> e]
Served(row, tier, stale) ==
  [kind |-> "cache", tier |-> tier, stale |-> stale, row |-> row, results |-> row.results]

Phases ==
  {"idle", "lookup", "missed", "seeking", "following", "lexical", "queued", "overflow",
   "fetching", "complete", "hit", "respond", "waiting", "entering"}

TypeOK ==
  /\ now \in 0..EndOfTime /\ fetches \in 0..MaxFetches
  /\ \A a \in Asks : rows[a] # None =>
       rows[a].expires \in 0..(EndOfTime + TTL) /\ rows[a].asked \in Asks
  /\ slot \in [Asks -> Tasks \cup {None}]
  /\ at \in [Tasks -> Phases]
  /\ ask \in [Requests -> Asks]
  /\ logged \in [Requests -> Seq({"cache", "network", "error"})]

Of(t) == ask[t[1]]
Streaming(t) == t[2] = "search" /\ t[1] \in Streams
NoReports == [idx \in {} |-> Uncalled]
With(reports, idx, page) ==
  [j \in DOMAIN reports \cup {idx} |-> IF j = idx THEN page ELSE reports[j]]

Go(t, to) == at' = [at EXCEPT ![t] = to]
Conclude(t, o) == outcome' = [outcome EXCEPT ![t] = o]

Send(r, sent) == events' = [events EXCEPT ![r] = @ \o sent]
Batch(idx, urls) == [kind |-> "results", engine |-> idx, urls |-> urls]
Meta(results) == [kind |-> "meta", order |-> [n \in DOMAIN results |-> Canonical[results[n].url]]]

\* emit_response: a batch per engine whose report is Ok and that shows a
\* result, in fan-out order, the rest as `merged', and the terminal meta.
Emit(o) ==
  LET from(S) == {n \in DOMAIN o.results : o.results[n].by \in S}
      urls(S) == [m \in 1..Cardinality(from(S)) |-> o.results[Nth(from(S), m)].url]
      shown   == {idx \in o.row.ok : from({idx}) # {}}
      rest    == Engines \ o.row.ok
  IN [n \in 1..Cardinality(shown) |-> Batch(Nth(shown, n), urls({Nth(shown, n)}))]
       \o (IF from(rest) = {} THEN <<>> ELSE <<Batch(0, urls(rest))>>)
       \o <<Meta(o.results)>>

\* write_log: nothing on an instance that keeps no history.
Log(r, source) ==
  logged' = IF RecordHistory THEN [logged EXCEPT ![r] = Append(@, source)] ELSE logged

-----------------------------------------------------------------------------
(* A request: run and run_stream.                                          *)

\* validate_engine_pin, before any lookup: an unknown id is refused with a
\* row of its own, and a stream is never opened.
Begin(r) ==
  LET t == Search(r) IN
  /\ at[t] = "idle" /\ at[Refresh(r)] = "idle"
  /\ \E a \in Asks :
       LET refused == a.pin # NoPin /\ ~(a.pin \subseteq Engines) IN
       /\ ask' = [ask EXCEPT ![r] = a]
       /\ Go(t, IF refused THEN "idle" ELSE "lookup")
       /\ Conclude(t, IF refused THEN Error("unknown engines") ELSE Nothing)
       /\ logged' = [logged EXCEPT ![r] =
                       IF refused /\ RecordHistory THEN <<"error">> ELSE <<>>]
  /\ events' = [events EXCEPT ![r] = <<>>]
  /\ UNCHANGED <<now, rows, slot, fetches, pages, acc>>

Fresh(row) == row # None /\ row.expires > now
WithinGrace(row) == row # None /\ row.expires <= now /\ now <= row.expires + Grace

\* cache_lookup: get_exact gives fresh rows only; a store failure is a miss.
Lookup(r) ==
  LET t == Search(r) row == rows[ask[r]] IN
  /\ at[t] = "lookup"
  /\ \/ Fresh(row) /\ Go(t, "hit") /\ Conclude(t, Served(row, 1, FALSE))
     \/ Go(t, "missed") /\ UNCHANGED outcome
  /\ UNCHANGED <<now, rows, slot, fetches, ask, pages, acc, events, logged>>

\* stale_lookup reads the row again; a failure is a miss here too.
StaleLookup(r) ==
  LET t == Search(r) row == rows[ask[r]] IN
  /\ at[t] = "missed"
  /\ \/ WithinGrace(row) /\ Go(t, "hit") /\ Conclude(t, Served(row, 1, TRUE))
     \/ Go(t, "seeking") /\ UNCHANGED outcome
  /\ UNCHANGED <<now, rows, slot, fetches, ask, pages, acc, events, logged>>

\* A tier-1 serve: emitted, logged, and refreshed when it was stale.
Hit(r) ==
  LET t == Search(r) o == outcome[t] IN
  /\ at[t] = "hit"
  /\ Send(r, IF Streaming(t) THEN Emit(o) ELSE <<>>)
  /\ Log(r, "cache")
  /\ at' = [at EXCEPT ![t] = "idle", ![Refresh(r)] = IF o.stale THEN "waiting" ELSE @]
  /\ UNCHANGED <<now, rows, slot, fetches, ask, flight>>

\* Admission::enter.
Enter(r) ==
  LET t == Search(r) IN
  /\ at[t] = "seeking"
  /\ IF slot[ask[r]] = None
     THEN Go(t, "lexical") /\ slot' = [slot EXCEPT ![ask[r]] = t]
     ELSE Go(t, "following") /\ UNCHANGED slot
  /\ UNCHANGED <<now, rows, fetches, ask, flight, events, logged>>

-----------------------------------------------------------------------------
(* The flight: flight and lead_stream.                                     *)

\* The similarity of two token sets is at least the threshold; two empty
\* sets are not alike.
Similar(p, q) ==
  /\ p \cup q # {}
  /\ ThresholdDen * Cardinality(p \cap q) >= ThresholdNum * Cardinality(p \cup q)

\* The key this request would have for the candidate's query is the
\* candidate's own: page, pin and the rest agree.
SameButQuery(a, b) == [a EXCEPT !.query = b.query] = b

Passes(a, b) ==
  /\ a.query # {} /\ Fresh(rows[b])
  /\ SameButQuery(a, b)
  /\ Similar(a.query, b.query)

\* Mutated LexicalHit: the row is stored under the request's own key too.
LexicalHitStored(t) ==
  /\ at[t] = "lexical"
  /\ \E b \in Asks :
       /\ Passes(Of(t), b)
       /\ Conclude(t, Served(rows[b], 2, FALSE))
       /\ rows' = [rows EXCEPT ![Of(t)] = rows[b]]
       /\ Send(t[1], IF Streaming(t) THEN Emit(Served(rows[b], 2, FALSE)) ELSE <<>>)
  /\ Go(t, "complete")
  /\ UNCHANGED <<now, slot, fetches, ask, pages, acc, logged>>

\* lexical_lookup: the best-ranked candidates that pass the gate; which rows
\* the text index proposes depends on titles and snippets too.
LexicalHit(t) ==
  /\ at[t] = "lexical"
  /\ \E b \in Asks :
       /\ Passes(Of(t), b)
       /\ Conclude(t, Served(rows[b], 2, FALSE))
       /\ Send(t[1], IF Streaming(t) THEN Emit(Served(rows[b], 2, FALSE)) ELSE <<>>)
  /\ Go(t, "complete")
  /\ UNCHANGED <<now, rows, slot, fetches, ask, pages, acc, logged>>

LexicalMiss(t) ==
  /\ at[t] = "lexical"
  /\ IF Runnable(Of(t)) = {}
     THEN Go(t, "complete") /\ Conclude(t, Error("no engines"))
     ELSE Go(t, "queued") /\ UNCHANGED outcome
  /\ UNCHANGED <<now, rows, slot, fetches, ask, pages, acc, events, logged>>

\* gate_waves and promote_deferred have run: the calls go out.
StartFetch(t) ==
  /\ fetches < MaxFetches /\ fetches' = fetches + 1
  /\ pages' = [pages EXCEPT ![t] = NoReports]
  /\ acc' = [acc EXCEPT ![t] = NothingMerged]
  /\ Go(t, "fetching")

\* The permits come within the wait budget, or the overflow path runs; so it
\* does when a promoted engine's permit does not come.
Admitted(t) ==
  /\ at[t] = "queued" /\ StartFetch(t)
  /\ UNCHANGED <<now, rows, slot, ask, outcome, events, logged>>

NotAdmitted(t) ==
  /\ at[t] = "queued" /\ Go(t, "overflow")
  /\ UNCHANGED <<now, rows, slot, fetches, ask, flight, events, logged>>

\* overflow: the key's row whatever its age, or RateLimited.
Overflow(t) ==
  LET row == rows[Of(t)]
      o == Served(row, 1, row.expires <= now) IN
  /\ at[t] = "overflow"
  /\ \/ /\ row # None
        /\ Conclude(t, o) /\ Send(t[1], IF Streaming(t) THEN Emit(o) ELSE <<>>)
     \/ Conclude(t, Error("rate limited")) /\ UNCHANGED events
  /\ Go(t, "complete")
  /\ UNCHANGED <<now, rows, slot, fetches, ask, pages, acc, logged>>

\* An engine answers, fails or is left out; an answer goes into the merge
\* and, with results, out on the stream.
Report(t) ==
  /\ at[t] = "fetching"
  /\ \E idx \in Runnable(Of(t)) \ DOMAIN pages[t] :
       \/ \E page \in Pages[idx] :
            /\ pages' = [pages EXCEPT ![t] = With(@, idx, page)]
            /\ acc' = [acc EXCEPT ![t] = Add(@, idx, page)]
            /\ Send(t[1], IF Streaming(t) /\ page # <<>> THEN <<Batch(idx, page)>> ELSE <<>>)
       \/ \E silence \in Silent :
            /\ pages' = [pages EXCEPT ![t] = With(@, idx, silence)]
            /\ UNCHANGED <<acc, events>>
  /\ UNCHANGED <<now, rows, slot, fetches, at, ask, outcome, logged>>

Answered(t) == {idx \in DOMAIN pages[t] : pages[t][idx] \notin Silent}

\* merge_outcomes and finish_fetch (or promote_deferred, when nothing could be
\* called): no answer at all is an error; an empty
\* result is not stored; a result with a failure in it is stored for
\* DegradedTTL at most; a write that fails changes nothing else.
FinishFetch(t) ==
  LET results == Finish(acc[t])
      \* NoResults is an answer, but its report is Failed: it degrades too.
      ok == {idx \in Answered(t) : pages[t][idx] # <<>>}
      degraded == \E idx \in DOMAIN pages[t] : pages[t][idx] \in {Failed, <<>>}
      ttl == IF degraded /\ DegradedTTL < TTL THEN DegradedTTL ELSE TTL
      row == [asked |-> Of(t), results |-> results, ok |-> ok,
              pages |-> [idx \in Engines |-> IF idx \in ok THEN pages[t][idx] ELSE <<>>],
              expires |-> now + ttl]
  IN
  /\ at[t] = "fetching" /\ DOMAIN pages[t] = Runnable(Of(t))
  /\ IF Answered(t) = {}
     THEN /\ Conclude(t, Error(IF Failed \in Range(pages[t]) THEN "all engines failed"
                                ELSE "breaker open"))
          /\ UNCHANGED <<rows, events>>
     ELSE /\ Conclude(t, [kind |-> "network", row |-> row, results |-> results])
          /\ \/ results # <<>> /\ rows' = [rows EXCEPT ![Of(t)] = row]
             \/ UNCHANGED rows
          /\ Send(t[1], IF Streaming(t) THEN <<Meta(results)>> ELSE <<>>)
  /\ pages' = [pages EXCEPT ![t] = NoReports]
  /\ acc' = [acc EXCEPT ![t] = NothingMerged]
  /\ Go(t, "complete")
  /\ UNCHANGED <<now, slot, fetches, ask, logged>>

\* Lead::complete: the outcome is published and the slot is free; a stale
\* serve of the flight then spawns the refresh, whose own outcome is dropped.
Complete(t) ==
  LET o == outcome[t]
      waiters == {s \in Tasks : at[s] = "following" /\ slot[Of(t)] = t /\ Of(s) = Of(t)}
  IN
  /\ at[t] = "complete"
  /\ slot' = [slot EXCEPT ![Of(t)] = None]
  /\ outcome' = [s \in Tasks |-> IF s \in waiters THEN o
                                 ELSE IF s = t /\ t[2] = "refresh" THEN Nothing
                                 ELSE outcome[s]]
  /\ at' = [s \in Tasks |->
              IF s \in waiters THEN "respond"
              ELSE IF s = t THEN IF t[2] = "refresh" THEN "idle" ELSE "respond"
              ELSE IF s = Refresh(t[1]) /\ o.kind = "cache" /\ o.stale THEN "waiting"
              ELSE at[s]]
  /\ UNCHANGED <<now, rows, fetches, ask, pages, acc, events, logged>>

-----------------------------------------------------------------------------
(* The end of a request that went through a flight.                        *)

\* Mutated Respond: a led flight is taken to have told the stream everything,
\* and a failed one has told it nothing.
RespondLedSilent(r) ==
  LET t == Search(r) o == outcome[t]
      led == events[r] # <<>> IN
  /\ at[t] = "respond"
  /\ Log(r, IF o.kind = "error" THEN "error" ELSE o.kind)
  /\ Send(r, IF ~Streaming(t) \/ led THEN <<>>
             ELSE IF o.kind = "error" THEN <<>> ELSE Emit(o))
  /\ Go(t, "idle")
  /\ UNCHANGED <<now, rows, slot, fetches, ask, flight>>

\* shared_response logs for every waiter; then a stream that did not lead, and
\* so has sent nothing, sends the whole response, and any stream its error.
Respond(r) ==
  LET t == Search(r) o == outcome[t]
      led == events[r] # <<>> IN
  /\ at[t] = "respond"
  /\ Log(r, IF o.kind = "error" THEN "error" ELSE o.kind)
  /\ Send(r, IF ~Streaming(t) THEN <<>>
             ELSE IF o.kind = "error" THEN <<[kind |-> "error"]>>
             ELSE IF led THEN <<>> ELSE Emit(o))
  /\ Go(t, "idle")
  /\ UNCHANGED <<now, rows, slot, fetches, ask, flight>>

-----------------------------------------------------------------------------
(* The background refresh.                                                 *)

\* Its permits come, or it is dropped.
RefreshWaits(r) ==
  LET t == Refresh(r) IN
  /\ at[t] = "waiting"
  /\ Go(t, "entering") \/ Go(t, "idle")
  /\ UNCHANGED <<now, rows, slot, fetches, ask, flight, events, logged>>

\* It runs only if no flight of the key does.
RefreshEnters(r) ==
  LET t == Refresh(r) IN
  /\ at[t] = "entering"
  /\ \/ /\ slot[ask[r]] = None
        /\ slot' = [slot EXCEPT ![ask[r]] = t]
        /\ StartFetch(t)
     \/ /\ slot[ask[r]] # None
        /\ Go(t, "idle") /\ UNCHANGED <<slot, fetches, pages, acc>>
  /\ UNCHANGED <<now, rows, ask, outcome, events, logged>>

Tick == now < EndOfTime /\ now' = now + 1
        /\ UNCHANGED <<rows, slot, fetches, at, ask, flight, events, logged>>

-----------------------------------------------------------------------------
Init ==
  /\ now = 0 /\ fetches = 0
  /\ rows = [a \in Asks |-> None] /\ slot = [a \in Asks |-> None]
  /\ at = [t \in Tasks |-> "idle"]
  /\ ask \in [Requests -> {CHOOSE a \in Asks : TRUE}]
  /\ pages = [t \in Tasks |-> NoReports]
  /\ acc = [t \in Tasks |-> NothingMerged]
  /\ outcome = [t \in Tasks |-> Nothing]
  /\ events = [r \in Requests |-> <<>>] /\ logged = [r \in Requests |-> <<>>]

FlightStep(t) ==
  \/ LexicalHit(t) \/ LexicalMiss(t) \/ Admitted(t) \/ NotAdmitted(t) \/ Overflow(t)
  \/ Report(t) \/ FinishFetch(t) \/ Complete(t)

Next ==
  \/ \E r \in Requests :
       \/ Begin(r) \/ Lookup(r) \/ StaleLookup(r) \/ Hit(r) \/ Enter(r) \/ Respond(r)
       \/ RefreshWaits(r) \/ RefreshEnters(r)
  \/ \E t \in Tasks : FlightStep(t)
  \/ Tick

Spec == Init /\ [][Next]_vars
-----------------------------------------------------------------------------
(* Properties.                                                             *)

\* Whatever tier a result comes from, and however often rows were served for
\* one another, it was fetched for this request's page and pin and for its
\* query or one similar enough (lexical_lookup, overflow, shared_response).
AnswersTheQuestion ==
  \A r \in Requests :
    LET o == outcome[Search(r)] IN
    o.kind \in {"cache", "network"} =>
      \/ o.row.asked = ask[r]
      \/ /\ SameButQuery(ask[r], o.row.asked)
         /\ Similar(ask[r].query, o.row.asked.query)

\* What is served and stored is a function of the engines' pages, whatever
\* order they came in (RrfMerge, fed by drive_fan_out in completion order).
MergeIgnoresArrival ==
  \A r \in Requests :
    LET o == outcome[Search(r)] IN
    o.kind \in {"cache", "network"} => o.results = Fused(o.row.pages)

\* A search that has ended has one search_log row, which tells where its
\* answer came from (write_log).
OneRow ==
  \A r \in Requests :
    LET o == outcome[Search(r)] IN
    at[Search(r)] = "idle" /\ o # Nothing /\ RecordHistory => logged[r] = <<o.kind>>

\* Its stream has ended with one terminal frame: meta, whose order is the
\* response, or an error, before which nothing was sent.  A refused pin opens
\* no stream (run_stream, emit_response).
OneTerminal ==
  \A r \in Requests :
    LET ev == events[r]
        o == outcome[Search(r)]
    IN
    /\ \A n \in DOMAIN ev : ev[n].kind # "results" => n = Len(ev)
    /\ at[Search(r)] = "idle" /\ o # Nothing /\ r \in Streams /\ o # Error("unknown engines") =>
         IF o.kind = "error" THEN ev = <<[kind |-> "error"]>>
         ELSE ev # <<>> /\ Last(ev) = Meta(o.results)

\* And meta orders only results the stream has sent.
MetaNamesSent ==
  \A r \in Requests :
    LET ev == events[r]
        sent == UNION {ToSet(ev[n].urls) : n \in {m \in DOMAIN ev : ev[m].kind = "results"}}
    IN ev # <<>> /\ Last(ev).kind = "meta" =>
         ToSet(Last(ev).order) \subseteq {Canonical[u] : u \in sent}

\* Together: a request ends once, in the log and on its stream, and with what
\* it was told on the way.
EndsOnce == OneRow /\ OneTerminal /\ MetaNamesSent
=============================================================================

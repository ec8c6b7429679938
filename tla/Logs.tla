-------------------------------- MODULE Logs --------------------------------
(***************************************************************************)
(* The JSONL log of a server and its readers (cauce-server observability/  *)
(* jsonl.rs, trace.rs, tail.rs and cauce-cli cmds/tail.rs).                *)
(*                                                                         *)
(* Threads open spans, log events and close spans; a line is stamped       *)
(* before the writer's mutex and queued under it, so lines may be queued   *)
(* out of the order of their stamps.  One worker writes the queue into a   *)
(* file per day.  The appender calls a file `dotted' (cauce.DAY.jsonl);    *)
(* the writer renames it to cauce-DAY.jsonl, at most once a minute, unless *)
(* a restart on the same day has left a file of that name.                 *)
(*                                                                         *)
(* `cauce trace' rebuilds the span tree of one request from every file,    *)
(* `cauce tail' renders one file, and with --follow goes on to the newest. *)
(***************************************************************************)
EXTENDS Naturals, Sequences, FiniteSets, SequencesExt

CONSTANTS Threads, Requests,
          NoRecord,     \* a thread with no line in its hands
          MaxLines,     \* bound: lines emitted
          MaxDay,       \* bound: days that pass
          MaxRuns,      \* bound: processes, one after the other
          MaxFiles      \* [observability] retention_days

(* The bounds let something happen; daily_file_writer keeps one file at    *)
(* least; a thread's line is not none.                                     *)
ASSUME LogBoundsAssumption ==
    MaxLines \in Nat /\ MaxDay \in Nat \ {0} /\ MaxRuns \in Nat \ {0}
ASSUME FilesAssumption == MaxFiles \in Nat \ {0}
ASSUME RecordAssumption ==
    NoRecord \notin [ts : Nat, run : Nat, kind : {"open", "event", "close"}, req : Requests,
                     id : Nat, parent : Nat, engine : BOOLEAN]

VARIABLES
    stamp,      \* lines stamped so far: the time, as a number
    day,        \* the day of the wall clock
    run,        \* which process this is
    begun,      \* begun[r]: the run that served request r, 0 before it
    alive,      \* the spans in the registry: [id, parent, req, engine]
    nextSpan,   \* span ids start over with every process
    held,       \* held[t]: a line stamped but not queued yet
    queue,      \* the non-blocking writer's channel
    logs,       \* the files in the order of their creation: [day, dotted, lines];
                \*   the appender's descriptor is on the last one
    follower,   \* a `cauce tail --follow': [on, name, offset, seen]
    unsettled   \* whether a name moved under the follower, its start found the names
                \*   out of the order of the files, or it slept while two were begun

logVars == <<stamp, day, run, begun, alive, nextSpan, held, queue, logs,
             follower, unsettled>>

Name(file) == [day |-> file.day, dotted |-> file.dotted]

LogInit ==
    /\ stamp = 0 /\ day = 1 /\ run = 1 /\ nextSpan = 1
    /\ begun = [r \in Requests |-> 0]
    /\ alive = {} /\ held = [t \in Threads |-> NoRecord] /\ queue = <<>>
    /\ logs = <<[day |-> 1, dotted |-> FALSE, lines |-> <<>>]>>
    /\ unsettled = FALSE
    /\ follower = [on |-> FALSE, name |-> Name(logs[1]), offset |-> 0, seen |-> <<>>]

-----------------------------------------------------------------------------
(* Emitting a line.  A span is in use while a line of it, or of a child,   *)
(* is being emitted; a parent outlives its children.                       *)
InUse(id) == \/ \E s \in alive : s.parent = id
             \/ \E t \in Threads : held[t] # NoRecord /\ id \in {held[t].id, held[t].parent}

(* A span whose closing line is being emitted has no reference left.       *)
Usable == {s \in alive : \A t \in Threads :
              held[t] # NoRecord => ~(held[t].kind = "close" /\ held[t].id = s.id)}

Stamped(t, r, kind, id, parent, engine) ==
    /\ held[t] = NoRecord /\ stamp < MaxLines
    /\ begun[r] \in {0, run}
    /\ stamp' = stamp + 1
    /\ begun' = [begun EXCEPT ![r] = run]
    /\ held' = [held EXCEPT ![t] = [ts |-> stamp + 1, run |-> run, kind |-> kind, req |-> r,
                                    id |-> id, parent |-> parent, engine |-> engine]]
    /\ UNCHANGED <<day, run, alive, queue, logs, follower, unsettled>>

(* on_new_span: the root span of a request, or a child of a live span; the *)
(* request is hoisted from the nearest span that names one.                *)
OnNewSpan(t, r, engine) ==
    /\ nextSpan' = nextSpan + 1
    /\ \/ ~engine /\ begun[r] = 0 /\ Stamped(t, r, "open", nextSpan, 0, FALSE)
       \/ \E s \in Usable : s.req = r /\ Stamped(t, r, "open", nextSpan, s.id, engine)

(* on_event: inside a live span, or outside any with its own request_id.   *)
OnEvent(t, r) ==
    /\ \/ Stamped(t, r, "event", 0, 0, FALSE)
       \/ \E s \in Usable : s.req = r /\ Stamped(t, r, "event", s.id, 0, FALSE)
    /\ UNCHANGED nextSpan

OnClose(t, s) ==
    /\ ~InUse(s.id)
    /\ Stamped(t, s.req, "close", s.id, s.parent, s.engine)
    /\ UNCHANGED nextSpan

(* emit: the line is queued under the writer's mutex; only now does the    *)
(* span become known to others, or leave the registry.                     *)
Emit(t) ==
    LET line == held[t]
        span == [id |-> line.id, parent |-> line.parent, req |-> line.req,
                 engine |-> line.engine] IN
    /\ line # NoRecord
    /\ queue' = Append(queue, line)
    /\ held' = [held EXCEPT ![t] = NoRecord]
    /\ alive' = CASE line.kind = "open"  -> alive \cup {span}
                  [] line.kind = "close" -> alive \ {span}
                  [] OTHER               -> alive
    /\ UNCHANGED <<stamp, day, run, begun, nextSpan, logs, follower, unsettled>>

-----------------------------------------------------------------------------
(* The worker and its files.                                               *)
Names(files) == {Name(files[i]) : i \in DOMAIN files}

Least(a, b) == IF a < b THEN a ELSE b

NormalizeLogNames(files) ==
    [i \in DOMAIN files |->
        IF [day |-> files[i].day, dotted |-> FALSE] \in Names(files) THEN files[i]
        ELSE [files[i] EXCEPT !.dotted = FALSE]]

(* The appender prunes, then opens today's dotted file, or creates it.      *)
Rolled(files) ==
    LET keep == SubSeq(files, Len(files) + 2 - Least(MaxFiles, Len(files) + 1), Len(files))
        mine == [day |-> day, dotted |-> TRUE] IN
    IF mine \in Names(keep) THEN keep
    ELSE Append(keep, [day |-> day, dotted |-> TRUE, lines |-> <<>>])

(* DailyJsonlWriter::write: names first, if the last pass was a minute ago *)
(* or more, then the appender, which rolls over on a day's first write.    *)
WriteLine(minute) ==
    /\ queue # <<>>
    /\ LET settled == IF minute THEN NormalizeLogNames(logs) ELSE logs
           files   == IF Last(settled).day = day THEN settled ELSE Rolled(settled) IN
       /\ logs' = [files EXCEPT ![Len(files)].lines = Append(@, Head(queue))]
       /\ unsettled' = \/ unsettled \/ settled # logs
                       \/ files # settled /\ follower.on /\ follower.name # Name(Last(settled))
    /\ queue' = Tail(queue)
    /\ UNCHANGED <<stamp, day, run, begun, alive, nextSpan, held, follower>>

DayPasses ==
    /\ day < MaxDay /\ day' = day + 1
    /\ UNCHANGED <<stamp, run, begun, alive, nextSpan, held, queue, logs, follower, unsettled>>

(* The process dies with what it had not written, and the next one starts: *)
(* daily_file_writer opens the file and settles the names.                 *)
CrashAndReopen ==
    /\ run < MaxRuns /\ run' = run + 1
    /\ alive' = {} /\ held' = [t \in Threads |-> NoRecord] /\ queue' = <<>>
    /\ nextSpan' = 1
    /\ logs' = NormalizeLogNames(Rolled(logs))
    /\ unsettled' = TRUE
    /\ UNCHANGED <<stamp, day, begun, follower>>

-----------------------------------------------------------------------------
(* The readers.  log_files lists "newest first" by name, and a dot sorts   *)
(* after a dash: every dotted file comes before every renamed one.         *)
NewerName(a, b) == IF a.dotted # b.dotted THEN a.dotted ELSE a.day > b.day
InOrder == \A i, j \in DOMAIN logs : i < j => NewerName(logs[j], logs[i])
Newest  == logs[CHOOSE i \in DOMAIN logs :
                   \A j \in DOMAIN logs \ {i} : NewerName(logs[i], logs[j])]

(* The lines on file, by file and place in it.                             *)
Spots     == UNION {{i} \X DOMAIN logs[i].lines : i \in DOMAIN logs}
LineAt(s) == logs[s[1]].lines[s[2]]
Of(r)     == {s \in Spots : LineAt(s).req = r}

(* Newest file first, and each from its start.                             *)
ReadBefore(s, u) == IF s[1] = u[1] THEN s[2] < u[2] ELSE NewerName(logs[s[1]], logs[u[1]])

(* The lines at some spots in an order of them.                            *)
Listed(spots, Ahead(_, _)) ==
    [n \in 1..Cardinality(spots) |->
        LineAt(CHOOSE s \in spots : Cardinality({u \in spots : Ahead(u, s)}) = n - 1)]

\* Mutated TraceRequest: the lines stay in the order the files are read in.
TraceRequestUnsorted(r) == Listed(Of(r), ReadBefore)

(* sort_by_key is stable: of equal stamps the one read first comes first.  *)
Sooner(s, u) == \/ LineAt(s).ts < LineAt(u).ts
                \/ LineAt(s).ts = LineAt(u).ts /\ ReadBefore(s, u)
TraceRequest(r) == Listed(Of(r), Sooner)

(* Trace::build: what hangs under which span (0: the top).  Every line of  *)
(* a span makes a node, an opening one for the parent too; an event goes   *)
(* under its span if that is a node by then.                               *)
NodesBefore(lines, n) ==
    LET spans == {lines[m] : m \in {k \in 1..(n - 1) : lines[k].kind # "event"}} IN
    {x.id : x \in spans} \cup {x.parent : x \in {y \in spans : y.kind = "open"}}

Build(lines) ==
    {[item |-> [span |-> x.id], under |-> x.parent] : x \in {y \in ToSet(lines) : y.kind = "open"}}
    \cup {[item |-> lines[n],
           under |-> IF lines[n].id \in NodesBefore(lines, n) THEN lines[n].id ELSE 0] :
              n \in {m \in DOMAIN lines : lines[m].kind = "event"}}

(* Tail::push with an --engine filter: an engine's id is inherited from    *)
(* the parent when a span opens, and forgotten when it closes.             *)
Push(tail, line) ==
    LET mine == line.engine \/ line.parent \in tail.engines IN
    CASE line.kind = "open" ->
            [tail EXCEPT !.engines = IF mine THEN @ \cup {line.id} ELSE @,
                         !.open = @ \cup {line.id}]
      [] line.kind = "close" ->
            [engines |-> tail.engines \ {line.id}, open |-> tail.open \ {line.id},
             kept |-> IF line.engine \/ line.id \in tail.engines
                      THEN tail.kept \cup {line} ELSE tail.kept]
      [] OTHER -> [tail EXCEPT !.kept = IF line.id \in tail.engines THEN @ \cup {line} ELSE @]

Tailed(lines) ==
    LET after[n \in 0..Len(lines)] ==
            IF n = 0 THEN [engines |-> {}, open |-> {}, kept |-> {}]
            ELSE Push(after[n - 1], lines[n])
    IN after

TailOf(lines) == Tailed(lines)[Len(lines)]

(* cauce tail --follow: it starts at the newest file; a poll drains the    *)
(* file it is on once more before it goes on to a newer one from its start. *)
LinesFrom(name, offset) ==
    LET at == {i \in DOMAIN logs : Name(logs[i]) = name} IN
    IF at = {} THEN <<>>
    ELSE LET lines == logs[CHOOSE i \in at : TRUE].lines IN SubSeq(lines, offset + 1, Len(lines))

StartFollowing ==
    /\ ~follower.on
    /\ follower' = [on |-> TRUE, name |-> Name(Newest), offset |-> Len(Newest.lines),
                    seen |-> Newest.lines]
    /\ unsettled' = ~InOrder
    /\ UNCHANGED <<stamp, day, run, begun, alive, nextSpan, held, queue, logs>>

Poll ==
    LET newest == Name(Newest)
        rest   == IF newest = follower.name THEN <<>>
                  ELSE LinesFrom(follower.name, follower.offset)
        offset == IF newest = follower.name THEN follower.offset ELSE 0
        next   == LinesFrom(newest, offset) IN
    follower' = [follower EXCEPT !.name = newest, !.offset = offset + Len(next),
                                 !.seen = @ \o rest \o next]

Follow ==
    /\ follower.on /\ Poll
    /\ UNCHANGED <<stamp, day, run, begun, alive, nextSpan, held, queue, logs, unsettled>>

LogNext ==
    \/ \E t \in Threads :
          \/ \E r \in Requests : (\E engine \in BOOLEAN : OnNewSpan(t, r, engine)) \/ OnEvent(t, r)
          \/ \E s \in Usable : OnClose(t, s)
          \/ Emit(t)
    \/ (\E minute \in BOOLEAN : WriteLine(minute)) \/ DayPasses \/ CrashAndReopen
    \/ StartFollowing \/ Follow

LogSpec == LogInit /\ [][LogNext]_logVars

-----------------------------------------------------------------------------
(* Type correctness.                                                       *)
LogTypeOK ==
    /\ stamp \in 0..MaxLines /\ day \in 1..MaxDay /\ run \in 1..MaxRuns
    /\ Len(logs) \in 1..MaxFiles /\ Cardinality(Names(logs)) = Len(logs)
    /\ \A s, u \in alive : s.id = u.id => s = u

(* Whatever midnight, rename, prune or restart came between: every line of *)
(* the request that is still on file is in its trace once, a span under    *)
(* the parent it was opened under, an event under its own span whenever    *)
(* the opening of that span survives.                                      *)
TraceIsWhole(r) ==
    LET lines  == {LineAt(s) : s \in Of(r)}
        opened == {x \in lines : x.kind = "open"}
        trace  == TraceRequest(r)
        places == Build(trace)
    IN /\ ToSet(trace) = lines /\ Len(trace) = Cardinality(lines)
       /\ \A x \in opened :
             {p.under : p \in {q \in places : q.item = [span |-> x.id]}} = {x.parent}
       /\ \A x \in lines : x.kind = "event" =>
             LET at == {p.under : p \in {q \in places : q.item = x}} IN
             /\ Cardinality(at) = 1 /\ at \subseteq {0, x.id}
             /\ (\E y \in opened : y.id = x.id) => at = {x.id}

(* The spans inside an engine's: the fewest that hold the engines' own and *)
(* whatever was opened under one of them.                                  *)
EngineSpans(opens) ==
    LET ids == {x.id : x \in opens} IN
    {i \in ids : \A S \in SUBSET ids :
        (\A x \in opens : x.engine \/ x.parent \in S => x.id \in S) => i \in S}

(* On a file of one process that holds the opening of every span it names, *)
(* `--engine' keeps what happened inside the engine's spans, and the spans *)
(* reported open at the end are those opened and not closed.               *)
TailAttributes(lines) ==
    LET opens == {x \in ToSet(lines) : x.kind = "open"}
        self  == \A x \in ToSet(lines) :
                    /\ x.run = lines[1].run
                    /\ {x.id, x.parent} \ {0} \subseteq {y.id : y \in opens}
    IN lines # <<>> /\ self =>
          /\ TailOf(lines).kept = {x \in ToSet(lines) : x.kind # "open" /\ x.id \in EngineSpans(opens)}
          /\ TailOf(lines).open = {x.id : x \in opens}
                                     \ {x.id : x \in {y \in ToSet(lines) : y.kind = "close"}}

(* While names are settled and the follower is not two files behind, what  *)
(* --follow has printed is what was written, nothing twice and nothing     *)
(* left out, over the turn of a day too.  (Once a name moves it is not:    *)
(* the follower takes the file's new name for a newer file and prints it   *)
(* again, and a dotted file of an earlier day hides every later one.  And  *)
(* a follower that wakes two days late goes on to the newest file.)        *)
FollowIsFaithful ==
    LET Earlier(s, u) == s[1] < u[1] \/ (s[1] = u[1] /\ s[2] < u[2]) IN
    ~unsettled => \A i \in 1..(Len(follower.seen) - 1), s \in Spots :
       LineAt(s) = follower.seen[i] =>
          \E u \in Spots : /\ LineAt(u) = follower.seen[i + 1] /\ Earlier(s, u)
                          /\ \A v \in Spots : ~(Earlier(s, v) /\ Earlier(v, u))

(* Every reader of the log gets the whole of what it asks for              *)
(* (trace_request, Trace::build, Tail::push, tail --follow's drain).       *)
ReadersMissNothing ==
    /\ \A r \in Requests : TraceIsWhole(r)
    /\ \A i \in DOMAIN logs : TailAttributes(logs[i].lines)
    /\ FollowIsFaithful
=============================================================================

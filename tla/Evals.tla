-------------------------------- MODULE Evals --------------------------------
(***************************************************************************)
(* `cauce eval ai' (cauce-core evals/ai.rs, cauce-cli cmds/eval_ai.rs):    *)
(* cases run in parallel through the answer loop, either against a live    *)
(* provider behind a RecordingProvider, which writes a transcript, or      *)
(* against a TranscriptProvider, which replays one; then one report.       *)
(*                                                                         *)
(* A turn of a conversation is the deltas it streamed and how it ended:    *)
(* tool calls, an answer with the confidence it states and whether it is   *)
(* grounded, or an error.  The loop goes on after tool calls only.  The    *)
(* searches are answered by cassettes, the same in both modes.             *)
(***************************************************************************)
EXTENDS Integers, Sequences, FiniteSets, SequencesExt

CONSTANTS NumCases,   \* cases, numbered in the order of the case file; each
                      \*   has a transcript stem of its own
          Protos,     \* wire protocols; "openai" is the default variant
          Verdicts,   \* how an answer may come out: [conf, grounded]
          MaxTurns,   \* bound: turns of a conversation
          MaxDeltas,  \* bound: deltas of a turn
          MaxSessions \* bound: runs of the command

CaseNums == 1..NumCases
Units    == CaseNums \X Protos    \* a case on one transcript variant
Nothing  == <<>>
ToolCalls    == [kind |-> "tools"]
Broken   == [kind |-> "error"]
Delta    == [kind |-> "delta"]
Answered(v) == [kind |-> "answer", verdict |-> v]

VARIABLES
    mode,      \* "idle", "record" or "replay"
    sessions,  \* runs of the command so far
    library,   \* transcripts on disk: the turns, and the conversation they record
    unit,      \* unit[u]: where the run of u is
    joined,    \* the units that have ended, in that order, with their outcome
    report     \* the last report written

evalVars == <<mode, sessions, library, unit, joined, report>>

Resting == [at |-> "off", turns |-> <<>>, pending |-> 0, wire |-> "closed",
            relay |-> <<>>, text |-> 0, seen |-> <<>>]

EvalInit ==
    /\ mode = "idle" /\ sessions = 0
    /\ library = [u \in Units |-> Nothing]
    /\ unit = [u \in Units |-> Resting]
    /\ joined = <<>> /\ report = <<>>

-----------------------------------------------------------------------------
(* run_cases.  Recording runs each case once, on the configured protocol;  *)
(* replaying runs the default variant, file or not, and every other one    *)
(* found beside it.                                                        *)
TranscriptVariants(c) ==
    {<<c, "openai">>} \cup {u \in Units : u[1] = c /\ library[u] # Nothing}

Begin(to, units) ==
    /\ mode = "idle" /\ sessions < MaxSessions
    /\ mode' = to /\ sessions' = sessions + 1
    /\ unit' = [u \in Units |->
                  IF u \notin units THEN Resting
                  ELSE [Resting EXCEPT !.at = "ready",
                                       !.turns = IF to = "replay" /\ library[u] # Nothing
                                                 THEN library[u].turns ELSE <<>>]]
    /\ joined' = <<>>
    /\ UNCHANGED <<library, report>>

Record == \E proto \in Protos : Begin("record", CaseNums \X {proto})
Replay == Begin("replay", UNION {TranscriptVariants(c) : c \in CaseNums})

Step(u, new) ==
    /\ unit' = [unit EXCEPT ![u] = [f \in DOMAIN unit[u] |->
                   IF f \in DOMAIN new THEN new[f] ELSE unit[u][f]]]
    /\ UNCHANGED <<mode, sessions, library, joined, report>>

(* TranscriptTurn::events: an error turn replays no deltas; a turn without *)
(* deltas has no content either, the pumps assemble it from them.          *)
EventsOf(turn) ==
    IF turn.end = Broken THEN <<Broken>>
    ELSE [i \in 1..turn.deltas |-> Delta] \o <<turn.end>>

(* chat_stream: the live call may be refused at once, which records        *)
(* nothing; a replay hands out its next turn, or an error past the end.    *)
CallModel(u) ==
    /\ unit[u].at = "ready"
    /\ IF mode = "record"
       THEN \/ Step(u, [at |-> "reading", wire |-> "open", relay |-> <<>>, text |-> 0])
            \/ Step(u, [at |-> "failed"])
       ELSE IF unit[u].turns = <<>> THEN Step(u, [at |-> "failed"])
            ELSE Step(u, [at |-> "reading", turns |-> Tail(unit[u].turns), text |-> 0,
                          wire |-> "closed", relay |-> EventsOf(Head(unit[u].turns))])

\* Mutated TakePending: the deltas of a turn are copied, not taken.
TakePendingCopied(u) == unit[u].pending
TakePending(u) == 0

(* The recorder's task: an event of the provider is recorded, then         *)
(* forwarded.  A stream may also close without a terminal event.           *)
Forward(u) ==
    /\ unit[u].wire = "open"
    /\ \/ /\ unit[u].pending < MaxDeltas
          /\ Step(u, [pending |-> unit[u].pending + 1,
                      relay |-> Append(unit[u].relay, Delta)])
       \/ \E end \in {ToolCalls, Broken} \cup {Answered(v) : v \in Verdicts} :
             /\ end = ToolCalls => Len(unit[u].turns) + 1 < MaxTurns
             /\ Step(u, [turns |-> Append(unit[u].turns, [deltas |-> unit[u].pending, end |-> end]),
                         pending |-> TakePending(u), wire |-> "closed",
                         relay |-> Append(unit[u].relay, end)])
       \/ Step(u, [wire |-> "closed"])

(* AnswerLoop::turn reads one event; the loop calls again after tool calls. *)
ReadEvent(u) ==
    LET turn(end) == Append(unit[u].seen, [deltas |-> unit[u].text, end |-> end]) IN
    /\ unit[u].at = "reading"
    /\ IF unit[u].relay = <<>>
       THEN unit[u].wire = "closed" /\ Step(u, [at |-> "failed"])
       ELSE LET event == Head(unit[u].relay)
                rest  == Tail(unit[u].relay) IN
            CASE event.kind = "delta"  -> Step(u, [relay |-> rest, text |-> unit[u].text + 1])
              [] event.kind = "error"  -> Step(u, [relay |-> rest, at |-> "failed"])
              [] event.kind = "tools"  -> Step(u, [relay |-> rest, at |-> "ready",
                                                   seen |-> turn(event)])
              [] event.kind = "answer" -> Step(u, [relay |-> rest, at |-> "done",
                                                   seen |-> turn(event)])

(* The end of run_case: the frames are scored, and a recording saved under *)
(* the unit's stem; a failed save is only noted.                           *)
Join(u, outcome) ==
    /\ unit' = [unit EXCEPT ![u] = Resting]
    /\ joined' = Append(joined, [unit |-> u, outcome |-> outcome])
    /\ UNCHANGED <<mode, sessions, report>>

EndCase(u) ==
    LET heard == [ended |-> unit[u].at, seen |-> unit[u].seen] IN
    /\ unit[u].at \in {"done", "failed"}
    /\ Join(u, heard)
    /\ \/ mode = "record" /\ library' = [library EXCEPT ![u] = [turns |-> unit[u].turns,
                                                                 heard |-> heard]]
       \/ UNCHANGED library

(* A case that panics is joined all the same, without its index.           *)
Panics(u) ==
    /\ unit[u].at # "off"
    /\ Join(u, [ended |-> "panic", seen |-> <<>>])
    /\ UNCHANGED library

-----------------------------------------------------------------------------
(* The report: outcomes in case-file order, panics after them.  A case     *)
(* that reached no answer scores nothing and counts as ungrounded.         *)
Before(a, b) ==
    LET Place(j) == IF j.outcome.ended = "panic" THEN <<NumCases + 1, 0>>
                    ELSE <<j.unit[1], IF j.unit[2] = "openai" THEN 0 ELSE 1>> IN
    \/ Place(a)[1] < Place(b)[1]
    \/ Place(a)[1] = Place(b)[1] /\ Place(a)[2] < Place(b)[2]

Scored(outcomes) ==
    [i \in DOMAIN outcomes |-> IF outcomes[i].outcome.ended = "done"
                               THEN Last(outcomes[i].outcome.seen).end.verdict
                               ELSE Nothing]

(* Calibration::compute: agreement of `conf >= t' with grounded for each t *)
(* in 1..10, and the t that max_by settles on: ties go to the lower one.   *)
Agreement(t, scored) ==
    Cardinality({i \in DOMAIN scored : scored[i] # Nothing
                                       /\ (scored[i].conf >= t) = scored[i].grounded})

Suggested(scored) ==
    FoldLeft(LAMBDA best, t : IF Agreement(t, scored) > Agreement(best, scored) THEN t ELSE best,
             1, [i \in 1..9 |-> i + 1])

Report ==
    /\ mode # "idle" /\ \A u \in Units : unit[u].at = "off"
    /\ LET outcomes == SortSeq(joined, Before)
           scored   == Scored(outcomes) IN
       report' = [outcomes |-> outcomes, suggested |-> Suggested(scored),
                  ungrounded |-> Len(SelectSeq(scored, LAMBDA v : v = Nothing \/ ~v.grounded))]
    /\ mode' = "idle"
    /\ UNCHANGED <<sessions, library, unit, joined>>

EvalNext ==
    \/ Record \/ Replay \/ Report
    \/ \E u \in Units : CallModel(u) \/ Forward(u) \/ ReadEvent(u) \/ EndCase(u) \/ Panics(u)

EvalSpec == EvalInit /\ [][EvalNext]_evalVars

-----------------------------------------------------------------------------
(* Type correctness.                                                       *)
EvalTypeOK ==
    /\ mode \in {"idle", "record", "replay"} /\ sessions \in 0..MaxSessions
    /\ \A u \in Units : /\ unit[u].pending \in 0..MaxDeltas
                        /\ Len(unit[u].turns) <= MaxTurns
    /\ Len(joined) <= Cardinality(Units)

(* A replay shows the loop what the recording showed it: the same turns    *)
(* with the same deltas, and the same end, an answer or a failure,         *)
(* whatever the recording ran into and whichever cases ran beside it       *)
(* (RecordingProvider::chat_stream, TranscriptTurn::events).               *)
ReplayReproduces ==
    mode = "replay" => \A i \in DOMAIN joined :
        LET was == library[joined[i].unit] IN
        was # Nothing /\ joined[i].outcome.ended # "panic" => joined[i].outcome = was.heard
=============================================================================

----------------------------- MODULE AnswerLoop -----------------------------
(***************************************************************************)
(* The grounded-answer tool loop (crates/cauce-agent/src/answer.rs,        *)
(* tools.rs, config.rs) and the search-assist turn that shares its         *)
(* machinery: runs side by side over one answers cache and one answer log. *)
(* Any store call may fail; none of them fails the answer.                 *)
(*                                                                         *)
(* A step goes from one await to the next.  Text is counted in units; the  *)
(* last `tail' units of a completion are its metadata object.  An answer's *)
(* sentences are the sets of source numbers they cite.                     *)
(***************************************************************************)
EXTENDS Naturals, Sequences, FiniteSets, SequencesExt

CONSTANTS
  Runs, Questions,
  CallLists,      \* tool calls a completion may carry: sequences of <<tool, query>>
  KnownTools,     \* names in the tool registry
  Findings,       \* what a search may return: sequences of URLs
  Citings,        \* what an answer may cite: sets of sets of source numbers
  MaxTurns, MaxExecutions,
  TailWindow,     \* TAIL_WINDOW, in units of text
  MaxText,        \* bound: units of text in one provider turn
  RecordHistory,  \* LoopConfig.record_history
  NoAnswer

ASSUME WindowAssumption == TailWindow \in Nat

\* Limits are numbers, and what an answer cites are numbers of sources.
ASSUME LimitsAssumption ==
  /\ MaxTurns \in Nat /\ MaxExecutions \in Nat /\ MaxText \in Nat
  /\ Citings \subseteq SUBSET SUBSET Nat

VARIABLES
  req,        \* what each run was asked
  loop,       \* where it is, and what it has gathered; base and fits (what
              \* was shown before its last turn, whether the tail fitted the
              \* window) are read by properties only
  frames,     \* the frames its receiver was sent, one "delta" for a stretch
  shown,      \* units of answer text in those deltas
  listening,  \* the receiver still exists
  answers,    \* the answers table
  answerLog   \* the answer_log table

loopVars == <<req, loop, frames, shown, listening, answers, answerLog>>

Requests == [q : Questions, assist : BOOLEAN, multi : BOOLEAN]
Keys == Questions \X BOOLEAN
Answers == [by : Runs, cites : SUBSET SUBSET Nat, len : Nat]
Frames == {"step", "delta", "sources", "done", "error"}
NoRequest == [q |-> CHOOSE q \in Questions : TRUE, assist |-> FALSE, multi |-> FALSE]

\* The state of a run when it begins, and while it has not.
Fresh == [at |-> "off", turn |-> 0, calls |-> <<>>, visited |-> {},
          executed |-> <<>>, sources |-> <<>>, text |-> 0, emitted |-> 0,
          answer |-> NoAnswer, cached |-> FALSE, logId |-> 0,
          base |-> 0, fits |-> TRUE]

LoopTypeOK ==
  /\ req \in [Runs -> Requests]
  /\ \A r \in Runs :
       /\ loop[r].at \in {"off", "lookup", "replay", "turn", "calls", "log",
                          "put", "fail", "over"}
       /\ loop[r].turn \in 0..MaxTurns
       /\ loop[r].text \in 0..MaxText /\ loop[r].emitted <= loop[r].text
       /\ loop[r].logId \in 0..Len(answerLog)
       /\ frames[r] \in Seq(Frames) /\ shown[r] \in Nat
  /\ listening \in [Runs -> BOOLEAN]
  /\ \A k \in Keys : answers[k] # NoAnswer => answers[k].answer \in Answers

Cacheable(r) == req[r].assist \/ ~req[r].multi

\* AnswerKey: the question and the mode.  The key of an assist also digests the
\* result set it sums up, which is part of the question here.
Key(r) == <<req[r].q, req[r].assist>>
Forced(r) == req[r].assist \/ loop[r].turn = MaxTurns

\* groundedness: a source, a sentence, and every sentence cites, in range.
Grounded(cites, n) ==
  /\ n > 0 /\ cites # {}
  /\ \A s \in cites : s # {} /\ s \subseteq 1..n

\* parse_final_answer: the metadata object is cut off when it starts within
\* the window, or when a fence around it gives it away.
Body(text, tail, fenced) ==
  IF tail <= TailWindow \/ fenced THEN text - tail ELSE text

\* The URLs of a search, after those already seen.
Pool(sources, found) == FoldLeft(LAMBDA s, u : IF Contains(s, u) THEN s ELSE Append(s, u),
                                 sources, found)

-----------------------------------------------------------------------------
\* The locals of a run that returns are gone.
Returned(l) == [l EXCEPT !.turn = 0, !.calls = <<>>, !.visited = {},
                         !.executed = <<>>, !.text = 0, !.emitted = 0]

\* The run goes on with the locals l.
Go(r, l) == loop' = [loop EXCEPT ![r] = IF l.at = "over" THEN Returned(l) ELSE l]
GoTo(r, next) == Go(r, [loop[r] EXCEPT !.at = next])

\* The frames after the ones sent before, a stretch of deltas told as one: a step
\* sends one delta at most, and ahead of its other frames.
Sent(before, fs) ==
  before \o IF fs # <<>> /\ fs[1] = "delta" /\ before # <<>> /\ Last(before) = "delta"
            THEN Tail(fs) ELSE fs

\* emit: nothing reaches a receiver that was dropped.
Emit(r, fs) ==
  frames' = [frames EXCEPT ![r] = IF listening[r] THEN Sent(@, fs) ELSE @]

\* A delta of n units.
Show(r, n) == shown' = [shown EXCEPT ![r] = IF listening[r] THEN @ + n ELSE @]
Delta(n) == IF n > 0 THEN <<"delta">> ELSE <<>>
Over(r) == GoTo(r, "over")

\* log_answer: no row and no id when history is off or the store fails.
LogAnswer(r, status, next) ==
  \/ /\ RecordHistory
     /\ answerLog' = Append(answerLog,
          [by |-> r, status |-> status, answer |-> loop[r].answer])
     /\ Go(r, [loop[r] EXCEPT !.logId = Len(answerLog) + 1, !.at = next])
  \/ UNCHANGED answerLog /\ GoTo(r, next)

-----------------------------------------------------------------------------
(* The run: stream_answer and stream_assist.                               *)

Begin(r, rq) ==
  /\ loop[r].at = "off"
  /\ req' = [req EXCEPT ![r] = rq]
  /\ GoTo(r, "lookup")
  /\ listening' = [listening EXCEPT ![r] = TRUE]
  /\ UNCHANGED <<frames, shown, answers, answerLog>>

\* A fresh row of the request's own key is replayed; an assist run does so
\* at once, as it keeps no log.
LookupHit(r) ==
  /\ loop[r].at = "lookup" /\ Cacheable(r) /\ answers[Key(r)] # NoAnswer
  /\ Go(r, [loop[r] EXCEPT !.answer = answers[Key(r)].answer, !.cached = TRUE,
                            !.sources = answers[Key(r)].sources,
                            !.at = IF req[r].assist THEN "over" ELSE "replay"])
  /\ Emit(r, IF req[r].assist THEN <<"sources", "done">> ELSE <<>>)
  /\ UNCHANGED <<req, shown, listening, answers, answerLog>>

Replay(r) ==
  /\ loop[r].at = "replay"
  /\ LogAnswer(r, "cached", "over")
  /\ Emit(r, <<"sources", "done">>)
  /\ UNCHANGED <<req, shown, listening, answers>>

\* No row, a lookup that failed (even when there is a row), or a request that
\* is not looked up.  The assist's sources are the results it was given, and
\* they go out before its only turn.
LookupMiss(r) ==
  /\ loop[r].at = "lookup"
  /\ IF req[r].assist
       THEN /\ Emit(r, <<"sources">>)
            /\ \E given \in Findings :
                 Go(r, [loop[r] EXCEPT !.sources = given,
                                       !.at = IF listening[r] THEN "turn" ELSE "over"])
       ELSE GoTo(r, "turn") /\ UNCHANGED frames
  /\ UNCHANGED <<req, shown, listening, answers, answerLog>>

\* Mutated Stream: the text goes out as it comes, nothing is held back.
StreamAll(r) ==
  /\ loop[r].at = "turn" /\ loop[r].text < MaxText
  /\ Go(r, [loop[r] EXCEPT !.text = @ + 1, !.emitted = loop[r].text + 1])
  /\ Emit(r, <<"delta">>) /\ Show(r, 1)
  /\ UNCHANGED <<req, listening, answers, answerLog>>

\* turn, a Delta event: emit_deltas sends all but the last TailWindow units
\* and the run ends if nobody receives them.
Stream(r) ==
  /\ loop[r].at = "turn" /\ loop[r].text < MaxText
  /\ LET text == loop[r].text + 1
         upto == IF text > TailWindow THEN text - TailWindow ELSE 0
         new  == upto > loop[r].emitted
     IN /\ Go(r, [loop[r] EXCEPT !.text = text, !.emitted = IF new THEN upto ELSE @,
                               !.at = IF new /\ ~listening[r] THEN "over" ELSE "turn"])
        /\ Emit(r, IF new THEN <<"delta">> ELSE <<>>)
        /\ Show(r, IF new THEN upto - loop[r].emitted ELSE 0)
  /\ UNCHANGED <<req, listening, answers, answerLog>>

Collected(r) == IF loop[r].sources # <<>> THEN <<"sources">> ELSE <<>>

\* Mutated TurnFails: the searches paid for are not reported.
TurnFailsBare(r) ==
  /\ loop[r].at = "turn"
  /\ IF req[r].assist THEN Over(r) /\ Emit(r, <<"error">>)
                      ELSE GoTo(r, "fail") /\ UNCHANGED frames
  /\ UNCHANGED <<req, shown, listening, answers, answerLog>>

\* The call is refused, the stream ends without a completion, or an Error
\* event comes: only this one flushes the text held back.  What the searches
\* found is sent ahead of the error.
TurnFails(r) ==
  /\ loop[r].at = "turn"
  /\ \E flush \in BOOLEAN :
       LET rest == IF flush THEN loop[r].text - loop[r].emitted ELSE 0 IN
       /\ Show(r, rest)
       /\ IF req[r].assist
            THEN Over(r) /\ Emit(r, Delta(rest) \o <<"error">>)
            ELSE GoTo(r, "fail") /\ Emit(r, Delta(rest) \o Collected(r))
  /\ UNCHANGED <<req, listening, answers, answerLog>>

Fail(r) ==
  /\ loop[r].at = "fail"
  /\ LogAnswer(r, "error", "over")
  /\ Emit(r, <<"error">>)
  /\ UNCHANGED <<req, shown, listening, answers>>

\* A completion with tool calls; a forced turn offers no tools.
TurnCallsTools(r) ==
  /\ loop[r].at = "turn" /\ ~Forced(r)
  /\ \E calls \in CallLists : Go(r, [loop[r] EXCEPT !.at = "calls", !.calls = calls])
  /\ UNCHANGED <<req, frames, shown, listening, answers, answerLog>>

\* The one completion of an assist: done is sent and nothing logged; a grounded
\* answer is cached under the assist's own key, whatever history there was.
AssistEnd(r, cites) == IF Grounded(cites, Len(loop[r].sources)) THEN "put" ELSE "over"

\* The last completion: the rest of the body is the last delta.
TurnAnswers(r) ==
  /\ loop[r].at = "turn"
  /\ \E tail \in 0..loop[r].text, fenced \in BOOLEAN, cites \in Citings :
       LET len  == Body(loop[r].text, tail, fenced)
           rest == IF len > loop[r].emitted THEN len - loop[r].emitted ELSE 0
           ends == IF req[r].assist THEN <<"done">> ELSE <<>>
       IN /\ len = 0 <=> cites = {}
          /\ Show(r, rest) /\ Emit(r, Delta(rest) \o ends)
          /\ Go(r, [loop[r] EXCEPT !.answer = [by |-> r, cites |-> cites, len |-> len],
                                   !.fits = tail <= TailWindow,
                                   !.at = IF rest > 0 /\ ~listening[r] THEN "over"
                                          ELSE IF ~req[r].assist THEN "log"
                                          ELSE AssistEnd(r, cites)])
  /\ UNCHANGED <<req, listening, answers, answerLog>>

\* After the calls of a turn, the next turn.
Called(r, l) ==
  Go(r, IF Tail(l.calls) # <<>> THEN [l EXCEPT !.calls = Tail(@)]
        ELSE [l EXCEPT !.calls = <<>>, !.at = "turn", !.turn = @ + 1,
                       !.text = 0, !.emitted = 0, !.base = shown[r]])

\* One tool call: repeated, over budget and unknown calls are answered
\* in-band and cost nothing, but are remembered.
Call(r) ==
  /\ loop[r].at = "calls" /\ Emit(r, <<"step">>)
  /\ LET call == Head(loop[r].calls)
         seen == [loop[r] EXCEPT !.visited = @ \cup {call}]
         runs == call \notin loop[r].visited /\ Len(loop[r].executed) < MaxExecutions
                   /\ call[1] \in KnownTools
     IN \/ ~listening[r] /\ Over(r)
        \/ listening[r] /\ ~runs /\ Called(r, seen)
        \/ /\ listening[r] /\ runs
           /\ \E found \in Findings :
                Called(r, [seen EXCEPT !.executed = Append(@, call),
                                       !.sources = Pool(@, found)])
  /\ UNCHANGED <<req, shown, listening, answers, answerLog>>

\* Mutated MayCache: the rule forgets that the request had a history.
MayCacheThread(r) == Grounded(loop[r].answer.cites, Len(loop[r].sources))

\* The answer is logged, then sent, then cached if it may be: a single-turn
\* answer whose every sentence cites one of its sources.
MayCache(r) ==
  ~req[r].multi /\ Grounded(loop[r].answer.cites, Len(loop[r].sources))

Log(r) ==
  /\ loop[r].at = "log"
  /\ LogAnswer(r, "done", IF listening[r] /\ MayCache(r) THEN "put" ELSE "over")
  /\ Emit(r, <<"sources", "done">>)
  /\ UNCHANGED <<req, shown, listening, answers>>

Put(r) ==
  /\ loop[r].at = "put" /\ Over(r)
  /\ \/ answers' = [answers EXCEPT ![Key(r)] =
          [answer |-> loop[r].answer, sources |-> loop[r].sources]]
     \/ UNCHANGED answers                               \* the write failed
  /\ UNCHANGED <<req, frames, shown, listening, answerLog>>

\* The receiver is dropped; the run notices at its next frame.
Leave(r) ==
  /\ listening[r] /\ loop[r].at # "off"
  /\ listening' = [listening EXCEPT ![r] = FALSE]
  /\ UNCHANGED <<req, loop, frames, shown, answers, answerLog>>

\* A row of the answers table expires.
Expire(k) ==
  /\ answers[k] # NoAnswer
  /\ answers' = [answers EXCEPT ![k] = NoAnswer]
  /\ UNCHANGED <<req, loop, frames, shown, listening, answerLog>>

LoopInit ==
  /\ req = [r \in Runs |-> NoRequest]
  /\ loop = [r \in Runs |-> Fresh]
  /\ frames = [r \in Runs |-> <<>>] /\ shown = [r \in Runs |-> 0]
  /\ listening = [r \in Runs |-> FALSE]
  /\ answers = [k \in Keys |-> NoAnswer]
  /\ answerLog = <<>>

LoopStep(r) ==
  \/ LookupHit(r) \/ LookupMiss(r) \/ Replay(r) \/ Stream(r) \/ TurnFails(r) \/ Fail(r)
  \/ TurnCallsTools(r) \/ TurnAnswers(r) \/ Call(r) \/ Log(r) \/ Put(r)

-----------------------------------------------------------------------------
(* What a run promises.                                                    *)

Terminal == {"done", "error"}

\* The stream of a run (answer.rs:5-11, 22-25): nothing follows a terminal
\* frame, the sources precede it once any are known, and a run that still has
\* its receiver ends with one.
FramesInOrder ==
  \A r \in Runs : LET fs == frames[r] IN
    /\ \A i \in 1..Len(fs) : fs[i] \in Terminal => i = Len(fs)
    /\ fs # <<>> /\ Last(fs) = "done" => Contains(fs, "sources")
    /\ fs # <<>> /\ Last(fs) = "error" /\ loop[r].sources # <<>>
         => Contains(fs, "sources")
    /\ Cardinality({i \in 1..Len(fs) : fs[i] = "sources"}) <= 1
    /\ loop[r].at = "over" /\ listening[r] => fs # <<>> /\ Last(fs) \in Terminal

\* The window holds back what it must and no more (answer.rs:56-60): when the
\* metadata tail fits it, the last turn's deltas are the answer, whole and with
\* nothing of the tail in them.
TailHeldBack ==
  \A r \in Runs :
    frames[r] # <<>> /\ Last(frames[r]) = "done" /\ ~loop[r].cached /\ loop[r].fits
      => shown[r] - loop[r].base = loop[r].answer.len

\* The caching rule (#232, W7-04): a cached row is the answer of a run of its
\* own kind and question that had no history, and its citations point into
\* the sources stored with it.
CacheSound ==
  \A k \in Keys : answers[k] # NoAnswer =>
    LET row == answers[k] IN
    /\ Key(row.answer.by) = k /\ (req[row.answer.by].multi => k[2])
    /\ Grounded(row.answer.cites, Len(row.sources))

=============================================================================

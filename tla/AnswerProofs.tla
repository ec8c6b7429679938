---------------------------- MODULE AnswerProofs ----------------------------
(***************************************************************************)
(* The answer loop and the route around it, proved for any number of runs, *)
(* threads and clients, any tool calls and findings, any window and budget.*)
(*                                                                         *)
(* What a run promises depends on where it is: FramesOf relates its stage  *)
(* to the frames already sent, TextOf relates the text cursor to what was  *)
(* shown, AnswerOf says whose answer it holds and when it may be cached.   *)
(* An XEffect lemma says what step X changes; the XRun lemma, which no     *)
(* longer opens the action, that the promise is kept.  The table holds     *)
(* rows of runs that have begun, threads hold conversations of requests    *)
(* that have arrived: neither can be asked anything else any more.         *)
(***************************************************************************)
EXTENDS AnswerServer, SequenceTheorems, FiniteSetTheorems, TLAPS

\* The fields of a run's locals, and where a run can be.
Locals == {"at", "turn", "calls", "visited", "executed", "sources", "text", "emitted",
           "answer", "cached", "logId", "base", "fits"}

Stages == {"off", "lookup", "replay", "turn", "calls", "log", "put", "fail", "over"}

\* As much of the types as the proofs need.
Shape ==
  /\ DOMAIN req = Runs /\ DOMAIN loop = Runs /\ DOMAIN answers = Keys
  /\ \A r \in Runs :
       /\ DOMAIN loop[r] = Locals
       /\ loop[r].at \in Stages
       /\ loop[r].text \in Nat /\ loop[r].emitted \in Nat /\ loop[r].base \in Nat
  /\ frames \in [Runs -> Seq(Frames)]
  /\ shown \in [Runs -> Nat] /\ listening \in [Runs -> BOOLEAN]

\* A run that has not begun has all its locals.
LEMMA FreshShape == DOMAIN Fresh = Locals
  BY DEF Fresh, Locals

\* Going on with the locals l moves that run alone; a run that ends keeps what it
\* gathered, and its text is gone.
LEMMA GoFields ==
  ASSUME Shape, NEW r \in Runs, NEW l, DOMAIN l = Locals, Go(r, l)
  PROVE  /\ DOMAIN loop' = Runs /\ DOMAIN loop'[r] = Locals
         /\ \A s \in Runs \ {r} : loop'[s] = loop[s]
         /\ loop'[r].at = l.at /\ loop'[r].sources = l.sources
         /\ loop'[r].answer = l.answer /\ loop'[r].cached = l.cached
         /\ loop'[r].base = l.base /\ loop'[r].fits = l.fits
         /\ l.at # "over" => loop'[r].text = l.text /\ loop'[r].emitted = l.emitted
         /\ l.at = "over" => loop'[r].text = 0 /\ loop'[r].emitted = 0
<1>1. DOMAIN Returned(l) = Locals
  BY DEF Returned
<1>2. /\ Returned(l).at = l.at /\ Returned(l).sources = l.sources
      /\ Returned(l).answer = l.answer /\ Returned(l).cached = l.cached
      /\ Returned(l).base = l.base /\ Returned(l).fits = l.fits
      /\ Returned(l).text = 0 /\ Returned(l).emitted = 0
  BY DEF Returned, Locals
<1> QED
  BY <1>1, <1>2 DEF Shape, Go

-----------------------------------------------------------------------------
\* A stream without a terminal frame, one that ends in one, one that has none
\* but at its end; one that tells the sources, and no more than once.
Silent(fs) == \A i \in 1..Len(fs) : fs[i] \notin Terminal
EndsInTerminal(fs) == fs # <<>> /\ Last(fs) \in Terminal
TerminalLast(fs) == \A i \in 1..Len(fs) : fs[i] \in Terminal => i = Len(fs)
Sourced(fs) == Contains(fs, "sources")
SourcedOnce(fs) ==
  \A i, j \in 1..Len(fs) : fs[i] = "sources" /\ fs[j] = "sources" => i = j

\* A delta, or none, is a stretch of frames.
LEMMA DeltaSeq ==
  ASSUME NEW n
  PROVE  Delta(n) \in Seq(Frames)
<1>1. <<"delta">> \in Seq(Frames) /\ <<>> \in Seq(Frames)
  BY DEF Frames
<1> QED
  BY <1>1 DEF Delta

\* Deltas ahead of other frames count as at most one more frame.
LEMMA SentDelta ==
  ASSUME NEW fs \in Seq(Frames), NEW n, NEW rest \in Seq(Frames),
         rest # <<>> => rest[1] # "delta"
  PROVE  \E to \in {fs, Append(fs, "delta")} : Sent(fs, Delta(n) \o rest) = to \o rest
<1>1. CASE Delta(n) = <<>>
  <2>1. Delta(n) \o rest = rest
    BY <1>1, ConcatEmptySeq
  <2> QED
    BY <2>1 DEF Sent
<1>2. CASE Delta(n) = <<"delta">>
  <2> DEFINE gs == <<"delta">> \o rest
  <2>1. "delta" \in Frames
    BY DEF Frames
  <2>2. gs \in Seq(Frames) /\ gs # <<>> /\ gs[1] = "delta" /\ Tail(gs) = rest
    BY <2>1
  <2>3. fs \o gs = Append(fs, "delta") \o rest
    BY <2>1
  <2> QED
    BY <1>2, <2>2, <2>3 DEF Sent
<1> QED
  BY <1>1, <1>2 DEF Delta

\* One more frame: what it does to a stream that was in order.
LEMMA SentAppend ==
  ASSUME NEW fs \in Seq(Frames), NEW f \in Frames
  PROVE  LET gs == Append(fs, f) IN
         /\ gs \in Seq(Frames) /\ gs # <<>> /\ Last(gs) = f
         /\ Silent(fs) => TerminalLast(gs)
         /\ Silent(fs) /\ f \notin Terminal => Silent(gs)
         /\ Sourced(gs) <=> Sourced(fs) \/ f = "sources"
         /\ SourcedOnce(fs) /\ ~(Sourced(fs) /\ f = "sources") => SourcedOnce(gs)
  BY DEF Silent, TerminalLast, Sourced, SourcedOnce, Contains, Last

\* The sources and done, sent together, end a stream that was silent so far.
LEMMA SentBothShape ==
  ASSUME NEW fs \in Seq(Frames), Silent(fs), ~Sourced(fs), SourcedOnce(fs)
  PROVE  LET gs == Append(Append(fs, "sources"), "done") IN
         /\ gs \in Seq(Frames) /\ gs # <<>> /\ Last(gs) = "done"
         /\ TerminalLast(gs) /\ SourcedOnce(gs) /\ Sourced(gs)
<1>1. "sources" \in Frames \ Terminal /\ "done" \in Frames /\ "done" # "sources"
  BY DEF Frames, Terminal
<1> DEFINE hs == Append(fs, "sources")
<1>2. hs \in Seq(Frames) /\ Silent(hs) /\ Sourced(hs) /\ SourcedOnce(hs)
  BY <1>1, SentAppend
<1> HIDE DEF hs
<1>3. LET gs == Append(hs, "done") IN
      /\ gs \in Seq(Frames) /\ gs # <<>> /\ Last(gs) = "done"
      /\ TerminalLast(gs) /\ SourcedOnce(gs) /\ Sourced(gs)
  BY <1>1, <1>2, SentAppend
<1> QED
  BY <1>3 DEF hs

\* A frame that is no delta is appended.
LEMMA SentPlain ==
  ASSUME NEW fs \in Seq(Frames), NEW f \in Frames \ {"delta"}
  PROVE  Sent(fs, <<f>>) = Append(fs, f)
  BY DEF Sent

\* The two frames of a success are appended in their order.
LEMMA SentBoth ==
  ASSUME NEW fs \in Seq(Frames)
  PROVE  Sent(fs, <<"sources", "done">>) = Append(Append(fs, "sources"), "done")
  BY DEF Sent, Frames

\* Sending no frame changes nothing.
LEMMA SentNothing ==
  ASSUME NEW fs \in Seq(Frames)
  PROVE  Sent(fs, <<>>) = fs
  BY DEF Sent

\* A delta alone adds at most one frame.
LEMMA SentDeltaAlone ==
  ASSUME NEW fs \in Seq(Frames), NEW n
  PROVE  Sent(fs, Delta(n)) \in {fs, Append(fs, "delta")}
<1>1. Delta(n) \o <<>> = Delta(n)
  BY ConcatEmptySeq DEF Delta
<1>2. PICK to \in {fs, Append(fs, "delta")} : Sent(fs, Delta(n)) = to \o <<>>
  <2>1. <<>> \in Seq(Frames)
    OBVIOUS
  <2>2. \E to \in {fs, Append(fs, "delta")} : Sent(fs, Delta(n) \o <<>>) = to \o <<>>
    BY <2>1, SentDelta
  <2> QED
    BY <1>1, <2>2
<1>3. to \in Seq(Frames)
  BY DEF Frames
<1> QED
  BY <1>2, <1>3, ConcatEmptySeq

\* A delta and a closing frame add at most two.
LEMMA SentDeltaThen ==
  ASSUME NEW fs \in Seq(Frames), NEW n, NEW f \in Frames \ {"delta"}
  PROVE  Sent(fs, Delta(n) \o <<f>>) \in {Append(fs, f), Append(Append(fs, "delta"), f)}
<1>1. PICK to \in {fs, Append(fs, "delta")} : Sent(fs, Delta(n) \o <<f>>) = to \o <<f>>
  <2>1. <<f>> \in Seq(Frames) /\ <<f>>[1] # "delta"
    OBVIOUS
  <2> QED
    BY <2>1, SentDelta
<1>2. to \in Seq(Frames)
  BY DEF Frames
<1>3. to \o <<f>> = Append(to, f)
  BY <1>2
<1> QED
  BY <1>1, <1>3

-----------------------------------------------------------------------------
\* The frames a run has sent, by its stage.
FramesOf(r) ==
  LET fs == frames[r]
      at == loop[r].at
  IN
  /\ at \in {"off", "lookup", "replay"} => fs = <<>>
  /\ at \in {"turn", "calls", "fail", "log"} => Silent(fs)
  /\ at \in {"replay", "calls", "log", "fail"} => ~req[r].assist
  /\ at \in {"turn", "calls", "log"} => (Sourced(fs) <=> req[r].assist)
  /\ at = "fail" /\ listening[r] /\ loop[r].sources # <<>> => Sourced(fs)
  /\ at \in {"put", "over"} /\ listening[r] => EndsInTerminal(fs)
  /\ TerminalLast(fs) /\ SourcedOnce(fs)
  /\ fs # <<>> /\ Last(fs) = "done" => Sourced(fs)
  /\ fs # <<>> /\ Last(fs) = "error" /\ loop[r].sources # <<>> => Sourced(fs)

\* GoTo moves a run and keeps what it gathered.
LEMMA GoToFields ==
  ASSUME Shape, NEW r \in Runs, NEW next, GoTo(r, next)
  PROVE  /\ DOMAIN loop' = Runs /\ DOMAIN loop'[r] = Locals
         /\ \A s \in Runs \ {r} : loop'[s] = loop[s]
         /\ loop'[r].at = next /\ loop'[r].sources = loop[r].sources
         /\ loop'[r].answer = loop[r].answer /\ loop'[r].cached = loop[r].cached
         /\ loop'[r].base = loop[r].base /\ loop'[r].fits = loop[r].fits
         /\ next # "over" => loop'[r].text = loop[r].text /\ loop'[r].emitted = loop[r].emitted
         /\ next = "over" => loop'[r].text = 0 /\ loop'[r].emitted = 0
<1> DEFINE l == [loop[r] EXCEPT !.at = next]
<1>1. DOMAIN l = Locals /\ Go(r, l)
  BY DEF Shape, GoTo
<1>2. /\ l.at = next /\ l.sources = loop[r].sources
      /\ l.answer = loop[r].answer /\ l.cached = loop[r].cached
      /\ l.base = loop[r].base /\ l.fits = loop[r].fits
      /\ l.text = loop[r].text /\ l.emitted = loop[r].emitted
  BY DEF Shape, Locals
<1> HIDE DEF l
<1> QED
  BY <1>1, <1>2, GoFields

\* Emit changes one run's frames, if its receiver is there.
LEMMA EmitShape ==
  ASSUME Shape, NEW r \in Runs, NEW fs \in Seq(Frames), Emit(r, fs)
  PROVE  /\ frames' \in [Runs -> Seq(Frames)]
         /\ \A s \in Runs \ {r} : frames'[s] = frames[s]
         /\ frames'[r] = IF listening[r] THEN Sent(frames[r], fs) ELSE frames[r]
<1>1. Sent(frames[r], fs) \in Seq(Frames)
  BY DEF Sent, Shape
<1> QED
  BY <1>1 DEF Shape, Emit

\* Show counts one run's deltas, if its receiver is there.
LEMMA ShowShape ==
  ASSUME Shape, NEW r \in Runs, NEW n \in Nat, Show(r, n)
  PROVE  /\ shown' \in [Runs -> Nat]
         /\ \A s \in Runs \ {r} : shown'[s] = shown[s]
         /\ shown'[r] = IF listening[r] THEN shown[r] + n ELSE shown[r]
  BY DEF Shape, Show

\* What every step of run r leaves alone.
OtherFrames(r) ==
  /\ frames' \in [Runs -> Seq(Frames)]
  /\ \A s \in Runs \ {r} : frames'[s] = frames[s]
OtherShown(r) ==
  /\ shown' \in [Runs -> Nat]
  /\ \A s \in Runs \ {r} : shown'[s] = shown[s]
Others(r) ==
  /\ UNCHANGED <<req, listening>> /\ Shape'
  /\ \A s \in Runs \ {r} :
       loop'[s] = loop[s] /\ frames'[s] = frames[s] /\ shown'[s] = shown[s]

\* What a step of run r keeps of its locals.
KeepsGathered(r) ==
  /\ loop'[r].sources = loop[r].sources /\ loop'[r].answer = loop[r].answer
  /\ loop'[r].cached = loop[r].cached /\ loop'[r].base = loop[r].base
  /\ loop'[r].fits = loop[r].fits
KeepsText(r) == loop'[r].text = loop[r].text /\ loop'[r].emitted = loop[r].emitted

\* A step that goes on with the locals l, as seen from outside.
LEMMA GoEffect ==
  ASSUME Shape, NEW r \in Runs, NEW l, DOMAIN l = Locals, Go(r, l), l.at \in Stages,
         l.text \in Nat, l.emitted \in Nat, l.base \in Nat,
         UNCHANGED <<req, listening>>, DOMAIN answers' = Keys,
         OtherFrames(r), OtherShown(r)
  PROVE  /\ Others(r)
         /\ loop'[r].at = l.at /\ loop'[r].sources = l.sources
         /\ loop'[r].answer = l.answer /\ loop'[r].cached = l.cached
         /\ loop'[r].base = l.base /\ loop'[r].fits = l.fits
         /\ l.at # "over" => loop'[r].text = l.text /\ loop'[r].emitted = l.emitted
<1>1. /\ DOMAIN loop' = Runs /\ DOMAIN loop'[r] = Locals
      /\ \A s \in Runs \ {r} : loop'[s] = loop[s]
      /\ loop'[r].at = l.at /\ loop'[r].sources = l.sources
      /\ loop'[r].answer = l.answer /\ loop'[r].cached = l.cached
      /\ loop'[r].base = l.base /\ loop'[r].fits = l.fits
      /\ l.at # "over" => loop'[r].text = l.text /\ loop'[r].emitted = l.emitted
      /\ loop'[r].text \in Nat /\ loop'[r].emitted \in Nat
  BY GoFields
<1> QED
  BY <1>1 DEF Others, OtherFrames, OtherShown, Shape

\* A step that only moves on, as seen from outside.
LEMMA GoToEffect ==
  ASSUME Shape, NEW r \in Runs, NEW next \in Stages, GoTo(r, next),
         UNCHANGED <<req, listening>>, DOMAIN answers' = Keys,
         OtherFrames(r), OtherShown(r)
  PROVE  /\ Others(r)
         /\ loop'[r].at = next /\ KeepsGathered(r)
         /\ next # "over" => KeepsText(r)
<1>1. /\ DOMAIN loop' = Runs /\ DOMAIN loop'[r] = Locals
      /\ \A s \in Runs \ {r} : loop'[s] = loop[s]
      /\ loop'[r].at = next /\ KeepsGathered(r)
      /\ next # "over" => KeepsText(r)
      /\ loop'[r].text \in Nat /\ loop'[r].emitted \in Nat /\ loop'[r].base \in Nat
  BY GoToFields DEF KeepsGathered, KeepsText, Shape
<1> QED
  BY <1>1 DEF Others, OtherFrames, OtherShown, Shape

\* A step that sends nothing leaves all frames alone.
LEMMA Unsent == Shape /\ UNCHANGED frames => \A r \in Runs : OtherFrames(r)
  BY DEF Shape, OtherFrames

\* A step that shows nothing leaves all counts alone.
LEMMA Unshown == Shape /\ UNCHANGED shown => \A r \in Runs : OtherShown(r)
  BY DEF Shape, OtherShown

\* Logging moves a run on, and touches neither its sources nor its answer.
LEMMA LogAnswerEffect ==
  ASSUME Shape, NEW r \in Runs, NEW next \in Stages, NEW status, LogAnswer(r, status, next),
         UNCHANGED <<req, listening>>, DOMAIN answers' = Keys,
         OtherFrames(r), OtherShown(r)
  PROVE  /\ Others(r)
         /\ loop'[r].at = next /\ KeepsGathered(r)
<1>1. CASE GoTo(r, next)
  BY <1>1, GoToEffect
<1> DEFINE l == [loop[r] EXCEPT !.logId = Len(answerLog) + 1, !.at = next]
<1>2. CASE Go(r, l)
  <2>1. DOMAIN l = Locals
    BY DEF Shape
  <2>2. /\ l.at = next /\ l.sources = loop[r].sources
        /\ l.answer = loop[r].answer /\ l.cached = loop[r].cached
        /\ l.base = loop[r].base /\ l.fits = loop[r].fits
        /\ l.text = loop[r].text /\ l.emitted = loop[r].emitted
    BY DEF Shape, Locals
  <2>3. l.text \in Nat /\ l.emitted \in Nat /\ l.base \in Nat
    BY <2>2 DEF Shape
  <2> HIDE DEF l
  <2> QED
    BY <1>2, <2>1, <2>2, <2>3, GoEffect DEF KeepsGathered
<1> QED
  BY <1>1, <1>2 DEF LogAnswer

-----------------------------------------------------------------------------
(* One lemma for each step of a run: what becomes of its locals and of its  *)
(* frames.                                                                  *)

\* A cached row replaces the answer and the sources.
LEMMA LookupHitEffect ==
  ASSUME Shape, NEW r \in Runs, LookupHit(r)
  PROVE  /\ Others(r) /\ UNCHANGED <<shown, answers>> /\ loop[r].at = "lookup"
         /\ loop'[r].at = IF req[r].assist THEN "over" ELSE "replay"
         /\ loop'[r].cached = TRUE
         /\ frames'[r] = IF req[r].assist /\ listening[r]
                         THEN Append(Append(frames[r], "sources"), "done") ELSE frames[r]
<1> DEFINE l == [loop[r] EXCEPT !.answer = answers[Key(r)].answer, !.cached = TRUE,
                            !.sources = answers[Key(r)].sources,
                            !.at = IF req[r].assist THEN "over" ELSE "replay"]
           fs == IF req[r].assist THEN <<"sources", "done">> ELSE <<>>
<1>1. /\ DOMAIN l = Locals /\ Go(r, l) /\ Emit(r, fs) /\ loop[r].at = "lookup"
      /\ UNCHANGED <<req, listening, shown, answers>>
  BY DEF Shape, LookupHit
<1>2. /\ l.at = IF req[r].assist THEN "over" ELSE "replay"
      /\ l.text \in Nat /\ l.emitted \in Nat /\ l.base \in Nat /\ l.cached = TRUE
  BY DEF Shape, Locals
<1>3. fs \in Seq(Frames)
  <2>1. <<"sources", "done">> \in Seq(Frames) /\ <<>> \in Seq(Frames)
    BY DEF Frames
  <2> QED
    BY <2>1
<1> HIDE DEF l
<1>4. OtherFrames(r) /\ OtherShown(r) /\ DOMAIN answers' = Keys
  BY <1>1, <1>3, EmitShape, Unshown DEF OtherFrames, Shape
<1>5. l.at \in Stages
  BY <1>2 DEF Stages
<1>6. frames[r] \in Seq(Frames)
  BY DEF Shape
<1>7. Sent(frames[r], fs) = IF req[r].assist
        THEN Append(Append(frames[r], "sources"), "done") ELSE frames[r]
  BY <1>6, SentBoth, SentNothing
<1> QED
  BY <1>1, <1>2, <1>3, <1>4, <1>5, <1>7, GoEffect, EmitShape

\* A replay is logged and sent in one piece.
LEMMA ReplayEffect ==
  ASSUME Shape, NEW r \in Runs, Replay(r)
  PROVE  /\ Others(r) /\ UNCHANGED <<shown, answers>> /\ loop[r].at = "replay"
         /\ loop'[r].at = "over" /\ KeepsGathered(r)
         /\ frames'[r] = IF listening[r]
                         THEN Append(Append(frames[r], "sources"), "done") ELSE frames[r]
<1>1. <<"sources", "done">> \in Seq(Frames) /\ "over" \in Stages
  BY DEF Frames, Stages
<1>2. /\ Emit(r, <<"sources", "done">>) /\ UNCHANGED <<req, shown, listening, answers>>
      /\ loop[r].at = "replay" /\ LogAnswer(r, "cached", "over")
  BY DEF Replay
<1>3. OtherFrames(r) /\ OtherShown(r) /\ DOMAIN answers' = Keys
  BY <1>1, <1>2, EmitShape, Unshown DEF OtherFrames, Shape
<1>4. frames[r] \in Seq(Frames)
  BY DEF Shape
<1> QED
  BY <1>1, <1>2, <1>3, <1>4, EmitShape, LogAnswerEffect, SentBoth

\* A logged answer is sent, and may go on to the cache.
LEMMA LogEffect ==
  ASSUME Shape, NEW r \in Runs, Log(r)
  PROVE  /\ Others(r) /\ UNCHANGED <<shown, answers>> /\ loop[r].at = "log"
         /\ loop'[r].at = (IF listening[r] /\ MayCache(r) THEN "put" ELSE "over")
         /\ KeepsGathered(r)
         /\ frames'[r] = IF listening[r]
                         THEN Append(Append(frames[r], "sources"), "done") ELSE frames[r]
<1> DEFINE next == IF listening[r] /\ MayCache(r) THEN "put" ELSE "over"
<1>1. <<"sources", "done">> \in Seq(Frames) /\ next \in Stages
  BY DEF Frames, Stages
<1>2. /\ Emit(r, <<"sources", "done">>) /\ UNCHANGED <<req, shown, listening, answers>>
      /\ loop[r].at = "log" /\ LogAnswer(r, "done", next)
  BY DEF Log
<1>3. OtherFrames(r) /\ OtherShown(r) /\ DOMAIN answers' = Keys
  BY <1>1, <1>2, EmitShape, Unshown DEF OtherFrames, Shape
<1>4. frames[r] \in Seq(Frames)
  BY DEF Shape
<1> HIDE DEF next
<1>5. Others(r) /\ loop'[r].at = next /\ KeepsGathered(r)
  BY <1>1, <1>2, <1>3, LogAnswerEffect
<1> QED
  BY <1>1, <1>2, <1>4, <1>5, EmitShape, SentBoth DEF next

\* A failure is logged and told.
LEMMA FailEffect ==
  ASSUME Shape, NEW r \in Runs, Fail(r)
  PROVE  /\ Others(r) /\ UNCHANGED <<shown, answers>> /\ loop[r].at = "fail"
         /\ loop'[r].at = "over" /\ KeepsGathered(r)
         /\ frames'[r] = IF listening[r] THEN Append(frames[r], "error") ELSE frames[r]
<1>1. "error" \in Frames \ {"delta"} /\ <<"error">> \in Seq(Frames) /\ "over" \in Stages
  BY DEF Frames, Stages
<1>2. /\ Emit(r, <<"error">>) /\ UNCHANGED <<req, shown, listening, answers>>
      /\ loop[r].at = "fail" /\ LogAnswer(r, "error", "over")
  BY DEF Fail
<1>3. OtherFrames(r) /\ OtherShown(r) /\ DOMAIN answers' = Keys
  BY <1>1, <1>2, EmitShape, Unshown DEF OtherFrames, Shape
<1>4. frames[r] \in Seq(Frames)
  BY DEF Shape
<1> QED
  BY <1>1, <1>2, <1>3, <1>4, EmitShape, LogAnswerEffect, SentPlain

\* An assist tells its sources ahead of its only turn.
LEMMA LookupMissEffect ==
  ASSUME Shape, NEW r \in Runs, LookupMiss(r)
  PROVE  /\ Others(r) /\ UNCHANGED <<shown, answers>> /\ loop[r].at = "lookup"
         /\ loop'[r].at = IF req[r].assist /\ ~listening[r] THEN "over" ELSE "turn"
         /\ loop'[r].cached = loop[r].cached /\ loop'[r].base = loop[r].base
         /\ loop'[r].at # "over" => KeepsText(r)
         /\ frames'[r] = IF req[r].assist /\ listening[r]
                         THEN Append(frames[r], "sources") ELSE frames[r]
<1>1. /\ loop[r].at = "lookup" /\ UNCHANGED <<req, shown, listening, answers>>
      /\ OtherShown(r) /\ DOMAIN answers' = Keys /\ frames[r] \in Seq(Frames)
  BY Unshown DEF Shape, LookupMiss
<1>2. CASE req[r].assist
  <2>1. "sources" \in Frames \ {"delta"} /\ <<"sources">> \in Seq(Frames)
    BY DEF Frames
  <2>2. Emit(r, <<"sources">>)
    BY <1>2 DEF LookupMiss
  <2>3. /\ OtherFrames(r)
        /\ frames'[r] = IF listening[r] THEN Append(frames[r], "sources") ELSE frames[r]
    BY <1>1, <2>1, <2>2, EmitShape, SentPlain DEF OtherFrames
  <2>4. PICK given : Go(r, [loop[r] EXCEPT !.sources = given,
                                           !.at = IF listening[r] THEN "turn" ELSE "over"])
    BY <1>2 DEF LookupMiss
  <2> DEFINE l == [loop[r] EXCEPT !.sources = given,
                                  !.at = IF listening[r] THEN "turn" ELSE "over"]
  <2>5. DOMAIN l = Locals /\ Go(r, l)
    BY <2>4 DEF Shape
  <2>6. /\ l.at = IF listening[r] THEN "turn" ELSE "over"
        /\ l.cached = loop[r].cached /\ l.base = loop[r].base
        /\ l.text = loop[r].text /\ l.emitted = loop[r].emitted
        /\ l.text \in Nat /\ l.emitted \in Nat /\ l.base \in Nat
    BY DEF Shape, Locals
  <2> HIDE DEF l
  <2>7. l.at \in Stages
    BY <2>6 DEF Stages
  <2>8. /\ Others(r) /\ loop'[r].at = l.at /\ loop'[r].cached = l.cached
        /\ loop'[r].base = l.base
        /\ l.at # "over" => loop'[r].text = l.text /\ loop'[r].emitted = l.emitted
    BY <1>1, <2>3, <2>5, <2>6, <2>7, GoEffect
  <2> QED
    BY <1>1, <1>2, <2>3, <2>6, <2>8 DEF KeepsText
<1>3. CASE ~req[r].assist
  <2>1. GoTo(r, "turn") /\ UNCHANGED frames /\ "turn" \in Stages
    BY <1>3 DEF LookupMiss, Stages
  <2>2. OtherFrames(r)
    BY <2>1, Unsent
  <2> QED
    BY <1>1, <1>3, <2>1, <2>2, GoToEffect DEF KeepsGathered
<1> QED
  BY <1>2, <1>3

\* How far the cursor is when the window is held back.
Upto(text) == IF text > TailWindow THEN text - TailWindow ELSE 0

\* A piece of text arrives: all but the window goes out.
LEMMA StreamEffect ==
  ASSUME Shape, NEW r \in Runs, loop[r].emitted = Upto(loop[r].text), Stream(r)
  PROVE  /\ Others(r) /\ UNCHANGED answers /\ loop[r].at = "turn"
         /\ loop'[r].at = IF Upto(loop[r].text + 1) > loop[r].emitted /\ ~listening[r]
                          THEN "over" ELSE "turn"
         /\ loop'[r].at # "over" =>
              /\ loop'[r].text = loop[r].text + 1
              /\ loop'[r].emitted = Upto(loop[r].text + 1)
         /\ KeepsGathered(r)
         /\ shown'[r] = IF listening[r]
                        THEN shown[r] + (Upto(loop[r].text + 1) - loop[r].emitted)
                        ELSE shown[r]
         /\ frames'[r] \in {frames[r], Append(frames[r], "delta")}
<1> DEFINE text == loop[r].text + 1
           upto == Upto(text)
           new  == upto > loop[r].emitted
           l    == [loop[r] EXCEPT !.text = text, !.emitted = IF new THEN upto ELSE @,
                                   !.at = IF new /\ ~listening[r] THEN "over" ELSE "turn"]
           n    == IF new THEN upto - loop[r].emitted ELSE 0
           fs   == IF new THEN <<"delta">> ELSE <<>>
<1>1. /\ loop[r].at = "turn" /\ UNCHANGED <<req, listening, answers>>
      /\ DOMAIN answers' = Keys /\ frames[r] \in Seq(Frames)
      /\ loop[r].text \in Nat /\ loop[r].emitted \in Nat /\ loop[r].base \in Nat
  BY DEF Shape, Stream
<1>2. Go(r, l) /\ Emit(r, fs) /\ Show(r, n)
  BY DEF Stream, Upto
<1>3. upto \in Nat /\ n \in Nat /\ n = upto - loop[r].emitted
  BY <1>1, WindowAssumption DEF Upto
<1>4. DOMAIN l = Locals
  BY DEF Shape
<1>5. /\ l.at = IF new /\ ~listening[r] THEN "over" ELSE "turn"
      /\ l.text = text /\ l.emitted = IF new THEN upto ELSE loop[r].emitted
      /\ l.sources = loop[r].sources /\ l.answer = loop[r].answer
      /\ l.cached = loop[r].cached /\ l.base = loop[r].base /\ l.fits = loop[r].fits
  BY DEF Shape, Locals
<1> HIDE DEF l
<1>6. l.at \in Stages /\ l.text \in Nat /\ l.emitted \in Nat /\ l.base \in Nat
  BY <1>1, <1>3, <1>5 DEF Stages
<1>7. fs \in Seq(Frames) /\ fs = Delta(IF new THEN 1 ELSE 0)
  <2>1. fs = Delta(IF new THEN 1 ELSE 0)
    BY DEF Delta
  <2> QED
    BY <2>1, DeltaSeq
<1>8. OtherFrames(r) /\ frames'[r] \in {frames[r], Append(frames[r], "delta")}
  <2>1. Sent(frames[r], fs) \in {frames[r], Append(frames[r], "delta")}
    BY <1>1, <1>7, SentDeltaAlone
  <2> QED
    BY <1>2, <1>7, <2>1, EmitShape DEF OtherFrames
<1>9. OtherShown(r) /\ shown'[r] = IF listening[r] THEN shown[r] + n ELSE shown[r]
  BY <1>2, <1>3, ShowShape DEF OtherShown
<1>10. /\ Others(r) /\ loop'[r].at = l.at /\ loop'[r].sources = l.sources
       /\ loop'[r].answer = l.answer /\ loop'[r].cached = l.cached
       /\ loop'[r].base = l.base /\ loop'[r].fits = l.fits
       /\ l.at # "over" => loop'[r].text = l.text /\ loop'[r].emitted = l.emitted
  BY <1>1, <1>2, <1>4, <1>6, <1>8, <1>9, GoEffect
<1>11. l.emitted = upto
  BY <1>1, <1>3, <1>5
<1> QED
  BY <1>1, <1>3, <1>5, <1>8, <1>9, <1>10, <1>11 DEF KeepsGathered

\* A completion with tool calls sends nothing.
LEMMA TurnCallsToolsEffect ==
  ASSUME Shape, NEW r \in Runs, TurnCallsTools(r)
  PROVE  /\ Others(r) /\ UNCHANGED <<shown, answers>>
         /\ loop[r].at = "turn" /\ ~req[r].assist
         /\ loop'[r].at = "calls" /\ KeepsGathered(r) /\ frames'[r] = frames[r]
<1>1. /\ loop[r].at = "turn" /\ UNCHANGED <<req, frames, shown, listening, answers>>
      /\ DOMAIN answers' = Keys /\ OtherFrames(r) /\ OtherShown(r) /\ ~req[r].assist
  BY Unsent, Unshown DEF Shape, TurnCallsTools, Forced
<1>2. PICK calls : Go(r, [loop[r] EXCEPT !.at = "calls", !.calls = calls])
  BY DEF TurnCallsTools
<1> DEFINE l == [loop[r] EXCEPT !.at = "calls", !.calls = calls]
<1>3. DOMAIN l = Locals /\ Go(r, l)
  BY <1>2 DEF Shape
<1>4. /\ l.at = "calls" /\ l.sources = loop[r].sources
      /\ l.answer = loop[r].answer /\ l.cached = loop[r].cached
      /\ l.base = loop[r].base /\ l.fits = loop[r].fits
      /\ l.text \in Nat /\ l.emitted \in Nat /\ l.base \in Nat
  BY DEF Shape, Locals
<1>5. "calls" \in Stages
  BY DEF Stages
<1> HIDE DEF l
<1> QED
  BY <1>1, <1>3, <1>4, <1>5, GoEffect DEF KeepsGathered

\* The cache write writes the one row of the run's key, or fails.
LEMMA PutEffect ==
  ASSUME Shape, NEW r \in Runs, Put(r)
  PROVE  /\ Others(r) /\ UNCHANGED shown /\ loop[r].at = "put"
         /\ loop'[r].at = "over" /\ KeepsGathered(r) /\ frames'[r] = frames[r]
         /\ \/ answers' = [answers EXCEPT ![Key(r)] =
                 [answer |-> loop[r].answer, sources |-> loop[r].sources]]
            \/ UNCHANGED answers
<1>1. /\ loop[r].at = "put" /\ UNCHANGED <<req, frames, shown, listening>>
      /\ OtherFrames(r) /\ OtherShown(r)
      /\ \/ answers' = [answers EXCEPT ![Key(r)] =
              [answer |-> loop[r].answer, sources |-> loop[r].sources]]
         \/ UNCHANGED answers
      /\ GoTo(r, "over")
  BY Unsent, Unshown DEF Put, Over
<1>2. DOMAIN answers' = Keys /\ "over" \in Stages
  BY <1>1 DEF Shape, Stages
<1> QED
  BY <1>1, <1>2, GoToEffect

\* A failed turn may flush the rest of its text, and tells the sources collected.
LEMMA TurnFailsEffect ==
  ASSUME Shape, NEW r \in Runs, loop[r].emitted = Upto(loop[r].text), TurnFails(r)
  PROVE  /\ Others(r) /\ UNCHANGED answers /\ loop[r].at = "turn"
         /\ loop'[r].at = IF req[r].assist THEN "over" ELSE "fail"
         /\ KeepsGathered(r)
         /\ ~listening[r] => frames'[r] = frames[r]
         /\ listening[r] => \E to \in {frames[r], Append(frames[r], "delta")} :
              frames'[r] = IF req[r].assist THEN Append(to, "error")
                           ELSE IF loop[r].sources # <<>> THEN Append(to, "sources")
                           ELSE to
<1>1. /\ loop[r].at = "turn" /\ UNCHANGED <<req, listening, answers>>
      /\ DOMAIN answers' = Keys /\ frames[r] \in Seq(Frames)
      /\ loop[r].text \in Nat /\ loop[r].emitted \in Nat
  BY DEF Shape, TurnFails
<1>2. PICK flush \in BOOLEAN :
        LET rest == IF flush THEN loop[r].text - loop[r].emitted ELSE 0 IN
        /\ Show(r, rest)
        /\ IF req[r].assist
             THEN Over(r) /\ Emit(r, Delta(rest) \o <<"error">>)
             ELSE GoTo(r, "fail") /\ Emit(r, Delta(rest) \o Collected(r))
  BY DEF TurnFails
<1> DEFINE rest == IF flush THEN loop[r].text - loop[r].emitted ELSE 0
           last == IF req[r].assist THEN <<"error">> ELSE Collected(r)
           fs   == Delta(rest) \o last
<1>3. rest \in Nat
  BY <1>1, WindowAssumption DEF Upto
<1>4. /\ last \in Seq(Frames)
      /\ last # <<>> => last[1] # "delta"
      /\ last = IF req[r].assist THEN <<"error">>
                ELSE IF loop[r].sources # <<>> THEN <<"sources">> ELSE <<>>
  <2>1. <<"error">> \in Seq(Frames) /\ <<"sources">> \in Seq(Frames) /\ <<>> \in Seq(Frames)
    BY DEF Frames
  <2> QED
    BY <2>1 DEF Collected
<1>5. Show(r, rest) /\ Emit(r, fs)
  BY <1>2
<1>6. GoTo(r, IF req[r].assist THEN "over" ELSE "fail")
  BY <1>2 DEF Over
<1> HIDE DEF rest, last
<1>7. PICK to \in {frames[r], Append(frames[r], "delta")} : Sent(frames[r], fs) = to \o last
  BY <1>1, <1>4, SentDelta
<1>8. fs \in Seq(Frames)
  BY <1>4, DeltaSeq
<1>9. to \in Seq(Frames)
  BY <1>1 DEF Frames
<1>10. to \o last = IF req[r].assist THEN Append(to, "error")
                    ELSE IF loop[r].sources # <<>> THEN Append(to, "sources")
                    ELSE to
  BY <1>4, <1>9, ConcatEmptySeq
<1>11. OtherFrames(r) /\ OtherShown(r)
  BY <1>3, <1>5, <1>8, EmitShape, ShowShape DEF OtherFrames, OtherShown
<1>12. /\ Others(r) /\ KeepsGathered(r)
       /\ loop'[r].at = IF req[r].assist THEN "over" ELSE "fail"
  <2>1. "over" \in Stages /\ "fail" \in Stages
    BY DEF Stages
  <2> QED
    BY <1>1, <1>6, <1>11, <2>1, GoToEffect
<1>13. frames'[r] = IF listening[r] THEN to \o last ELSE frames[r]
  BY <1>5, <1>7, <1>8, EmitShape
<1> QED
  BY <1>1, <1>10, <1>12, <1>13

\* The last completion sends the rest of the body and keeps the answer.
LEMMA TurnAnswersEffect ==
  ASSUME Shape, NEW r \in Runs, loop[r].emitted = Upto(loop[r].text), TurnAnswers(r)
  PROVE  /\ Others(r) /\ UNCHANGED answers /\ loop[r].at = "turn"
         /\ loop'[r].sources = loop[r].sources /\ loop'[r].cached = loop[r].cached
         /\ loop'[r].base = loop[r].base
         /\ \E cites :
              /\ loop'[r].answer = [by |-> r, cites |-> cites, len |-> loop'[r].answer.len]
              /\ \/ loop'[r].at = "over" /\ ~listening[r]
                 \/ loop'[r].at = IF req[r].assist THEN AssistEnd(r, cites) ELSE "log"
         /\ listening[r] /\ loop'[r].fits =>
              loop'[r].answer.len \in Nat
                /\ shown'[r] = shown[r] + (loop'[r].answer.len - loop[r].emitted)
         /\ ~listening[r] => frames'[r] = frames[r]
         /\ listening[r] => \E to \in {frames[r], Append(frames[r], "delta")} :
              frames'[r] = IF req[r].assist THEN Append(to, "done") ELSE to
<1>1. /\ loop[r].at = "turn" /\ UNCHANGED <<req, listening, answers>>
      /\ DOMAIN answers' = Keys /\ frames[r] \in Seq(Frames)
      /\ loop[r].text \in Nat /\ loop[r].emitted \in Nat /\ loop[r].base \in Nat
      /\ shown[r] \in Nat
  BY DEF Shape, TurnAnswers
<1>2. PICK tail \in 0..loop[r].text, fenced \in BOOLEAN, cites \in Citings :
       LET len  == Body(loop[r].text, tail, fenced)
           rest == IF len > loop[r].emitted THEN len - loop[r].emitted ELSE 0
           ends == IF req[r].assist THEN <<"done">> ELSE <<>>
       IN /\ len = 0 <=> cites = {}
          /\ Show(r, rest) /\ Emit(r, Delta(rest) \o ends)
          /\ Go(r, [loop[r] EXCEPT !.answer = [by |-> r, cites |-> cites, len |-> len],
                                   !.fits = tail <= TailWindow,
                                   !.at = IF rest > 0 /\ ~listening[r] THEN "over"
                                          ELSE IF ~req[r].assist THEN "log"
                                          ELSE AssistEnd(r, cites)])
  BY DEF TurnAnswers
<1> DEFINE len  == Body(loop[r].text, tail, fenced)
           rest == IF len > loop[r].emitted THEN len - loop[r].emitted ELSE 0
           ends == IF req[r].assist THEN <<"done">> ELSE <<>>
           fs   == Delta(rest) \o ends
           goes == IF rest > 0 /\ ~listening[r] THEN "over"
                   ELSE IF ~req[r].assist THEN "log" ELSE AssistEnd(r, cites)
           l    == [loop[r] EXCEPT !.answer = [by |-> r, cites |-> cites, len |-> len],
                                   !.fits = tail <= TailWindow, !.at = goes]
<1>3. /\ len \in Nat /\ rest \in Nat
      /\ tail <= TailWindow => len >= loop[r].emitted
  BY SMTT(30), <1>1, WindowAssumption DEF Body, Upto
<1>4. Show(r, rest) /\ Emit(r, fs) /\ Go(r, l)
  BY <1>2
<1>5. /\ ends \in Seq(Frames)
      /\ ends # <<>> => ends[1] # "delta"
  <2>1. <<"done">> \in Seq(Frames) /\ <<>> \in Seq(Frames)
    BY DEF Frames
  <2> QED
    BY <2>1
<1>6. goes \in Stages /\ (goes = "over" => ~listening[r] \/ goes = AssistEnd(r, cites))
  BY DEF AssistEnd, Stages
<1>7. /\ l.at = goes /\ l.sources = loop[r].sources
      /\ l.answer = [by |-> r, cites |-> cites, len |-> len]
      /\ l.cached = loop[r].cached /\ l.base = loop[r].base /\ l.fits = (tail <= TailWindow)
      /\ l.text = loop[r].text /\ l.emitted = loop[r].emitted
  BY DEF Shape, Locals
<1>8. DOMAIN l = Locals
  BY DEF Shape
<1>9. \/ goes = "over" /\ ~listening[r]
      \/ goes = IF req[r].assist THEN AssistEnd(r, cites) ELSE "log"
  OBVIOUS
<1>10. tail <= TailWindow => rest = len - loop[r].emitted
  BY <1>1, <1>3
<1>11. ends = IF req[r].assist THEN <<"done">> ELSE <<>>
  OBVIOUS
<1> HIDE DEF l, len, rest, ends, goes
<1>12. fs \in Seq(Frames)
  BY <1>5, DeltaSeq
<1>13. PICK to \in {frames[r], Append(frames[r], "delta")} : Sent(frames[r], fs) = to \o ends
  BY <1>1, <1>5, SentDelta
<1>14. to \o ends = IF req[r].assist THEN Append(to, "done") ELSE to
  <2>1. to \in Seq(Frames)
    <3>1. "delta" \in Frames /\ frames[r] \in Seq(Frames)
      BY <1>1 DEF Frames
    <3> QED
      BY <3>1
  <2>2. to \o <<"done">> = Append(to, "done") /\ to \o <<>> = to
    BY <2>1, ConcatEmptySeq
  <2> QED
    BY <1>11, <2>2
<1>15. OtherFrames(r) /\ OtherShown(r)
  BY <1>3, <1>4, <1>12, EmitShape, ShowShape DEF OtherFrames, OtherShown
<1>16. /\ Others(r) /\ loop'[r].at = goes /\ loop'[r].sources = loop[r].sources
       /\ loop'[r].answer = l.answer /\ loop'[r].cached = loop[r].cached
       /\ loop'[r].base = loop[r].base /\ loop'[r].fits = l.fits
  BY <1>1, <1>4, <1>6, <1>7, <1>8, <1>15, GoEffect
<1>17. frames'[r] = IF listening[r] THEN to \o ends ELSE frames[r]
  BY <1>4, <1>12, <1>13, EmitShape
<1>18. listening[r] => shown'[r] = shown[r] + rest
  BY <1>3, <1>4, ShowShape
<1>19. loop'[r].answer.len = len
  BY <1>7, <1>16
<1>20. loop'[r].fits <=> tail <= TailWindow
  BY <1>7, <1>16
<1> QED
  BY <1>1, <1>3, <1>7, <1>9, <1>10, <1>13, <1>14, <1>16, <1>17, <1>18, <1>19, <1>20

\* After a tool call: the next call, or the next turn from an empty text.
LEMMA CalledEffect ==
  ASSUME Shape, NEW r \in Runs, NEW l, DOMAIN l = Locals, Called(r, l), l.at = "calls",
         l.text \in Nat, l.emitted \in Nat, l.base \in Nat,
         UNCHANGED <<req, shown, listening, answers>>, OtherFrames(r)
  PROVE  /\ Others(r)
         /\ loop'[r].at \in {"calls", "turn"} /\ loop'[r].cached = l.cached
         /\ loop'[r].at = "turn" =>
              loop'[r].text = 0 /\ loop'[r].emitted = 0 /\ loop'[r].base = shown[r]
<1>1. DOMAIN answers' = Keys /\ OtherShown(r) /\ shown[r] \in Nat
  BY Unshown DEF Shape
<1> DEFINE more == [l EXCEPT !.calls = Tail(@)]
           next == [l EXCEPT !.calls = <<>>, !.at = "turn", !.turn = @ + 1,
                             !.text = 0, !.emitted = 0, !.base = shown[r]]
<1>2. Go(r, more) \/ Go(r, next)
  BY DEF Called
<1>3. "calls" \in Stages /\ "turn" \in Stages
  BY DEF Stages
<1>4. CASE Go(r, more)
  <2>1. DOMAIN more = Locals
    OBVIOUS
  <2>2. /\ more.at = "calls" /\ more.cached = l.cached
        /\ more.text \in Nat /\ more.emitted \in Nat /\ more.base \in Nat
    BY DEF Locals
  <2> HIDE DEF more
  <2> QED
    BY <1>1, <1>3, <1>4, <2>1, <2>2, GoEffect
<1>5. CASE Go(r, next)
  <2>1. DOMAIN next = Locals
    OBVIOUS
  <2>2. /\ next.at = "turn" /\ next.cached = l.cached /\ next.base = shown[r]
        /\ next.text = 0 /\ next.emitted = 0
    BY DEF Locals
  <2> HIDE DEF next
  <2> QED
    BY <1>1, <1>3, <1>5, <2>1, <2>2, GoEffect
<1> QED
  BY <1>2, <1>4, <1>5

\* A tool call is told as a step, and may add sources.
LEMMA CallEffect ==
  ASSUME Shape, NEW r \in Runs, Call(r)
  PROVE  /\ Others(r) /\ UNCHANGED <<shown, answers>> /\ loop[r].at = "calls"
         /\ loop'[r].cached = loop[r].cached
         /\ \/ loop'[r].at = "over" /\ ~listening[r] /\ frames'[r] = frames[r]
            \/ /\ loop'[r].at \in {"calls", "turn"}
               /\ loop'[r].at = "turn" =>
                    loop'[r].text = 0 /\ loop'[r].emitted = 0 /\ loop'[r].base = shown[r]
               /\ frames'[r] = Append(frames[r], "step")
<1>1. /\ loop[r].at = "calls" /\ Emit(r, <<"step">>)
      /\ UNCHANGED <<req, shown, listening, answers>>
      /\ DOMAIN answers' = Keys /\ frames[r] \in Seq(Frames) /\ OtherShown(r)
      /\ loop[r].text \in Nat /\ loop[r].emitted \in Nat /\ loop[r].base \in Nat
  BY Unshown DEF Shape, Call
<1>2. "step" \in Frames \ {"delta"} /\ <<"step">> \in Seq(Frames) /\ "over" \in Stages
  BY DEF Frames, Stages
<1>3. /\ OtherFrames(r)
      /\ frames'[r] = IF listening[r] THEN Append(frames[r], "step") ELSE frames[r]
  BY <1>1, <1>2, EmitShape, SentPlain DEF OtherFrames
<1> DEFINE call == Head(loop[r].calls)
           seen == [loop[r] EXCEPT !.visited = @ \cup {call}]
           ran(found) == [seen EXCEPT !.executed = Append(@, call),
                                      !.sources = Pool(@, found)]
<1>4. \/ ~listening[r] /\ Over(r)
      \/ listening[r] /\ Called(r, seen)
      \/ listening[r] /\ \E found \in Findings : Called(r, ran(found))
  BY DEF Call
<1>5. CASE ~listening[r] /\ Over(r)
  BY <1>1, <1>2, <1>3, <1>5, GoToEffect DEF Over, KeepsGathered
<1>6. /\ DOMAIN seen = Locals /\ seen.at = "calls" /\ seen.cached = loop[r].cached
      /\ seen.text \in Nat /\ seen.emitted \in Nat /\ seen.base \in Nat
  BY <1>1 DEF Shape, Locals
<1>7. CASE listening[r] /\ Called(r, seen)
  <2> HIDE DEF seen
  <2> QED
    BY <1>1, <1>3, <1>6, <1>7, CalledEffect
<1>8. CASE listening[r] /\ \E found \in Findings : Called(r, ran(found))
  <2>1. PICK found \in Findings : Called(r, ran(found))
    BY <1>8
  <2> DEFINE l == ran(found)
  <2>2. /\ DOMAIN l = Locals /\ l.at = "calls" /\ l.cached = loop[r].cached
        /\ l.text \in Nat /\ l.emitted \in Nat /\ l.base \in Nat
    <3> HIDE DEF seen
    <3> QED
      BY <1>6 DEF Locals
  <2>3. Called(r, l)
    BY <2>1
  <2> HIDE DEF l, ran
  <2> QED
    BY <1>1, <1>3, <1>8, <2>2, <2>3, CalledEffect
<1> QED
  BY <1>4, <1>5, <1>7, <1>8

-----------------------------------------------------------------------------
(* What a run's own state says at every point.                              *)

\* The answer text shown, by stage: before the last turn `base', in it as far as
\* the cursor, after it the whole answer.
TextOf(r) ==
  LET fs == frames[r]
      at == loop[r].at
  IN
  /\ at \in {"off", "lookup"} =>
       shown[r] = 0 /\ loop[r].base = 0 /\ loop[r].text = 0 /\ loop[r].emitted = 0
  /\ at = "replay" => loop[r].cached
  /\ at = "turn" => loop[r].emitted = Upto(loop[r].text)
  /\ at = "turn" /\ listening[r] => shown[r] = loop[r].base + loop[r].emitted
  /\ at = "log" /\ listening[r] /\ loop[r].fits =>
       shown[r] - loop[r].base = loop[r].answer.len
  /\ fs # <<>> /\ Last(fs) = "done" /\ ~loop[r].cached /\ loop[r].fits =>
       shown[r] - loop[r].base = loop[r].answer.len

\* The answer a run holds is its own, and goes to the cache only if it may.
AnswerOf(r) ==
  /\ loop[r].at = "log" => loop[r].answer.by = r
  /\ loop[r].at = "put" =>
       /\ loop[r].answer.by = r /\ (req[r].multi => req[r].assist)
       /\ Grounded(loop[r].answer.cites, Len(loop[r].sources))

RunInv(r) == FramesOf(r) /\ TextOf(r) /\ AnswerOf(r)

\* A silent stream does not end in a terminal frame.
LEMMA Silences ==
  ASSUME NEW fs \in Seq(Frames), Silent(fs)
  PROVE  TerminalLast(fs) /\ (fs # <<>> => Last(fs) \notin {"done", "error"})
<1>1. fs # <<>> => Len(fs) \in 1..Len(fs)
  OBVIOUS
<1> QED
  BY <1>1 DEF Silent, TerminalLast, Last, Terminal

\* The empty stream is in order.
LEMMA Nothing == Silent(<<>>) /\ ~Sourced(<<>>) /\ SourcedOnce(<<>>) /\ TerminalLast(<<>>)
  BY DEF Silent, Sourced, SourcedOnce, TerminalLast, Contains

\* A run keeps its promise while another one steps.
LEMMA Bystander ==
  ASSUME NEW r \in Runs, NEW s \in Runs \ {r}, Others(r), RunInv(s)
  PROVE  RunInv(s)'
<1>1. /\ loop'[s] = loop[s] /\ frames'[s] = frames[s] /\ shown'[s] = shown[s]
      /\ req' = req /\ listening' = listening
  BY DEF Others
<1>2. FramesOf(s)'
  BY <1>1 DEF RunInv, FramesOf
<1>3. TextOf(s)'
  BY <1>1 DEF RunInv, TextOf
<1>4. AnswerOf(s)'
  BY <1>1 DEF RunInv, AnswerOf
<1> QED
  BY <1>2, <1>3, <1>4 DEF RunInv

\* A cached row keeps the run's promise: its text is not this run's.
LEMMA LookupHitRun ==
  ASSUME Shape, NEW r \in Runs, RunInv(r), LookupHit(r)
  PROVE  RunInv(r)'
<1> DEFINE gs == Append(Append(frames[r], "sources"), "done")
<1>1. /\ Others(r) /\ UNCHANGED <<shown, answers>> /\ loop[r].at = "lookup"
      /\ loop'[r].at = IF req[r].assist THEN "over" ELSE "replay"
      /\ loop'[r].cached = TRUE
      /\ frames'[r] = IF req[r].assist /\ listening[r] THEN gs ELSE frames[r]
  BY LookupHitEffect
<1>2. frames[r] = <<>> /\ frames[r] \in Seq(Frames) /\ req' = req /\ listening' = listening
  BY <1>1 DEF Shape, RunInv, FramesOf, Others
<1>3. /\ gs # <<>> /\ Last(gs) = "done" /\ TerminalLast(gs) /\ SourcedOnce(gs) /\ Sourced(gs)
  BY <1>2, Nothing, SentBothShape
<1> HIDE DEF gs
<1>4. FramesOf(r)'
  BY <1>1, <1>2, <1>3, Nothing DEF FramesOf, EndsInTerminal, Terminal
<1>5. TextOf(r)' /\ AnswerOf(r)'
  BY <1>1, <1>2 DEF TextOf, AnswerOf
<1> QED
  BY <1>4, <1>5 DEF RunInv

\* A run that goes to the provider has shown nothing yet.
LEMMA LookupMissRun ==
  ASSUME Shape, NEW r \in Runs, RunInv(r), LookupMiss(r)
  PROVE  RunInv(r)'
<1> DEFINE gs == Append(frames[r], "sources")
<1>1. /\ Others(r) /\ UNCHANGED <<shown, answers>> /\ loop[r].at = "lookup"
      /\ loop'[r].at = IF req[r].assist /\ ~listening[r] THEN "over" ELSE "turn"
      /\ loop'[r].cached = loop[r].cached /\ loop'[r].base = loop[r].base
      /\ loop'[r].at # "over" => KeepsText(r)
      /\ frames'[r] = IF req[r].assist /\ listening[r] THEN gs ELSE frames[r]
  BY LookupMissEffect
<1>2. frames[r] = <<>> /\ frames[r] \in Seq(Frames) /\ req' = req /\ listening' = listening
  BY <1>1 DEF Shape, RunInv, FramesOf, Others
<1>3. "sources" \in Frames /\ "sources" \notin Terminal
  BY DEF Frames, Terminal
<1>4. gs \in Seq(Frames) /\ Silent(gs) /\ SourcedOnce(gs) /\ Sourced(gs) /\ Last(gs) = "sources"
  BY <1>2, <1>3, Nothing, SentAppend
<1>5. TerminalLast(gs)
  BY <1>4, Silences
<1> HIDE DEF gs
<1>6. FramesOf(r)'
  BY <1>1, <1>2, <1>4, <1>5, Nothing DEF FramesOf
<1>7. TextOf(r)'
  <2>1. Upto(0) = 0
    BY WindowAssumption DEF Upto
  <2>2. shown[r] = 0 /\ loop[r].base = 0 /\ loop[r].text = 0 /\ loop[r].emitted = 0
    BY <1>1 DEF RunInv, TextOf
  <2> QED
    BY <1>1, <1>2, <1>4, <2>1, <2>2 DEF TextOf, KeepsText
<1>8. AnswerOf(r)'
  BY <1>1 DEF AnswerOf
<1> QED
  BY <1>6, <1>7, <1>8 DEF RunInv

\* A replayed answer ends in done, after its sources.
LEMMA ReplayRun ==
  ASSUME Shape, NEW r \in Runs, RunInv(r), Replay(r)
  PROVE  RunInv(r)'
<1> DEFINE gs == Append(Append(frames[r], "sources"), "done")
<1>1. /\ Others(r) /\ UNCHANGED <<shown, answers>> /\ loop[r].at = "replay"
      /\ loop'[r].at = "over" /\ KeepsGathered(r)
      /\ frames'[r] = IF listening[r] THEN gs ELSE frames[r]
  BY ReplayEffect
<1>2. frames[r] = <<>> /\ frames[r] \in Seq(Frames) /\ req' = req /\ listening' = listening
  BY <1>1 DEF Shape, RunInv, FramesOf, Others
<1>3. /\ gs # <<>> /\ Last(gs) = "done" /\ TerminalLast(gs) /\ SourcedOnce(gs) /\ Sourced(gs)
  BY <1>2, Nothing, SentBothShape
<1> HIDE DEF gs
<1>4. FramesOf(r)'
  BY <1>1, <1>2, <1>3, Nothing DEF FramesOf, EndsInTerminal, Terminal
<1>5. loop'[r].cached
  BY <1>1 DEF RunInv, TextOf, KeepsGathered
<1>6. TextOf(r)' /\ AnswerOf(r)'
  BY <1>1, <1>2, <1>5 DEF TextOf, AnswerOf
<1> QED
  BY <1>4, <1>6 DEF RunInv

\* Done is sent after the sources, and the run may be cached only if its
\* question had no history.
LEMMA LogRun ==
  ASSUME Shape, NEW r \in Runs, RunInv(r), Log(r)
  PROVE  RunInv(r)'
<1> DEFINE gs == Append(Append(frames[r], "sources"), "done")
<1>1. /\ Others(r) /\ UNCHANGED <<shown, answers>> /\ loop[r].at = "log"
      /\ loop'[r].at = (IF listening[r] /\ MayCache(r) THEN "put" ELSE "over")
      /\ KeepsGathered(r)
      /\ frames'[r] = IF listening[r] THEN gs ELSE frames[r]
  BY LogEffect
<1>2. /\ frames[r] \in Seq(Frames) /\ req' = req /\ listening' = listening
      /\ Silent(frames[r]) /\ ~Sourced(frames[r]) /\ SourcedOnce(frames[r])
  BY <1>1 DEF Shape, RunInv, FramesOf, Others
<1>3. /\ gs # <<>> /\ Last(gs) = "done" /\ TerminalLast(gs) /\ SourcedOnce(gs) /\ Sourced(gs)
  BY <1>2, SentBothShape
<1>4. TerminalLast(frames[r]) /\ (frames[r] # <<>> => Last(frames[r]) \notin {"done", "error"})
  BY <1>2, Silences
<1> HIDE DEF gs
<1>5. FramesOf(r)'
  BY <1>1, <1>2, <1>3, <1>4 DEF FramesOf, EndsInTerminal, Terminal
<1>6. TextOf(r)'
  BY <1>1, <1>2, <1>3, <1>4 DEF TextOf, RunInv, KeepsGathered
<1>7. AnswerOf(r)'
  BY <1>1, <1>2 DEF AnswerOf, RunInv, KeepsGathered, MayCache
<1> QED
  BY <1>5, <1>6, <1>7 DEF RunInv

\* An error ends the stream, after the sources collected.
LEMMA FailRun ==
  ASSUME Shape, NEW r \in Runs, RunInv(r), Fail(r)
  PROVE  RunInv(r)'
<1> DEFINE gs == Append(frames[r], "error")
<1>1. /\ Others(r) /\ UNCHANGED <<shown, answers>> /\ loop[r].at = "fail"
      /\ loop'[r].at = "over" /\ KeepsGathered(r)
      /\ frames'[r] = IF listening[r] THEN gs ELSE frames[r]
  BY FailEffect
<1>2. /\ frames[r] \in Seq(Frames) /\ req' = req /\ listening' = listening
      /\ Silent(frames[r]) /\ SourcedOnce(frames[r])
      /\ listening[r] /\ loop[r].sources # <<>> => Sourced(frames[r])
  BY <1>1 DEF Shape, RunInv, FramesOf, Others
<1>3. "error" \in Frames /\ "error" # "sources" /\ "error" \in Terminal
  BY DEF Frames, Terminal
<1>4. /\ gs # <<>> /\ Last(gs) = "error" /\ TerminalLast(gs) /\ SourcedOnce(gs)
      /\ Sourced(gs) <=> Sourced(frames[r])
  BY <1>2, <1>3, SentAppend
<1>5. TerminalLast(frames[r]) /\ (frames[r] # <<>> => Last(frames[r]) \notin {"done", "error"})
  BY <1>2, Silences
<1> HIDE DEF gs
<1>6. FramesOf(r)'
  BY <1>1, <1>2, <1>3, <1>4, <1>5 DEF FramesOf, EndsInTerminal, KeepsGathered
<1>7. TextOf(r)' /\ AnswerOf(r)'
  BY <1>1, <1>2, <1>4, <1>5 DEF TextOf, AnswerOf
<1> QED
  BY <1>6, <1>7 DEF RunInv

\* What is shown follows the cursor.
LEMMA StreamRun ==
  ASSUME Shape, NEW r \in Runs, RunInv(r), Stream(r)
  PROVE  RunInv(r)'
<1>1. loop[r].at = "turn" /\ loop[r].emitted = Upto(loop[r].text)
  BY DEF Stream, RunInv, TextOf
<1>2. /\ Others(r)
      /\ loop'[r].at = IF Upto(loop[r].text + 1) > loop[r].emitted /\ ~listening[r]
                       THEN "over" ELSE "turn"
      /\ loop'[r].at # "over" =>
           /\ loop'[r].text = loop[r].text + 1
           /\ loop'[r].emitted = Upto(loop[r].text + 1)
      /\ KeepsGathered(r)
      /\ shown'[r] = IF listening[r]
                     THEN shown[r] + (Upto(loop[r].text + 1) - loop[r].emitted)
                     ELSE shown[r]
      /\ frames'[r] \in {frames[r], Append(frames[r], "delta")}
  BY <1>1, StreamEffect
<1>3. /\ frames[r] \in Seq(Frames) /\ req' = req /\ listening' = listening
      /\ Silent(frames[r]) /\ SourcedOnce(frames[r])
      /\ Sourced(frames[r]) <=> req[r].assist
      /\ loop[r].emitted \in Nat /\ loop[r].base \in Nat /\ Upto(loop[r].text + 1) \in Nat
      /\ loop[r].emitted <= Upto(loop[r].text + 1)
  BY SMTT(30), <1>1, <1>2, WindowAssumption DEF Shape, RunInv, FramesOf, Others, Upto
<1>4. "delta" \in Frames /\ "delta" # "sources" /\ "delta" \notin Terminal
  BY DEF Frames, Terminal
<1>5. /\ frames'[r] \in Seq(Frames) /\ Silent(frames'[r]) /\ SourcedOnce(frames'[r])
      /\ Sourced(frames'[r]) <=> Sourced(frames[r])
  <2> DEFINE gs == Append(frames[r], "delta")
  <2>1. /\ gs \in Seq(Frames) /\ Silent(gs) /\ SourcedOnce(gs)
        /\ Sourced(gs) <=> Sourced(frames[r])
    BY <1>3, <1>4, SentAppend
  <2> HIDE DEF gs
  <2>2. frames'[r] \in {frames[r], gs}
    BY <1>2 DEF gs
  <2> QED
    BY <1>3, <2>1, <2>2
<1>6. /\ TerminalLast(frames'[r])
      /\ frames'[r] # <<>> => Last(frames'[r]) \notin {"done", "error"}
  BY <1>5, Silences
<1>7. FramesOf(r)'
  BY <1>2, <1>3, <1>5, <1>6 DEF FramesOf
<1>8. TextOf(r)'
  BY <1>1, <1>2, <1>3, <1>6 DEF TextOf, RunInv, KeepsGathered
<1>9. AnswerOf(r)'
  BY <1>2 DEF AnswerOf
<1> QED
  BY <1>7, <1>8, <1>9 DEF RunInv

\* Tool calls end no stream.
LEMMA TurnCallsToolsRun ==
  ASSUME Shape, NEW r \in Runs, RunInv(r), TurnCallsTools(r)
  PROVE  RunInv(r)'
<1>1. /\ Others(r) /\ UNCHANGED <<shown, answers>>
      /\ loop[r].at = "turn" /\ ~req[r].assist
      /\ loop'[r].at = "calls" /\ KeepsGathered(r) /\ frames'[r] = frames[r]
  BY TurnCallsToolsEffect
<1>2. /\ frames[r] \in Seq(Frames) /\ req' = req /\ listening' = listening
      /\ Silent(frames[r])
  BY <1>1 DEF Shape, RunInv, FramesOf, Others
<1>3. frames[r] # <<>> => Last(frames[r]) \notin {"done", "error"}
  BY <1>2, Silences
<1>4. FramesOf(r)'
  BY <1>1, <1>2, <1>3 DEF FramesOf, RunInv
<1>5. TextOf(r)' /\ AnswerOf(r)'
  BY <1>1, <1>3 DEF TextOf, AnswerOf
<1> QED
  BY <1>4, <1>5 DEF RunInv

\* The cache write ends the run.
LEMMA PutRun ==
  ASSUME Shape, NEW r \in Runs, RunInv(r), Put(r)
  PROVE  RunInv(r)'
<1>1. /\ Others(r) /\ UNCHANGED shown /\ loop[r].at = "put"
      /\ loop'[r].at = "over" /\ KeepsGathered(r) /\ frames'[r] = frames[r]
  BY PutEffect
<1>2. req' = req /\ listening' = listening
  BY <1>1 DEF Others
<1>3. FramesOf(r)'
  BY <1>1, <1>2 DEF FramesOf, RunInv, KeepsGathered
<1>4. TextOf(r)' /\ AnswerOf(r)'
  BY <1>1, <1>2 DEF TextOf, AnswerOf, RunInv, KeepsGathered
<1> QED
  BY <1>3, <1>4 DEF RunInv

\* A failed turn of an assist ends its stream; the search loop's goes on to
\* its error, its sources told.
LEMMA TurnFailsRun ==
  ASSUME Shape, NEW r \in Runs, RunInv(r), TurnFails(r)
  PROVE  RunInv(r)'
<1>1. loop[r].at = "turn" /\ loop[r].emitted = Upto(loop[r].text)
  BY DEF TurnFails, RunInv, TextOf
<1>2. /\ Others(r)
      /\ loop'[r].at = IF req[r].assist THEN "over" ELSE "fail"
      /\ KeepsGathered(r)
      /\ ~listening[r] => frames'[r] = frames[r]
      /\ listening[r] => \E to \in {frames[r], Append(frames[r], "delta")} :
           frames'[r] = IF req[r].assist THEN Append(to, "error")
                        ELSE IF loop[r].sources # <<>> THEN Append(to, "sources")
                        ELSE to
  BY <1>1, TurnFailsEffect
<1>3. /\ frames[r] \in Seq(Frames) /\ req' = req /\ listening' = listening
      /\ Silent(frames[r]) /\ SourcedOnce(frames[r])
      /\ Sourced(frames[r]) <=> req[r].assist
  BY <1>1, <1>2 DEF Shape, RunInv, FramesOf, Others
<1>4. /\ TerminalLast(frames[r])
      /\ frames[r] # <<>> => Last(frames[r]) \notin {"done", "error"}
  BY <1>3, Silences
<1>5. /\ "delta" \in Frames /\ "delta" # "sources" /\ "delta" \notin Terminal
      /\ "error" \in Frames /\ "error" # "sources" /\ "error" \in Terminal
      /\ "sources" \in Frames /\ "sources" \notin Terminal
  BY DEF Frames, Terminal
<1>6. CASE ~listening[r]
  <2>1. FramesOf(r)'
    BY <1>2, <1>3, <1>4, <1>6 DEF FramesOf, EndsInTerminal
  <2>2. TextOf(r)' /\ AnswerOf(r)'
    BY <1>2, <1>3, <1>4, <1>6 DEF TextOf, AnswerOf
  <2> QED
    BY <2>1, <2>2 DEF RunInv
<1>7. CASE listening[r]
  <2>1. PICK to \in {frames[r], Append(frames[r], "delta")} :
          frames'[r] = IF req[r].assist THEN Append(to, "error")
                       ELSE IF loop[r].sources # <<>> THEN Append(to, "sources")
                       ELSE to
    BY <1>2, <1>7
  <2>2. /\ to \in Seq(Frames) /\ Silent(to) /\ SourcedOnce(to)
        /\ Sourced(to) <=> req[r].assist
    BY <1>3, <1>5, SentAppend
  <2>3. CASE req[r].assist
    <3>1. /\ frames'[r] # <<>> /\ Last(frames'[r]) = "error" /\ TerminalLast(frames'[r])
          /\ SourcedOnce(frames'[r]) /\ Sourced(frames'[r])
      BY <1>5, <2>1, <2>2, <2>3, SentAppend
    <3>2. FramesOf(r)'
      BY <1>2, <1>3, <1>5, <2>3, <3>1 DEF FramesOf, EndsInTerminal
    <3>3. TextOf(r)' /\ AnswerOf(r)'
      BY <1>2, <2>3, <3>1 DEF TextOf, AnswerOf
    <3> QED
      BY <3>2, <3>3 DEF RunInv
  <2>4. CASE ~req[r].assist
    <3>1. /\ Silent(frames'[r]) /\ SourcedOnce(frames'[r]) /\ frames'[r] \in Seq(Frames)
          /\ loop[r].sources # <<>> => Sourced(frames'[r])
      BY <1>5, <2>1, <2>2, <2>4, SentAppend
    <3>2. /\ TerminalLast(frames'[r])
          /\ frames'[r] # <<>> => Last(frames'[r]) \notin {"done", "error"}
      BY <3>1, Silences
    <3>3. FramesOf(r)'
      BY <1>2, <1>3, <2>4, <3>1, <3>2 DEF FramesOf, KeepsGathered
    <3>4. TextOf(r)' /\ AnswerOf(r)'
      BY <1>2, <2>4, <3>2 DEF TextOf, AnswerOf
    <3> QED
      BY <3>3, <3>4 DEF RunInv
  <2> QED
    BY <2>3, <2>4
<1> QED
  BY <1>6, <1>7

\* The rest of the body completes what was shown to the answer.
LEMMA TurnAnswersRun ==
  ASSUME Shape, NEW r \in Runs, RunInv(r), TurnAnswers(r)
  PROVE  RunInv(r)'
<1>1. loop[r].at = "turn" /\ loop[r].emitted = Upto(loop[r].text)
  BY DEF TurnAnswers, RunInv, TextOf
<1>2. /\ Others(r)
      /\ loop'[r].sources = loop[r].sources /\ loop'[r].cached = loop[r].cached
      /\ loop'[r].base = loop[r].base
      /\ listening[r] /\ loop'[r].fits =>
           loop'[r].answer.len \in Nat
             /\ shown'[r] = shown[r] + (loop'[r].answer.len - loop[r].emitted)
      /\ ~listening[r] => frames'[r] = frames[r]
      /\ listening[r] => \E to \in {frames[r], Append(frames[r], "delta")} :
           frames'[r] = IF req[r].assist THEN Append(to, "done") ELSE to
  BY <1>1, TurnAnswersEffect
<1>3. PICK cites :
        /\ loop'[r].answer = [by |-> r, cites |-> cites, len |-> loop'[r].answer.len]
        /\ \/ loop'[r].at = "over" /\ ~listening[r]
           \/ loop'[r].at = IF req[r].assist THEN AssistEnd(r, cites) ELSE "log"
  BY <1>1, TurnAnswersEffect
<1>4. /\ frames[r] \in Seq(Frames) /\ req' = req /\ listening' = listening
      /\ Silent(frames[r]) /\ SourcedOnce(frames[r])
      /\ Sourced(frames[r]) <=> req[r].assist
      /\ loop[r].emitted \in Nat /\ loop[r].base \in Nat /\ shown[r] \in Nat
      /\ listening[r] => shown[r] = loop[r].base + loop[r].emitted
  BY <1>1, <1>2 DEF Shape, RunInv, FramesOf, TextOf, Others
<1>5. /\ TerminalLast(frames[r])
      /\ frames[r] # <<>> => Last(frames[r]) \notin {"done", "error"}
  BY <1>4, Silences
<1>6. /\ "delta" \in Frames /\ "delta" # "sources" /\ "delta" \notin Terminal
      /\ "done" \in Frames /\ "done" # "sources" /\ "done" \in Terminal
  BY DEF Frames, Terminal
<1>7. listening[r] /\ loop'[r].fits => shown'[r] - loop'[r].base = loop'[r].answer.len
  BY SMTT(30), <1>2, <1>4
<1>8. AnswerOf(r)'
  <2>1. loop'[r].answer.by = r /\ loop'[r].answer.cites = cites
    BY <1>3
  <2>2. loop'[r].at = "put" => req[r].assist /\ Grounded(cites, Len(loop[r].sources))
    BY <1>3 DEF AssistEnd
  <2> QED
    BY <1>2, <1>4, <2>1, <2>2 DEF AnswerOf
<1>9. CASE ~listening[r]
  <2>1. loop'[r].at \in {"over", "log", "put"} /\ (loop'[r].at = "log" => ~req[r].assist)
    BY <1>3 DEF AssistEnd
  <2>2. FramesOf(r)'
    BY <1>2, <1>4, <1>5, <1>9, <2>1 DEF FramesOf, EndsInTerminal
  <2>3. TextOf(r)'
    BY <1>2, <1>4, <1>5, <1>9, <2>1 DEF TextOf
  <2> QED
    BY <1>8, <2>2, <2>3 DEF RunInv
<1>10. CASE listening[r]
  <2>1. PICK to \in {frames[r], Append(frames[r], "delta")} :
          frames'[r] = IF req[r].assist THEN Append(to, "done") ELSE to
    BY <1>2, <1>10
  <2>2. /\ to \in Seq(Frames) /\ Silent(to) /\ SourcedOnce(to)
        /\ Sourced(to) <=> req[r].assist
    BY <1>4, <1>6, SentAppend
  <2>3. CASE req[r].assist
    <3>1. /\ frames'[r] # <<>> /\ Last(frames'[r]) = "done" /\ TerminalLast(frames'[r])
          /\ SourcedOnce(frames'[r]) /\ Sourced(frames'[r])
      BY <1>6, <2>1, <2>2, <2>3, SentAppend
    <3>2. loop'[r].at \in {"over", "put"}
      BY <1>3, <2>3 DEF AssistEnd
    <3>3. FramesOf(r)'
      BY <1>2, <1>4, <1>6, <2>3, <3>1, <3>2 DEF FramesOf, EndsInTerminal
    <3>4. TextOf(r)'
      BY <1>4, <1>7, <1>10, <3>1, <3>2 DEF TextOf
    <3> QED
      BY <1>8, <3>3, <3>4 DEF RunInv
  <2>4. CASE ~req[r].assist
    <3>1. /\ Silent(frames'[r]) /\ SourcedOnce(frames'[r]) /\ frames'[r] \in Seq(Frames)
          /\ ~Sourced(frames'[r])
      BY <2>1, <2>2, <2>4
    <3>2. /\ TerminalLast(frames'[r])
          /\ frames'[r] # <<>> => Last(frames'[r]) \notin {"done", "error"}
      BY <3>1, Silences
    <3>3. loop'[r].at = "log"
      BY <1>3, <1>10, <2>4
    <3>4. FramesOf(r)'
      BY <1>2, <1>4, <2>4, <3>1, <3>2, <3>3 DEF FramesOf
    <3>5. TextOf(r)'
      BY <1>4, <1>7, <1>10, <3>2, <3>3 DEF TextOf
    <3> QED
      BY <1>8, <3>4, <3>5 DEF RunInv
  <2> QED
    BY <2>3, <2>4
<1> QED
  BY <1>9, <1>10

\* A tool call tells a step, and the next turn starts from what was shown.
LEMMA CallRun ==
  ASSUME Shape, NEW r \in Runs, RunInv(r), Call(r)
  PROVE  RunInv(r)'
<1>1. /\ Others(r) /\ UNCHANGED <<shown, answers>> /\ loop[r].at = "calls"
      /\ loop'[r].cached = loop[r].cached
      /\ \/ loop'[r].at = "over" /\ ~listening[r] /\ frames'[r] = frames[r]
         \/ /\ loop'[r].at \in {"calls", "turn"}
            /\ loop'[r].at = "turn" =>
                 loop'[r].text = 0 /\ loop'[r].emitted = 0 /\ loop'[r].base = shown[r]
            /\ frames'[r] = Append(frames[r], "step")
  BY CallEffect
<1>2. /\ frames[r] \in Seq(Frames) /\ req' = req /\ listening' = listening
      /\ Silent(frames[r]) /\ SourcedOnce(frames[r])
      /\ ~Sourced(frames[r]) /\ ~req[r].assist /\ shown[r] \in Nat
  BY <1>1 DEF Shape, RunInv, FramesOf, Others
<1>3. "step" \in Frames /\ "step" # "sources" /\ "step" \notin Terminal
  BY DEF Frames, Terminal
<1>4. /\ frames'[r] \in Seq(Frames) /\ Silent(frames'[r]) /\ SourcedOnce(frames'[r])
      /\ ~Sourced(frames'[r])
  <2> DEFINE gs == Append(frames[r], "step")
  <2>1. gs \in Seq(Frames) /\ Silent(gs) /\ SourcedOnce(gs) /\ ~Sourced(gs)
    BY <1>2, <1>3, SentAppend
  <2> HIDE DEF gs
  <2>2. frames'[r] \in {frames[r], gs}
    BY <1>1 DEF gs
  <2> QED
    BY <1>2, <2>1, <2>2
<1>5. /\ TerminalLast(frames'[r])
      /\ frames'[r] # <<>> => Last(frames'[r]) \notin {"done", "error"}
  BY <1>4, Silences
<1>6. FramesOf(r)'
  BY <1>1, <1>2, <1>4, <1>5 DEF FramesOf
<1>7. TextOf(r)'
  <2>1. Upto(0) = 0
    BY WindowAssumption DEF Upto
  <2> QED
    BY <1>1, <1>2, <1>5, <2>1 DEF TextOf
<1>8. AnswerOf(r)'
  BY <1>1 DEF AnswerOf
<1> QED
  BY <1>6, <1>7, <1>8 DEF RunInv

-----------------------------------------------------------------------------
(* The loop's invariant: what each run says of itself, and of the table.    *)

\* Only a run that has begun has a request to speak of.
\* A run that has begun was asked something.
Requested == \A r \in Runs : loop[r].at # "off" => req[r] \in Requests

\* A row was written by a run that has begun, so that its request stays.
RowInv(k, row) ==
  /\ row.answer.by \in Runs /\ loop[row.answer.by].at # "off"
  /\ Key(row.answer.by) = k /\ (req[row.answer.by].multi => k[2])
  /\ Grounded(row.answer.cites, Len(row.sources))

TableInv == \A k \in Keys : answers[k] # NoAnswer => RowInv(k, answers[k])

LoopInv == Shape /\ Requested /\ TableInv /\ \A r \in Runs : RunInv(r)

\* Every step of the loop keeps its own run's promise, and writes the table
\* only with a grounded answer.
LEMMA StepRun ==
  ASSUME LoopInv, NEW r \in Runs, LoopStep(r)
  PROVE  /\ Others(r) /\ RunInv(r)' /\ loop[r].at # "off" /\ loop'[r].at # "off"
         /\ \/ UNCHANGED answers
            \/ /\ loop[r].at = "put"
               /\ answers' = [answers EXCEPT ![Key(r)] =
                    [answer |-> loop[r].answer, sources |-> loop[r].sources]]
<1>1. Shape /\ RunInv(r)
  BY DEF LoopInv
<1>2. loop[r].at = "turn" => loop[r].emitted = Upto(loop[r].text)
  BY <1>1 DEF RunInv, TextOf
<1>3. CASE LookupHit(r)
  BY <1>1, <1>3, LookupHitEffect, LookupHitRun
<1>4. CASE LookupMiss(r)
  BY <1>1, <1>4, LookupMissEffect, LookupMissRun
<1>5. CASE Replay(r)
  BY <1>1, <1>5, ReplayEffect, ReplayRun
<1>6. CASE Stream(r)
  <2>1. loop[r].at = "turn"
    BY <1>6 DEF Stream
  <2> QED
    BY <1>1, <1>2, <1>6, <2>1, StreamEffect, StreamRun
<1>7. CASE TurnFails(r)
  <2>1. loop[r].at = "turn"
    BY <1>7 DEF TurnFails
  <2> QED
    BY <1>1, <1>2, <1>7, <2>1, TurnFailsEffect, TurnFailsRun
<1>8. CASE Fail(r)
  BY <1>1, <1>8, FailEffect, FailRun
<1>9. CASE TurnCallsTools(r)
  BY <1>1, <1>9, TurnCallsToolsEffect, TurnCallsToolsRun
<1>10. CASE TurnAnswers(r)
  <2>1. loop[r].at = "turn"
    BY <1>10 DEF TurnAnswers
  <2>2. Others(r) /\ UNCHANGED answers
    BY <1>1, <1>2, <1>10, <2>1, TurnAnswersEffect
  <2>3. PICK cites : \/ loop'[r].at = "over" /\ ~listening[r]
                     \/ loop'[r].at = IF req[r].assist THEN AssistEnd(r, cites) ELSE "log"
    BY <1>1, <1>2, <1>10, <2>1, TurnAnswersEffect
  <2>4. loop'[r].at # "off"
    BY <2>3 DEF AssistEnd
  <2> QED
    BY <1>1, <1>10, <2>1, <2>2, <2>4, TurnAnswersRun
<1>11. CASE Call(r)
  BY <1>1, <1>11, CallEffect, CallRun
<1>12. CASE Log(r)
  BY <1>1, <1>12, LogEffect, LogRun
<1>13. CASE Put(r)
  BY <1>1, <1>13, PutEffect, PutRun
<1> QED
  BY <1>3, <1>4, <1>5, <1>6, <1>7, <1>8, <1>9, <1>10, <1>11, <1>12, <1>13 DEF LoopStep

\* A step of one run keeps every run's promise, and the table's.
LEMMA LoopStepInv ==
  ASSUME LoopInv, NEW r \in Runs, LoopStep(r)
  PROVE  LoopInv'
<1>1. /\ Others(r) /\ RunInv(r)' /\ loop[r].at # "off" /\ loop'[r].at # "off"
      /\ \/ UNCHANGED answers
         \/ /\ loop[r].at = "put"
            /\ answers' = [answers EXCEPT ![Key(r)] =
                 [answer |-> loop[r].answer, sources |-> loop[r].sources]]
  BY StepRun
<1>2. Shape' /\ req' = req /\ \A s \in Runs \ {r} : loop'[s] = loop[s]
  BY <1>1 DEF Others
<1>3. \A s \in Runs : RunInv(s)'
  <2> SUFFICES ASSUME NEW s \in Runs, s # r PROVE RunInv(s)'
    BY <1>1
  <2> QED
    BY <1>1, Bystander DEF LoopInv
<1>4. Requested'
  BY <1>1, <1>2 DEF LoopInv, Requested
<1>5. TableInv'
  <2> SUFFICES ASSUME NEW k \in Keys, answers'[k] # NoAnswer
               PROVE  RowInv(k, answers[k])'
    BY DEF TableInv
  <2>1. \A s \in Runs : loop[s].at # "off" => loop'[s].at # "off"
    BY <1>1, <1>2
  <2>2. CASE answers'[k] = answers[k]
    <3>1. RowInv(k, answers[k])
      BY <2>2 DEF LoopInv, TableInv
    <3> QED
      BY <1>2, <2>1, <2>2, <3>1 DEF RowInv, Key, Grounded
  <2>3. CASE answers'[k] # answers[k]
    <3>1. /\ loop[r].at = "put" /\ k = Key(r)
          /\ answers'[k] = [answer |-> loop[r].answer, sources |-> loop[r].sources]
      BY <1>1, <2>3 DEF LoopInv, Shape
    <3>2. /\ loop[r].answer.by = r /\ (req[r].multi => req[r].assist)
          /\ Grounded(loop[r].answer.cites, Len(loop[r].sources))
      BY <3>1 DEF LoopInv, RunInv, AnswerOf
    <3>3. answers'[k].answer.by = r
      BY <3>1, <3>2
    <3>4. Key(r)[2] = req[r].assist /\ Key(r)' = Key(r)
      BY <1>2 DEF Key
    <3>5. req[r].multi => k[2]
      BY <3>1, <3>2, <3>4
    <3>6. Grounded(answers'[k].answer.cites, Len(answers'[k].sources))
      BY <3>1, <3>2
    <3>7. <<req[r].q, req[r].assist>> = k
      BY <3>1 DEF Key
    <3> QED
      BY <1>1, <1>2, <3>3, <3>5, <3>6, <3>7 DEF RowInv, Key, Grounded
  <2> QED
    BY <2>2, <2>3
<1> QED
  BY <1>2, <1>3, <1>4, <1>5 DEF LoopInv

\* A run begins once: its request is its own from then on.
LEMMA BeginInv ==
  ASSUME LoopInv, NEW r \in Runs, NEW rq \in Requests, Begin(r, rq)
  PROVE  LoopInv'
<1>1. /\ loop[r].at = "off" /\ GoTo(r, "lookup")
      /\ req' = [req EXCEPT ![r] = rq] /\ listening' = [listening EXCEPT ![r] = TRUE]
      /\ UNCHANGED <<frames, shown, answers>>
  BY DEF Begin
<1>2. /\ DOMAIN loop' = Runs /\ DOMAIN loop'[r] = Locals
      /\ \A s \in Runs \ {r} : loop'[s] = loop[s]
      /\ loop'[r].at = "lookup" /\ KeepsText(r) /\ loop'[r].base = loop[r].base
  BY <1>1, GoToFields DEF LoopInv, KeepsText
<1>3. Shape'
  BY <1>1, <1>2 DEF LoopInv, Shape, Stages, KeepsText
<1>4. /\ req'[r] = rq /\ listening'[r] = TRUE
      /\ \A s \in Runs \ {r} : req'[s] = req[s] /\ listening'[s] = listening[s]
  BY <1>1 DEF LoopInv, Shape
<1>5. Requested'
  BY <1>2, <1>4 DEF LoopInv, Requested
<1>6. RunInv(r)'
  <2>1. frames[r] = <<>> /\ frames'[r] = <<>>
    BY <1>1 DEF LoopInv, RunInv, FramesOf
  <2>2. FramesOf(r)'
    BY <1>2, <2>1, Nothing DEF FramesOf
  <2>3. TextOf(r)' /\ AnswerOf(r)'
    BY <1>1, <1>2, <2>1 DEF LoopInv, RunInv, TextOf, AnswerOf, KeepsText
  <2> QED
    BY <2>2, <2>3 DEF RunInv
<1>7. \A s \in Runs \ {r} : RunInv(s)'
  <2> SUFFICES ASSUME NEW s \in Runs \ {r} PROVE RunInv(s)'
    OBVIOUS
  <2>1. /\ RunInv(s) /\ loop'[s] = loop[s] /\ req'[s] = req[s] /\ listening'[s] = listening[s]
        /\ frames' = frames /\ shown' = shown
    BY <1>1, <1>2, <1>4 DEF LoopInv
  <2>2. FramesOf(s)'
    BY <2>1 DEF RunInv, FramesOf
  <2>3. TextOf(s)' /\ AnswerOf(s)'
    BY <2>1 DEF RunInv, TextOf, AnswerOf
  <2> QED
    BY <2>2, <2>3 DEF RunInv
<1>8. TableInv'
  <2>1. \A s \in Runs : loop[s].at # "off" => loop'[s].at # "off" /\ req'[s] = req[s]
    BY <1>1, <1>2, <1>4
  <2> QED
    BY <1>1, <2>1 DEF LoopInv, TableInv, RowInv, Key, Grounded
<1> QED
  BY <1>3, <1>5, <1>6, <1>7, <1>8 DEF LoopInv

\* A receiver that goes takes nothing back.
LEMMA LeaveInv ==
  ASSUME LoopInv, NEW r \in Runs, Leave(r)
  PROVE  LoopInv'
<1>1. /\ listening' = [listening EXCEPT ![r] = FALSE]
      /\ UNCHANGED <<req, loop, frames, shown, answers>>
  BY DEF Leave
<1>2. Shape' /\ \A s \in Runs : listening'[s] => listening[s]
  BY <1>1 DEF LoopInv, Shape
<1>3. \A s \in Runs : RunInv(s)'
  <2> SUFFICES ASSUME NEW s \in Runs PROVE RunInv(s)'
    OBVIOUS
  <2>1. FramesOf(s)'
    BY <1>1, <1>2 DEF LoopInv, RunInv, FramesOf
  <2>2. TextOf(s)' /\ AnswerOf(s)'
    BY <1>1, <1>2 DEF LoopInv, RunInv, TextOf, AnswerOf
  <2> QED
    BY <2>1, <2>2 DEF RunInv
<1>4. Requested' /\ TableInv'
  BY <1>1 DEF LoopInv, Requested, TableInv, RowInv, Key, Grounded
<1> QED
  BY <1>2, <1>3, <1>4 DEF LoopInv

\* A row that expires takes nothing but itself away.
LEMMA ExpireInv ==
  ASSUME LoopInv, NEW k \in Keys, Expire(k)
  PROVE  LoopInv'
<1>1. /\ answers' = [answers EXCEPT ![k] = NoAnswer]
      /\ UNCHANGED <<req, loop, frames, shown, listening>>
  BY DEF Expire
<1>2. Shape' /\ \A j \in Keys : answers'[j] # NoAnswer => answers'[j] = answers[j]
  BY <1>1 DEF LoopInv, Shape
<1>3. \A s \in Runs : RunInv(s)'
  BY <1>1 DEF LoopInv, RunInv, FramesOf, TextOf, AnswerOf
<1>4. Requested' /\ TableInv'
  BY <1>1, <1>2 DEF LoopInv, Requested, TableInv, RowInv, Key, Grounded
<1> QED
  BY <1>2, <1>3, <1>4 DEF LoopInv

\* The loop's invariant speaks of the loop's variables only.
LEMMA LoopUnchanged ==
  ASSUME LoopInv, UNCHANGED loopVars
  PROVE  LoopInv'
<1>1. UNCHANGED <<req, loop, frames, shown, listening, answers>>
  BY DEF loopVars
<1>2. Shape'
  BY <1>1 DEF LoopInv, Shape
<1>3. \A s \in Runs : RunInv(s)'
  BY <1>1 DEF LoopInv, RunInv, FramesOf, TextOf, AnswerOf
<1>4. Requested' /\ TableInv'
  BY <1>1 DEF LoopInv, Requested, TableInv, RowInv, Key, Grounded
<1> QED
  BY <1>2, <1>3, <1>4 DEF LoopInv

\* The loop's invariant holds at first.
LEMMA LoopInitInv == LoopInit => LoopInv
<1> SUFFICES ASSUME LoopInit PROVE LoopInv
  OBVIOUS
<1>1. /\ \A r \in Runs : /\ loop[r] = Fresh /\ frames[r] = <<>> /\ shown[r] = 0
                         /\ listening[r] = FALSE
      /\ DOMAIN loop = Runs /\ DOMAIN req = Runs /\ DOMAIN answers = Keys
      /\ \A k \in Keys : answers[k] = NoAnswer
      /\ frames \in [Runs -> Seq(Frames)] /\ shown \in [Runs -> Nat]
      /\ listening \in [Runs -> BOOLEAN]
  BY DEF LoopInit
<1>2. /\ Fresh.at = "off" /\ Fresh.text = 0 /\ Fresh.emitted = 0 /\ Fresh.base = 0
      /\ DOMAIN Fresh = Locals
  BY DEF Fresh, Locals
<1>3. Shape
  BY <1>1, <1>2 DEF Shape, Stages
<1>4. \A r \in Runs : RunInv(r)
  BY <1>1, <1>2, Nothing DEF RunInv, FramesOf, TextOf, AnswerOf
<1>5. Requested /\ TableInv
  BY <1>1, <1>2 DEF Requested, TableInv
<1> QED
  BY <1>3, <1>4, <1>5 DEF LoopInv

-----------------------------------------------------------------------------
(* The server's invariant.                                                  *)

PostStages == {"idle", "handler", "charge", "streaming", "refused", "closed"}

ServerShape ==
  /\ DOMAIN ask = Runs /\ DOMAIN threads = Threads
  /\ \A r \in Runs : post[r].at # "idle" => ask[r] \in Asks
  /\ post \in [Runs -> [at : PostStages, day : Days]]
  /\ history \in [Runs -> Seq(Runs)]
  /\ today \in Days
  /\ budget \in [day : 0..LastDay, used : [Clients -> Nat]]
  /\ spent \in [Days -> [Clients -> Nat]]

\* A transcript whose every exchange was asked with the ones before it.  Its
\* runs have all arrived, so that none of them gets another history.
Conversation(s) ==
  /\ s \in Seq(Runs)
  /\ \A i \in 1..Len(s) :
       post[s[i]].at # "idle" /\ history[s[i]] = SubSeq(s, 1, i - 1)

Conversations ==
  /\ \A r \in Runs : Conversation(history[r])
  /\ \A t \in Threads : Conversation(threads[t].turns)

\* The tally of a day that was left and entered again starts from nothing, so
\* it may lag behind what was spent, never run ahead of it.
Tallied ==
  budget.day \in Days => \A c \in Clients : budget.used[c] <= spent[budget.day][c]

ServerInv == ServerShape /\ Conversations /\ Tallied
IInv == LoopInv /\ ServerInv

\* A conversation stays one as long as no run that has arrived changes its history.
LEMMA ConversationKept ==
  ASSUME NEW s, Conversation(s),
         \A q \in Runs : post[q].at # "idle" =>
           post'[q].at # "idle" /\ history'[q] = history[q]
  PROVE  Conversation(s)'
  BY DEF Conversation

\* A run that replayed a conversation may be appended to it.
LEMMA ConversationGrows ==
  ASSUME NEW r \in Runs, Conversation(history[r]), post[r].at # "idle"
  PROVE  Conversation(Append(history[r], r))
<1> DEFINE h == history[r]
           s == Append(h, r)
<1>1. h \in Seq(Runs) /\ s \in Seq(Runs) /\ Len(s) = Len(h) + 1
  BY DEF Conversation
<1>2. \A i \in 1..Len(h) : s[i] = h[i] /\ SubSeq(s, 1, i - 1) = SubSeq(h, 1, i - 1)
  BY <1>1
<1>3. s[Len(h) + 1] = r /\ SubSeq(s, 1, Len(h)) = h
  BY <1>1
<1>4. \A i \in 1..Len(s) : i \in 1..Len(h) \/ i = Len(h) + 1
  BY <1>1
<1> QED
  BY <1>1, <1>2, <1>3, <1>4 DEF Conversation

\* No exchange is a conversation.
LEMMA NoConversation == Conversation(<<>>)
  BY DEF Conversation

\* A request replays a transcript as the thread holds it now, or nothing.
LEMMA ArriveInv ==
  ASSUME IInv, NEW r \in Runs, Arrive(r)
  PROVE  IInv'
<1>0. PICK a \in Asks :
        \E past \in {<<>>, Transcript(a)} :
          /\ ask' = [ask EXCEPT ![r] = a] /\ history' = [history EXCEPT ![r] = past]
          /\ At(r, "handler") \/ At(r, "refused")
  BY DEF Arrive
<1>1. PICK past \in {<<>>, Transcript(a)} :
        /\ ask' = [ask EXCEPT ![r] = a] /\ history' = [history EXCEPT ![r] = past]
        /\ At(r, "handler") \/ At(r, "refused")
  BY <1>0
<1>2. /\ post[r].at = "idle"
      /\ UNCHANGED <<loopVars, threads, today, budget, spent>>
  BY DEF Arrive, Handling
<1>3. LoopInv'
  BY <1>2, LoopUnchanged DEF IInv
<1>4. Conversation(past)
  <2>1. past = <<>> \/ \E t \in Threads : past = threads[t].turns
    BY AsksAssumption, <1>1 DEF Transcript, Ask
  <2> QED
    BY <2>1, NoConversation DEF IInv, ServerInv, Conversations
<1>5. /\ post' \in [Runs -> [at : PostStages, day : Days]]
      /\ \A q \in Runs \ {r} : post'[q] = post[q]
  <2>1. /\ post \in [Runs -> [at : PostStages, day : Days]]
        /\ post' = [post EXCEPT ![r].at = "handler"] \/ post' = [post EXCEPT ![r].at = "refused"]
    BY <1>1 DEF IInv, ServerInv, ServerShape, At
  <2>2. "handler" \in PostStages /\ "refused" \in PostStages
    BY DEF PostStages
  <2> HIDE DEF PostStages
  <2> QED
    BY <2>1, <2>2
<1>6. ServerShape'
  <2>1. past \in Seq(Runs)
    BY <1>4 DEF Conversation
  <2> QED
    BY <1>1, <1>2, <1>5, <2>1 DEF IInv, ServerInv, ServerShape
<1>7. \A q \in Runs : post[q].at # "idle" => post'[q].at # "idle" /\ history'[q] = history[q]
  BY <1>1, <1>2, <1>5 DEF IInv, ServerInv, ServerShape
<1>8. Conversations'
  <2>1. \A q \in Runs \ {r} : history'[q] = history[q]
    BY <1>1 DEF IInv, ServerInv, ServerShape
  <2>2. history'[r] = past
    BY <1>1 DEF IInv, ServerInv, ServerShape
  <2>3. \A q \in Runs : Conversation(history[q])'
    <3>1. Conversation(past)'
      BY <1>4, <1>7, ConversationKept
    <3>2. ASSUME NEW q \in Runs \ {r} PROVE Conversation(history[q])'
      <4>1. PICK h : h = history[q]
        OBVIOUS
      <4>2. Conversation(h)
        BY <4>1 DEF IInv, ServerInv, Conversations
      <4>3. Conversation(h)'
        BY <1>7, <4>2, ConversationKept
      <4>4. history'[q] = h
        BY <2>1, <4>1
      <4> QED
        BY <4>3, <4>4 DEF Conversation
    <3> QED
      BY <2>2, <3>1, <3>2 DEF Conversation
  <2>4. ASSUME NEW t \in Threads PROVE Conversation(threads[t].turns)'
    <3>1. PICK h : h = threads[t].turns
      OBVIOUS
    <3>2. Conversation(h)
      BY <3>1 DEF IInv, ServerInv, Conversations
    <3>3. Conversation(h)'
      BY <1>7, <3>2, ConversationKept
    <3>4. threads'[t].turns = h
      BY <1>2, <3>1
    <3> QED
      BY <3>3, <3>4 DEF Conversation
  <2> QED
    BY <2>3, <2>4 DEF Conversations
<1>9. Tallied'
  BY <1>2 DEF IInv, ServerInv, Tallied
<1> QED
  BY <1>3, <1>6, <1>8, <1>9 DEF IInv, ServerInv

\* A step that lets no run's history go, and stores no thread.
LEMMA SameTalks ==
  ASSUME IInv, UNCHANGED <<ask, history, threads>>,
         \A q \in Runs : post[q].at # "idle" => post'[q].at # "idle"
  PROVE  Conversations'
  BY DEF IInv, ServerInv, Conversations, Conversation

\* A handler that moves on stays in its stages.
LEMMA MoveShape ==
  ASSUME IInv, NEW r \in Runs, NEW to \in PostStages \ {"idle"}, At(r, to)
  PROVE  /\ post' \in [Runs -> [at : PostStages, day : Days]]
         /\ post'[r] = [post[r] EXCEPT !.at = to]
         /\ \A q \in Runs \ {r} : post'[q] = post[q]
         /\ \A q \in Runs : post[q].at # "idle" => post'[q].at # "idle"
  BY DEF IInv, ServerInv, ServerShape, At

\* Responding begins the loop with the request of the handler.
LEMMA RespondInv ==
  ASSUME IInv, NEW r \in Runs, post[r].at # "idle", Respond(r)
  PROVE  LoopInv' /\ At(r, "streaming")
<1>1. ask[r] \in Ask
  BY AsksAssumption DEF IInv, ServerInv, ServerShape
<1>2. [q |-> ask[r].q, assist |-> ask[r].assist, multi |-> history[r] # <<>>] \in Requests
  BY <1>1 DEF Ask, Requests
<1> QED
  BY <1>2, BeginInv DEF IInv, Respond

\* A rejected body changes nothing but its own handler.
LEMMA RejectInv ==
  ASSUME IInv, NEW r \in Runs, Reject(r)
  PROVE  IInv'
<1>1. /\ post[r].at = "handler" /\ At(r, "refused")
      /\ UNCHANGED <<loopVars, ask, history, threads, today, budget, spent>>
  BY DEF Reject, Handling
<1>2. "refused" \in PostStages \ {"idle"}
  BY DEF PostStages
<1>3. LoopInv' /\ Conversations'
  BY <1>1, <1>2, LoopUnchanged, MoveShape, SameTalks DEF IInv
<1>4. ServerShape'
  BY <1>1, <1>2, MoveShape DEF IInv, ServerInv, ServerShape
<1>5. Tallied'
  BY <1>1 DEF IInv, ServerInv, Tallied
<1> QED
  BY <1>3, <1>4, <1>5 DEF IInv, ServerInv

\* An answer that costs nothing leaves the budget alone.
LEMMA AcceptUnchargedInv ==
  ASSUME IInv, NEW r \in Runs, AcceptUncharged(r)
  PROVE  IInv'
<1>1. /\ post[r].at = "handler" /\ Respond(r)
      /\ UNCHANGED <<ask, history, threads, today, budget, spent>>
  BY DEF AcceptUncharged, Handling
<1>2. "streaming" \in PostStages \ {"idle"}
  BY DEF PostStages
<1>3. LoopInv' /\ At(r, "streaming")
  BY <1>1, RespondInv
<1>4. Conversations'
  BY <1>1, <1>2, <1>3, MoveShape, SameTalks
<1>5. ServerShape'
  BY <1>1, <1>2, <1>3, MoveShape DEF IInv, ServerInv, ServerShape
<1>6. Tallied'
  BY <1>1 DEF IInv, ServerInv, Tallied
<1> QED
  BY <1>3, <1>4, <1>5, <1>6 DEF IInv, ServerInv

\* The day read before the lock is one of the days.
LEMMA ReadDayInv ==
  ASSUME IInv, NEW r \in Runs, ReadDay(r)
  PROVE  IInv'
<1>1. PICK day \in today..LastDay :
        today' = day /\ post' = [post EXCEPT ![r] = [at |-> "charge", day |-> day]]
  BY DEF ReadDay
<1>2. /\ post[r].at = "handler"
      /\ UNCHANGED <<loopVars, ask, history, threads, budget, spent>>
  BY DEF ReadDay
<1>3. day \in Days
  BY DaysAssumption DEF IInv, ServerInv, ServerShape, Days
<1>4. /\ post' \in [Runs -> [at : PostStages, day : Days]]
      /\ \A q \in Runs : post[q].at # "idle" => post'[q].at # "idle"
      /\ \A q \in Runs : post'[q].at # "idle" => post[q].at # "idle"
  BY <1>1, <1>2, <1>3 DEF IInv, ServerInv, ServerShape, PostStages
<1>5. LoopInv' /\ Conversations'
  BY <1>2, <1>4, LoopUnchanged, SameTalks DEF IInv
<1>6. ServerShape'
  BY <1>1, <1>2, <1>3, <1>4 DEF IInv, ServerInv, ServerShape
<1>7. Tallied'
  BY <1>2 DEF IInv, ServerInv, Tallied
<1> QED
  BY <1>5, <1>6, <1>7 DEF IInv, ServerInv

\* What RolledOver gives is a tally of the day, and never ahead of it.
LEMMA RolledOverShape ==
  ASSUME IInv, NEW day \in Days
  PROVE  LET b == RolledOver(day) IN
         /\ b \in [day : 0..LastDay, used : [Clients -> Nat]] /\ b.day = day
         /\ \A c \in Clients : b.used[c] <= spent[day][c]
<1>1. day \in 0..LastDay
  BY DEF Days
<1>2. spent[day] \in [Clients -> Nat]
  BY DEF IInv, ServerInv, ServerShape
<1>3. CASE budget.day = day
  BY <1>1, <1>3 DEF RolledOver, IInv, ServerInv, ServerShape, Tallied
<1>4. CASE budget.day # day
  BY <1>1, <1>2, <1>4 DEF RolledOver
<1> QED
  BY <1>3, <1>4

\* The charge moves the tally and what was spent together.
LEMMA ChargeInv ==
  ASSUME IInv, NEW r \in Runs, Charge(r)
  PROVE  IInv'
<1> DEFINE day == post[r].day
           c   == ask[r].ip
           b   == RolledOver(day)
<1>1. /\ post[r].at = "charge" /\ UNCHANGED <<ask, history, threads, today>>
      /\ \/ /\ budget' = [b EXCEPT !.used[c] = @ + 1]
            /\ spent' = [spent EXCEPT ![day][c] = @ + 1]
            /\ Respond(r)
         \/ budget' = b /\ At(r, "refused") /\ UNCHANGED <<loopVars, spent>>
  BY DEF Charge, Handling
<1>2. day \in Days /\ c \in Clients
  BY AsksAssumption, <1>1 DEF IInv, ServerInv, ServerShape, Ask
<1>3. /\ b \in [day : 0..LastDay, used : [Clients -> Nat]] /\ b.day = day
      /\ \A x \in Clients : b.used[x] <= spent[day][x]
  BY <1>2, RolledOverShape
<1>4. spent \in [Days -> [Clients -> Nat]]
  BY DEF IInv, ServerInv, ServerShape
<1> HIDE DEF b, day, c
<1>5. \E to \in {"streaming", "refused"} : At(r, to)
  BY <1>1 DEF Respond
<1>6. /\ post' \in [Runs -> [at : PostStages, day : Days]]
      /\ \A q \in Runs : post[q].at # "idle" => post'[q].at # "idle"
      /\ \A q \in Runs : post'[q].at # "idle" => post[q].at # "idle"
  <2>1. {"streaming", "refused"} \subseteq PostStages \ {"idle"}
    BY DEF PostStages
  <2> QED
    BY <1>1, <1>5, <2>1, MoveShape
<1>7. LoopInv' /\ Conversations'
  <2>1. post[r].at # "idle"
    BY <1>1
  <2> QED
    BY <1>1, <1>6, <2>1, RespondInv, LoopUnchanged, SameTalks DEF IInv
<1>8. /\ budget' \in [day : 0..LastDay, used : [Clients -> Nat]]
      /\ spent' \in [Days -> [Clients -> Nat]] /\ Tallied'
  <2>1. CASE budget' = b /\ spent' = spent
    BY <1>3, <1>4, <2>1 DEF Tallied
  <2>2. CASE /\ budget' = [b EXCEPT !.used[c] = @ + 1]
             /\ spent' = [spent EXCEPT ![day][c] = @ + 1]
    <3>1. /\ budget'.day = day /\ budget'.used = [b.used EXCEPT ![c] = @ + 1]
          /\ budget' \in [day : 0..LastDay, used : [Clients -> Nat]]
      BY <1>2, <1>3, <2>2
    <3>2. /\ spent' \in [Days -> [Clients -> Nat]]
          /\ spent'[day] = [spent[day] EXCEPT ![c] = @ + 1]
      BY <1>2, <1>4, <2>2
    <3>3. \A x \in Clients : budget'.used[x] <= spent'[day][x]
      BY <1>2, <1>3, <1>4, <3>1, <3>2
    <3> QED
      BY <3>1, <3>2, <3>3 DEF Tallied
  <2> QED
    BY <1>1, <2>1, <2>2
<1>9. ServerShape'
  BY <1>1, <1>6, <1>8 DEF IInv, ServerInv, ServerShape, Days
<1> QED
  BY <1>7, <1>8, <1>9 DEF IInv, ServerInv

\* The stored thread is the transcript that was replayed, and this run.
LEMMA DeliverInv ==
  ASSUME IInv, NEW r \in Runs, Deliver(r)
  PROVE  IInv'
<1>1. /\ post[r].at = "streaming" /\ At(r, "closed")
      /\ UNCHANGED <<loopVars, ask, history, today, budget, spent>>
      /\ threads' = [threads EXCEPT ![ask[r].thread] = Upsert(r)] \/ UNCHANGED threads
  BY DEF Deliver
<1>2. "closed" \in PostStages \ {"idle"}
  BY DEF PostStages
<1>3. /\ post' \in [Runs -> [at : PostStages, day : Days]]
      /\ \A q \in Runs : post[q].at # "idle" => post'[q].at # "idle"
      /\ \A q \in Runs : post'[q].at # "idle" => post[q].at # "idle"
  BY <1>1, <1>2, MoveShape
<1>4. LoopInv'
  BY <1>1, LoopUnchanged DEF IInv
<1>5. ServerShape'
  BY <1>1, <1>3 DEF IInv, ServerInv, ServerShape
<1>6. \A t \in Threads : threads'[t].turns \in {threads[t].turns, Append(history[r], r)}
  <2>1. Upsert(r).turns = Append(history[r], r)
    BY DEF Upsert
  <2>2. DOMAIN threads = Threads
    BY DEF IInv, ServerInv, ServerShape
  <2> HIDE DEF Upsert
  <2> QED
    BY <1>1, <2>1, <2>2
<1>7. Conversations'
  <2>1. \A q \in Runs : Conversation(history[q])'
    BY <1>1, <1>3 DEF IInv, ServerInv, Conversations, Conversation
  <2>2. \A t \in Threads : Conversation(threads[t].turns)'
    <3> SUFFICES ASSUME NEW t \in Threads PROVE Conversation(threads[t].turns)'
      OBVIOUS
    <3>1. Conversation(history[r]) /\ Conversation(threads[t].turns)
      BY DEF IInv, ServerInv, Conversations
    <3>2. Conversation(Append(history[r], r))
      BY <1>1, <3>1, ConversationGrows
    <3>3. PICK u : u = threads'[t].turns
      OBVIOUS
    <3>4. Conversation(u)
      BY <1>6, <3>1, <3>2, <3>3
    <3>5. Conversation(u)'
      BY <1>1, <1>3, <3>4, ConversationKept
    <3> QED
      BY <3>3, <3>5 DEF Conversation
  <2> QED
    BY <2>1, <2>2 DEF Conversations
<1>8. Tallied'
  BY <1>1 DEF IInv, ServerInv, Tallied
<1> QED
  BY <1>4, <1>5, <1>7, <1>8 DEF IInv, ServerInv

\* A deleted thread is the empty conversation.
LEMMA ThreadsDeleteInv ==
  ASSUME IInv, NEW t \in Threads, NEW o \in Owners, ThreadsDelete(t, o)
  PROVE  IInv'
<1>1. /\ threads' = [threads EXCEPT ![t] = NoRow]
      /\ UNCHANGED <<loopVars, ask, post, history, today, budget, spent>>
  BY DEF ThreadsDelete
<1>2. LoopInv'
  BY <1>1, LoopUnchanged DEF IInv
<1>3. ServerShape' /\ Tallied'
  BY <1>1 DEF IInv, ServerInv, ServerShape, Tallied
<1>4. \A u \in Threads : threads'[u].turns \in {threads[u].turns, <<>>}
  BY <1>1 DEF IInv, ServerInv, ServerShape, NoRow
<1>5. Conversations'
  BY SMTT(30), <1>1, <1>4, NoConversation DEF IInv, ServerInv, Conversations, Conversation
<1> QED
  BY <1>2, <1>3, <1>5 DEF IInv, ServerInv

\* The server's invariant speaks of the server's variables only.
LEMMA ServerUnchanged ==
  ASSUME IInv, UNCHANGED serverVars
  PROVE  ServerInv'
<1>1. UNCHANGED <<ask, post, history, threads, today, budget, spent>>
  BY DEF serverVars
<1> QED
  BY <1>1 DEF IInv, ServerInv, ServerShape, Conversations, Conversation, Tallied

-----------------------------------------------------------------------------
(* The theorems.                                                           *)

\* The invariant holds at first.
LEMMA InitIInv == Init => IInv
<1> SUFFICES ASSUME Init PROVE IInv
  OBVIOUS
<1>1. LoopInv
  BY LoopInitInv DEF Init
<1>2. 1 \in Days /\ 0 \in 0..LastDay /\ 0 \notin Days
  BY DaysAssumption DEF Days
<1>3. /\ post = [r \in Runs |-> [at |-> "idle", day |-> 1]]
      /\ history = [r \in Runs |-> <<>>] /\ threads = [t \in Threads |-> NoRow]
      /\ DOMAIN ask = Runs /\ today = 1
      /\ budget = [day |-> 0, used |-> [c \in Clients |-> 0]]
      /\ spent = [d \in Days |-> [c \in Clients |-> 0]]
  BY DEF Init
<1>4. ServerShape
  BY <1>2, <1>3 DEF ServerShape, PostStages
<1>5. Conversations
  BY <1>3, NoConversation DEF Conversations, NoRow
<1>6. Tallied
  BY <1>2, <1>3 DEF Tallied
<1> QED
  BY <1>1, <1>4, <1>5, <1>6 DEF IInv, ServerInv

\* The invariant is inductive: one case for each disjunct of Next.
LEMMA NextIInv == IInv /\ [Next]_vars => IInv'
<1> SUFFICES ASSUME IInv, [Next]_vars PROVE IInv'
  OBVIOUS
<1>1. ASSUME NEW r \in Runs, Arrive(r) \/ Handler(r) PROVE IInv'
  BY <1>1, ArriveInv, RejectInv, AcceptUnchargedInv, ReadDayInv, ChargeInv, DeliverInv
     DEF Handler
<1>2. ASSUME NEW r \in Runs, LoopStep(r) \/ Leave(r), UNCHANGED serverVars PROVE IInv'
  BY <1>2, LoopStepInv, LeaveInv, ServerUnchanged DEF IInv
<1>3. ASSUME NEW k \in Keys, Expire(k), UNCHANGED serverVars PROVE IInv'
  BY <1>3, ExpireInv, ServerUnchanged DEF IInv
<1>4. ASSUME NEW t \in Threads, NEW o \in Owners, ThreadsDelete(t, o) PROVE IInv'
  BY <1>4, ThreadsDeleteInv
<1>5. CASE UNCHANGED vars
  BY <1>5, LoopUnchanged, ServerUnchanged DEF IInv, vars
<1> QED
  BY <1>1, <1>2, <1>3, <1>4, <1>5 DEF Next

\* The inductive invariant of the answer loop and the route around it.
THEOREM Invariance == Spec => []IInv
<1> QED
  BY InitIInv, NextIInv, PTL DEF Spec

\* The sources, sent at one place at most, are sent at most once.
LEMMA AtMostOnce ==
  ASSUME NEW fs \in Seq(Frames), SourcedOnce(fs)
  PROVE  Cardinality({i \in 1..Len(fs) : fs[i] = "sources"}) <= 1
<1> DEFINE S == {i \in 1..Len(fs) : fs[i] = "sources"}
<1>1. S = {} \/ \E i \in S : S = {i}
  BY DEF SourcedOnce
<1> HIDE DEF S
<1>2. Cardinality({}) = 0 /\ \A i : Cardinality({i}) = 1
  BY FS_EmptySet, FS_Singleton
<1>3. Cardinality(S) = 0 \/ Cardinality(S) = 1
  BY <1>1, <1>2, Zenon
<1>4. Cardinality(S) <= 1
  BY <1>3
<1> QED
  BY <1>4 DEF S

\* Every client reads a stream that is in order: nothing after done or error,
\* the sources ahead of them and at most once, and no run that still has its
\* receiver ends without a terminal frame, whatever the provider, the tools
\* and the store do.
THEOREM Framing == Spec => []FramesInOrder
<1>1. IInv => FramesInOrder
  <2> SUFFICES ASSUME IInv, NEW r \in Runs
               PROVE  LET fs == frames[r] IN
                      /\ \A i \in 1..Len(fs) : fs[i] \in Terminal => i = Len(fs)
                      /\ fs # <<>> /\ Last(fs) = "done" => Contains(fs, "sources")
                      /\ fs # <<>> /\ Last(fs) = "error" /\ loop[r].sources # <<>>
                           => Contains(fs, "sources")
                      /\ Cardinality({i \in 1..Len(fs) : fs[i] = "sources"}) <= 1
                      /\ loop[r].at = "over" /\ listening[r]
                           => fs # <<>> /\ Last(fs) \in Terminal
    BY DEF FramesInOrder
  <2>1. FramesOf(r) /\ frames[r] \in Seq(Frames)
    BY DEF IInv, LoopInv, RunInv, Shape
  <2>2. Cardinality({i \in 1..Len(frames[r]) : frames[r][i] = "sources"}) <= 1
    BY <2>1, AtMostOnce DEF FramesOf
  <2> QED
    BY <2>1, <2>2 DEF FramesOf, TerminalLast, Sourced, EndsInTerminal
<1> QED
  BY <1>1, Invariance, PTL

\* The deltas of the last turn are the answer, all of it and nothing of the
\* metadata behind it, whenever that fits the window (the stream cursor and
\* emit_deltas of answer.rs).
THEOREM TailHolds == Spec => []TailHeldBack
<1>1. IInv => TailHeldBack
  BY DEF IInv, LoopInv, RunInv, TextOf, TailHeldBack
<1> QED
  BY <1>1, Invariance, PTL

\* What the answers cache replays was written for the same question and mode,
\* from no conversation, and every sentence of it cites a source stored with it.
THEOREM CacheHolds == Spec => []CacheSound
<1>1. IInv => CacheSound
  BY DEF IInv, LoopInv, TableInv, RowInv, CacheSound
<1> QED
  BY <1>1, Invariance, PTL

\* Two follow-ups on one thread may race, and the later upsert wins, but what
\* the thread then holds was one conversation of one client.
THEOREM ThreadsHold == Spec => []ThreadIsOneConversation
<1>1. IInv => ThreadIsOneConversation
  BY DEF IInv, ServerInv, Conversations, Conversation, ThreadIsOneConversation
<1> QED
  BY <1>1, Invariance, PTL

\* The budget turns a client away only on a day whose answers it has had: the
\* tally never runs ahead of what was spent, across any rollover of the day.
THEOREM BudgetFair == Spec => NobodyRefusedEarly
<1> DEFINE Fair == \A r \in Runs : post[r].at = "charge" /\ post'[r].at = "refused"
                     => spent[post[r].day][ask[r].ip] >= DailyAnswers
<1>1. ASSUME IInv, Next, NEW r \in Runs,
             post[r].at = "charge", post'[r].at = "refused"
      PROVE  spent[post[r].day][ask[r].ip] >= DailyAnswers
  <2>1. post \in [Runs -> [at : PostStages, day : Days]]
    BY <1>1 DEF IInv, ServerInv, ServerShape
  <2>2. Charge(r) /\ At(r, "refused")
    <3>1. post' # post
      BY <1>1
    <3>2. PICK q \in Runs : Arrive(q) \/ Handler(q)
      BY <1>1, <3>1 DEF Next, serverVars, ThreadsDelete
    <3>3. post'[r] # post[r]
      BY <1>1
    <3>4. q = r
      BY <2>1, <3>2, <3>3 DEF Arrive, Handler, Reject, AcceptUncharged, Respond, ReadDay,
                              Charge, Deliver, At
    <3>5. Charge(r)
      BY <1>1, <3>2, <3>4 DEF Arrive, Handler, Reject, AcceptUncharged, ReadDay, Deliver
    <3> QED
      BY <1>1, <2>1, <3>5 DEF Charge, Respond, At
  <2> DEFINE day == post[r].day
             c   == ask[r].ip
             b   == RolledOver(day)
  <2>3. day \in Days /\ c \in Clients
    BY <1>1, <2>1, AsksAssumption DEF IInv, ServerInv, ServerShape, Ask
  <2>4. /\ b \in [day : 0..LastDay, used : [Clients -> Nat]]
        /\ b.used[c] <= spent[day][c] /\ spent \in [Days -> [Clients -> Nat]]
    BY <1>1, <2>3, RolledOverShape DEF IInv, ServerInv, ServerShape
  <2>5. b.used[c] >= DailyAnswers
    <3>1. ~Respond(r)
      BY <1>1, <2>1 DEF Respond, At
    <3> QED
      BY <2>2, <3>1 DEF Charge
  <2> HIDE DEF b, day, c
  <2>6. spent[day][c] >= DailyAnswers
    BY <2>3, <2>4, <2>5, DaysAssumption
  <2> QED
    BY <2>6 DEF day, c
<1>2. ASSUME IInv, [Next]_vars PROVE [Fair]_vars
  BY <1>1, <1>2
<1> QED
  BY <1>2, Invariance, PTL DEF Spec, NobodyRefusedEarly

-----------------------------------------------------------------------------
(* The guards of the loop, and the types.                                   *)

\* The limits of a run (answer.rs:18-23): max_turns, the calls that really run,
\* and none of them twice.
GuardsOf(l) ==
  /\ l.turn \in 0..MaxTurns
  /\ l.executed \in Seq(l.visited) /\ Len(l.executed) <= MaxExecutions
  /\ \A i \in 1..Len(l.executed) : l.executed[i][1] \in KnownTools
  /\ \A i, j \in 1..Len(l.executed) : l.executed[i] = l.executed[j] => i = j

Guarded == \A r \in Runs : GuardsOf(loop[r])

\* A completion that still may call tools is not the last one; what will be
\* logged or cached is an answer; an id is that of a row.
LocalsOf(l, log) ==
  /\ GuardsOf(l) /\ (l.at = "calls" => l.turn # MaxTurns)
  /\ l.text \in 0..MaxText /\ l.emitted \in Nat /\ l.emitted <= l.text
  /\ l.logId \in 0..Len(log)
  /\ l.at \in {"log", "put"} => l.answer \in Answers

LoopTypes ==
  /\ req \in [Runs -> Requests]
  /\ \A r \in Runs : LocalsOf(loop[r], answerLog)
  /\ \E S : answerLog \in Seq(S)
  /\ \A k \in Keys : answers[k] # NoAnswer => answers[k].answer \in Answers

ServerTypes ==
  /\ ask \in [Runs -> Asks]
  /\ \A t \in Threads : threads[t].owner \in Owners \cup {NoThread}
  /\ budget.used \in [Clients -> 0..DailyAnswers]

\* One more executed call, of a known tool and not seen before.
LEMMA OneMoreCall ==
  ASSUME NEW V, NEW s \in Seq(V), NEW c, c \notin V, c[1] \in KnownTools,
         Len(s) < MaxExecutions,
         \A i \in 1..Len(s) : s[i][1] \in KnownTools,
         \A i, j \in 1..Len(s) : s[i] = s[j] => i = j
  PROVE  LET n == Append(s, c) IN
         /\ n \in Seq(V \cup {c}) /\ Len(n) <= MaxExecutions
         /\ \A i \in 1..Len(n) : n[i][1] \in KnownTools
         /\ \A i, j \in 1..Len(n) : n[i] = n[j] => i = j
<1> DEFINE n == Append(s, c)
<1>1. s \in Seq(V \cup {c}) /\ Len(s) \in Nat
  OBVIOUS
<1>2. n \in Seq(V \cup {c}) /\ Len(n) = Len(s) + 1
  BY <1>1
<1>3. n[Len(s) + 1] = c /\ \A i \in 1..Len(s) : n[i] = s[i] /\ s[i] # c
  OBVIOUS
<1>4. \A i \in 1..Len(n) : i \in 1..Len(s) \/ i = Len(s) + 1
  BY <1>1, <1>2
<1> HIDE DEF n
<1>5. Len(n) <= MaxExecutions
  BY <1>1, <1>2, LimitsAssumption
<1>6. \A i \in 1..Len(n) : n[i][1] \in KnownTools
  BY <1>3, <1>4
<1>7. \A i, j \in 1..Len(n) : n[i] = n[j] => i = j
  BY <1>3, <1>4
<1> QED
  BY <1>2, <1>5, <1>6, <1>7 DEF n

\* Going on within the limits stays within them.
LEMMA GoLocals ==
  ASSUME Shape, NEW r \in Runs, NEW l, NEW log, DOMAIN l = Locals, Go(r, l),
         LocalsOf(l, log)
  PROVE  LocalsOf(loop'[r], log)
<1>1. CASE l.at = "over"
  <2> DEFINE m == Returned(l)
  <2>1. loop'[r] = m
    BY <1>1 DEF Go, Shape
  <2>2. /\ m.at = "over" /\ m.turn = 0 /\ m.visited = {} /\ m.executed = <<>>
        /\ m.text = 0 /\ m.emitted = 0 /\ m.logId = l.logId
    BY <1>1 DEF Returned, Locals
  <2>3. <<>> \in Seq({}) /\ Len(<<>>) = 0
    OBVIOUS
  <2> HIDE DEF m
  <2>4. GuardsOf(m)
    BY <2>2, <2>3, LimitsAssumption DEF GuardsOf
  <2> QED
    BY <2>1, <2>2, <2>4, LimitsAssumption DEF LocalsOf
<1>2. CASE l.at # "over"
  BY <1>2 DEF Go, Shape
<1> QED
  BY <1>1, <1>2

\* So does moving on.
LEMMA GoToLocals ==
  ASSUME Shape, NEW r \in Runs, NEW next, NEW log, GoTo(r, next), LocalsOf(loop[r], log),
         next = "calls" => loop[r].turn # MaxTurns,
         next \in {"log", "put"} => loop[r].answer \in Answers
  PROVE  LocalsOf(loop'[r], log)
<1> DEFINE l == [loop[r] EXCEPT !.at = next]
<1>1. DOMAIN l = Locals /\ Go(r, l)
  BY DEF Shape, GoTo
<1>2. /\ l.at = next /\ l.turn = loop[r].turn /\ l.executed = loop[r].executed
      /\ l.visited = loop[r].visited /\ l.text = loop[r].text
      /\ l.emitted = loop[r].emitted /\ l.logId = loop[r].logId
      /\ l.answer = loop[r].answer
  BY DEF Shape, Locals
<1> HIDE DEF l
<1>3. LocalsOf(l, log)
  BY <1>2 DEF LocalsOf, GuardsOf
<1> QED
  BY <1>1, <1>3, GoLocals

\* A longer log has the ids of a shorter one.
LEMMA LongerLog ==
  ASSUME NEW l, NEW S, NEW log \in Seq(S), NEW row, LocalsOf(l, log)
  PROVE  /\ LocalsOf(l, Append(log, row)) /\ Append(log, row) \in Seq(S \cup {row})
         /\ Len(log) + 1 \in 0..Len(Append(log, row))
<1>1. /\ log \in Seq(S \cup {row}) /\ Len(log) \in Nat
      /\ Len(Append(log, row)) = Len(log) + 1
  OBVIOUS
<1>2. Append(log, row) \in Seq(S \cup {row})
  BY <1>1
<1> QED
  BY <1>1, <1>2 DEF LocalsOf

\* Logging keeps everybody's locals within the limits.
LEMMA LogAnswerLocals ==
  ASSUME Shape, LoopTypes, NEW r \in Runs, NEW next, NEW status,
         LogAnswer(r, status, next), next # "calls",
         next \in {"log", "put"} => loop[r].answer \in Answers
  PROVE  /\ LocalsOf(loop'[r], answerLog')
         /\ \A s \in Runs \ {r} : LocalsOf(loop[s], answerLog')
         /\ \E S : answerLog' \in Seq(S)
<1>1. \A s \in Runs : LocalsOf(loop[s], answerLog)
  BY DEF LoopTypes
<1>2. CASE UNCHANGED answerLog /\ GoTo(r, next)
  BY <1>1, <1>2, GoToLocals DEF LoopTypes
<1> DEFINE row == [by |-> r, status |-> status, answer |-> loop[r].answer]
           l == [loop[r] EXCEPT !.logId = Len(answerLog) + 1, !.at = next]
<1>3. CASE answerLog' = Append(answerLog, row) /\ Go(r, l)
  <2>1. PICK S : answerLog \in Seq(S)
    BY DEF LoopTypes
  <2> HIDE DEF row
  <2>2. /\ \A s \in Runs : LocalsOf(loop[s], answerLog')
        /\ answerLog' \in Seq(S \cup {row}) /\ Len(answerLog) + 1 \in 0..Len(answerLog')
    BY <1>1, <1>3, <2>1, LongerLog
  <2>3. /\ DOMAIN l = Locals
        /\ l.at = next /\ l.turn = loop[r].turn /\ l.executed = loop[r].executed
        /\ l.visited = loop[r].visited /\ l.text = loop[r].text
        /\ l.emitted = loop[r].emitted /\ l.logId = Len(answerLog) + 1
        /\ l.answer = loop[r].answer
    BY DEF Shape, Locals
  <2> HIDE DEF l
  <2>4. LocalsOf(l, answerLog')
    BY <2>2, <2>3 DEF LocalsOf, GuardsOf
  <2>5. LocalsOf(loop'[r], answerLog')
    BY <1>3, <2>3, <2>4, GoLocals
  <2> QED
    BY <2>2, <2>5
<1> QED
  BY <1>2, <1>3 DEF LogAnswer

\* After the calls of a turn comes one that is within max_turns, since it was
\* not the last turn that called them.
LEMMA CalledLocals ==
  ASSUME Shape, NEW r \in Runs, NEW l, NEW log, DOMAIN l = Locals, Called(r, l),
         l.at = "calls", LocalsOf(l, log)
  PROVE  LocalsOf(loop'[r], log)
<1> DEFINE more == [l EXCEPT !.calls = Tail(@)]
           next == [l EXCEPT !.calls = <<>>, !.at = "turn", !.turn = @ + 1,
                             !.text = 0, !.emitted = 0, !.base = shown[r]]
<1>1. CASE Go(r, more)
  <2>1. /\ DOMAIN more = Locals
        /\ more.at = l.at /\ more.turn = l.turn /\ more.executed = l.executed
        /\ more.visited = l.visited /\ more.text = l.text
        /\ more.emitted = l.emitted /\ more.logId = l.logId /\ more.answer = l.answer
    BY DEF Locals
  <2> HIDE DEF more
  <2>2. LocalsOf(more, log)
    BY <2>1 DEF LocalsOf, GuardsOf
  <2> QED
    BY <1>1, <2>1, <2>2, GoLocals
<1>2. CASE Go(r, next)
  <2>1. /\ DOMAIN next = Locals
        /\ next.at = "turn" /\ next.turn = l.turn + 1 /\ next.executed = l.executed
        /\ next.visited = l.visited /\ next.text = 0
        /\ next.emitted = 0 /\ next.logId = l.logId
    BY DEF Locals
  <2> HIDE DEF next
  <2>2. next.turn \in 0..MaxTurns
    BY <2>1, LimitsAssumption DEF LocalsOf, GuardsOf
  <2>3. LocalsOf(next, log)
    BY <2>1, <2>2, LimitsAssumption DEF LocalsOf, GuardsOf
  <2> QED
    BY <1>2, <2>1, <2>3, GoLocals
<1> QED
  BY <1>1, <1>2 DEF Called

\* A tool call runs within the limits or is answered in-band.
LEMMA CallLocals ==
  ASSUME Shape, NEW r \in Runs, Call(r), LocalsOf(loop[r], answerLog)
  PROVE  LocalsOf(loop'[r], answerLog)
<1> DEFINE call == Head(loop[r].calls)
           seen == [loop[r] EXCEPT !.visited = @ \cup {call}]
           runs == call \notin loop[r].visited /\ Len(loop[r].executed) < MaxExecutions
                     /\ call[1] \in KnownTools
           ran(found) == [seen EXCEPT !.executed = Append(@, call),
                                      !.sources = Pool(@, found)]
<1>1. /\ loop[r].at = "calls"
      /\ \/ Over(r)
         \/ Called(r, seen)
         \/ runs /\ \E found \in Findings : Called(r, ran(found))
  BY Zenon DEF Call
<1> HIDE DEF runs, ran
<1>2. /\ DOMAIN seen = Locals
      /\ seen.at = "calls" /\ seen.turn = loop[r].turn /\ seen.executed = loop[r].executed
      /\ seen.visited = loop[r].visited \cup {call} /\ seen.text = loop[r].text
      /\ seen.emitted = loop[r].emitted /\ seen.logId = loop[r].logId
  BY <1>1 DEF Shape, Locals
<1> HIDE DEF call, seen
<1>3. CASE Over(r)
  BY <1>3, GoToLocals DEF Over
<1>4. CASE Called(r, seen)
  <2>1. seen.executed \in Seq(seen.visited)
    BY <1>2 DEF LocalsOf, GuardsOf
  <2>2. LocalsOf(seen, answerLog)
    BY <1>1, <1>2, <2>1 DEF LocalsOf, GuardsOf
  <2> QED
    BY <1>2, <1>4, <2>2, CalledLocals
<1>5. ASSUME runs, NEW found \in Findings, Called(r, ran(found))
      PROVE  LocalsOf(loop'[r], answerLog)
  <2> DEFINE l == ran(found)
  <2>1. /\ DOMAIN l = Locals
        /\ l.at = "calls" /\ l.turn = seen.turn /\ l.executed = Append(seen.executed, call)
        /\ l.visited = seen.visited /\ l.text = seen.text
        /\ l.emitted = seen.emitted /\ l.logId = seen.logId
    BY <1>2 DEF Locals, ran
  <2>2. Called(r, l)
    BY <1>5
  <2> HIDE DEF l
  <2>3. GuardsOf(l)
    <3> DEFINE s == loop[r].executed
               V == loop[r].visited
    <3>1. /\ s \in Seq(V) /\ call \notin V /\ call[1] \in KnownTools
          /\ Len(s) < MaxExecutions
          /\ \A i \in 1..Len(s) : s[i][1] \in KnownTools
          /\ \A i, j \in 1..Len(s) : s[i] = s[j] => i = j
      BY <1>5 DEF LocalsOf, GuardsOf, runs
    <3>2. l.executed = Append(s, call) /\ l.visited = V \cup {call}
      BY <1>2, <2>1
    <3> HIDE DEF s, V
    <3>3. LET n == Append(s, call) IN
          /\ n \in Seq(V \cup {call}) /\ Len(n) <= MaxExecutions
          /\ \A i \in 1..Len(n) : n[i][1] \in KnownTools
          /\ \A i, j \in 1..Len(n) : n[i] = n[j] => i = j
      BY <3>1, OneMoreCall
    <3>4. l.turn \in 0..MaxTurns
      BY <1>2, <2>1 DEF LocalsOf, GuardsOf
    <3> QED
      BY <3>2, <3>3, <3>4 DEF GuardsOf
  <2>4. LocalsOf(l, answerLog)
    BY <1>1, <1>2, <2>1, <2>3 DEF LocalsOf
  <2> QED
    BY <2>1, <2>2, <2>4, CalledLocals
<1> QED
  BY <1>1, <1>3, <1>4, <1>5

\* A provider event keeps the cursor within the text.
LEMMA StreamLocals ==
  ASSUME Shape, NEW r \in Runs, Stream(r), LocalsOf(loop[r], answerLog)
  PROVE  LocalsOf(loop'[r], answerLog)
<1> DEFINE text == loop[r].text + 1
           upto == IF text > TailWindow THEN text - TailWindow ELSE 0
           new  == upto > loop[r].emitted
           l == [loop[r] EXCEPT !.text = text, !.emitted = IF new THEN upto ELSE @,
                                !.at = IF new /\ ~listening[r] THEN "over" ELSE "turn"]
<1>1. loop[r].at = "turn" /\ loop[r].text < MaxText /\ Go(r, l)
  BY DEF Stream
<1>2. /\ DOMAIN l = Locals /\ l.at \in {"over", "turn"}
      /\ l.turn = loop[r].turn /\ l.executed = loop[r].executed
      /\ l.visited = loop[r].visited /\ l.text = text
      /\ l.emitted \in {upto, loop[r].emitted} /\ l.logId = loop[r].logId
  BY DEF Shape, Locals
<1>3. /\ text \in 0..MaxText /\ upto \in Nat /\ upto <= text
      /\ loop[r].emitted \in Nat /\ loop[r].emitted <= text
  BY <1>1, LimitsAssumption, WindowAssumption DEF LocalsOf
<1> HIDE DEF l, text, upto, new
<1>4. LocalsOf(l, answerLog)
  BY <1>2, <1>3 DEF LocalsOf, GuardsOf
<1> QED
  BY <1>1, <1>2, <1>4, GoLocals

\* The last completion is an answer.
LEMMA TurnAnswersLocals ==
  ASSUME Shape, NEW r \in Runs, TurnAnswers(r), LocalsOf(loop[r], answerLog)
  PROVE  LocalsOf(loop'[r], answerLog)
<1>1. PICK tail \in 0..loop[r].text, fenced \in BOOLEAN, cites \in Citings :
        LET len  == Body(loop[r].text, tail, fenced)
            rest == IF len > loop[r].emitted THEN len - loop[r].emitted ELSE 0
        IN  Go(r, [loop[r] EXCEPT !.answer = [by |-> r, cites |-> cites, len |-> len],
                                  !.fits = tail <= TailWindow,
                                  !.at = IF rest > 0 /\ ~listening[r] THEN "over"
                                         ELSE IF ~req[r].assist THEN "log"
                                         ELSE AssistEnd(r, cites)])
  BY Zenon DEF TurnAnswers
<1> DEFINE len  == Body(loop[r].text, tail, fenced)
           rest == IF len > loop[r].emitted THEN len - loop[r].emitted ELSE 0
           ans  == [by |-> r, cites |-> cites, len |-> len]
           at   == IF rest > 0 /\ ~listening[r] THEN "over"
                   ELSE IF ~req[r].assist THEN "log" ELSE AssistEnd(r, cites)
<1>2. /\ Go(r, [loop[r] EXCEPT !.answer = ans, !.fits = tail <= TailWindow, !.at = at])
      /\ at # "calls"
  BY <1>1 DEF AssistEnd
<1>3. len \in Nat
  BY DEF Body, Shape
<1> HIDE DEF len, at
<1>4. ans \in Answers
  BY <1>3, LimitsAssumption DEF Answers
<1> HIDE DEF ans
<1> DEFINE l == [loop[r] EXCEPT !.answer = ans, !.fits = tail <= TailWindow, !.at = at]
<1>5. /\ DOMAIN l = Locals /\ l.at = at
      /\ l.turn = loop[r].turn /\ l.executed = loop[r].executed
      /\ l.visited = loop[r].visited /\ l.text = loop[r].text
      /\ l.emitted = loop[r].emitted /\ l.logId = loop[r].logId /\ l.answer = ans
  BY DEF Shape, Locals
<1>6. Go(r, l)
  BY <1>2
<1> HIDE DEF l
<1>7. LocalsOf(l, answerLog)
  BY <1>2, <1>4, <1>5 DEF LocalsOf, GuardsOf
<1> QED
  BY <1>5, <1>6, <1>7, GoLocals

\* A lookup uses up nothing, whatever it finds.
LEMMA LookupLocals ==
  ASSUME Shape, NEW r \in Runs, LookupHit(r) \/ LookupMiss(r), LocalsOf(loop[r], answerLog)
  PROVE  LocalsOf(loop'[r], answerLog)
<1>1. CASE GoTo(r, "turn")
  BY <1>1, GoToLocals
<1>2. CASE LookupHit(r)
  <2> DEFINE row == answers[Key(r)]
             l == [loop[r] EXCEPT !.answer = row.answer, !.cached = TRUE,
                                  !.sources = row.sources,
                                  !.at = IF req[r].assist THEN "over" ELSE "replay"]
  <2>1. Go(r, l)
    BY <1>2, Zenon DEF LookupHit
  <2>2. /\ DOMAIN l = Locals /\ l.at \in {"over", "replay"}
        /\ l.turn = loop[r].turn /\ l.executed = loop[r].executed
        /\ l.visited = loop[r].visited /\ l.text = loop[r].text
        /\ l.emitted = loop[r].emitted /\ l.logId = loop[r].logId
    BY DEF Shape, Locals
  <2> HIDE DEF l
  <2>3. LocalsOf(l, answerLog)
    BY <2>2 DEF LocalsOf, GuardsOf
  <2> QED
    BY <2>1, <2>2, <2>3, GoLocals
<1>3. ASSUME NEW given \in Findings,
             Go(r, [loop[r] EXCEPT !.sources = given,
                                   !.at = IF listening[r] THEN "turn" ELSE "over"])
      PROVE  LocalsOf(loop'[r], answerLog)
  <2> DEFINE l == [loop[r] EXCEPT !.sources = given,
                                  !.at = IF listening[r] THEN "turn" ELSE "over"]
  <2>1. /\ DOMAIN l = Locals /\ l.at \in {"turn", "over"}
        /\ l.turn = loop[r].turn /\ l.executed = loop[r].executed
        /\ l.visited = loop[r].visited /\ l.text = loop[r].text
        /\ l.emitted = loop[r].emitted /\ l.logId = loop[r].logId
    BY DEF Shape, Locals
  <2>2. Go(r, l)
    BY <1>3
  <2> HIDE DEF l
  <2>3. LocalsOf(l, answerLog)
    BY <2>1 DEF LocalsOf, GuardsOf
  <2> QED
    BY <2>1, <2>2, <2>3, GoLocals
<1> QED
  BY <1>1, <1>2, <1>3, Zenon DEF LookupMiss

\* Calls are taken up before the last turn only: a forced one has no tools.
LEMMA TurnCallsToolsLocals ==
  ASSUME Shape, NEW r \in Runs, TurnCallsTools(r), LocalsOf(loop[r], answerLog)
  PROVE  LocalsOf(loop'[r], answerLog)
<1>1. PICK calls \in CallLists : Go(r, [loop[r] EXCEPT !.at = "calls", !.calls = calls])
  BY Zenon DEF TurnCallsTools
<1> DEFINE l == [loop[r] EXCEPT !.at = "calls", !.calls = calls]
<1>2. /\ DOMAIN l = Locals /\ l.at = "calls"
      /\ l.turn = loop[r].turn /\ l.executed = loop[r].executed
      /\ l.visited = loop[r].visited /\ l.text = loop[r].text
      /\ l.emitted = loop[r].emitted /\ l.logId = loop[r].logId
  BY DEF Shape, Locals
<1>3. loop[r].turn # MaxTurns /\ Go(r, l)
  BY <1>1 DEF TurnCallsTools, Forced
<1> HIDE DEF l
<1>4. LocalsOf(l, answerLog)
  BY <1>2, <1>3 DEF LocalsOf, GuardsOf
<1> QED
  BY <1>2, <1>3, <1>4, GoLocals

\* Every step of a run keeps it within its limits, and writes answers only.
LEMMA LoopStepTypes ==
  ASSUME LoopInv, LoopTypes, NEW r \in Runs, LoopStep(r)
  PROVE  LoopTypes'
<1>1. /\ Shape /\ LocalsOf(loop[r], answerLog) /\ \A s \in Runs : LocalsOf(loop[s], answerLog)
      /\ \E S : answerLog \in Seq(S)
  BY DEF LoopInv, LoopTypes
<1>2. /\ req' = req /\ \A s \in Runs \ {r} : loop'[s] = loop[s]
      /\ \/ UNCHANGED answers
         \/ /\ loop[r].at = "put"
            /\ answers' = [answers EXCEPT ![Key(r)] =
                 [answer |-> loop[r].answer, sources |-> loop[r].sources]]
  BY StepRun DEF Others
<1>3. /\ LocalsOf(loop'[r], answerLog')
      /\ \A s \in Runs \ {r} : LocalsOf(loop[s], answerLog')
      /\ \E S : answerLog' \in Seq(S)
  <2>1. CASE LookupHit(r) \/ LookupMiss(r)
    <3>1. UNCHANGED answerLog
      BY <2>1, Zenon DEF LookupHit, LookupMiss
    <3>2. LocalsOf(loop'[r], answerLog)
      BY <1>1, <2>1, LookupLocals
    <3> QED
      BY <1>1, <3>1, <3>2
  <2>2. CASE Replay(r)
    BY <1>1, <2>2, LogAnswerLocals DEF Replay
  <2>3. CASE Stream(r)
    <3>1. UNCHANGED answerLog
      BY <2>3, Zenon DEF Stream
    <3>2. LocalsOf(loop'[r], answerLog)
      BY <1>1, <2>3, StreamLocals
    <3> QED
      BY <1>1, <3>1, <3>2
  <2>4. CASE TurnFails(r)
    <3>1. GoTo(r, "over") \/ GoTo(r, "fail")
      BY <2>4, Zenon DEF TurnFails, Over
    <3>2. LocalsOf(loop'[r], answerLog)
      BY <1>1, <3>1, GoToLocals
    <3> QED
      BY <1>1, <2>4, <3>2 DEF TurnFails
  <2>5. CASE Fail(r)
    BY <1>1, <2>5, LogAnswerLocals DEF Fail
  <2>6. CASE TurnCallsTools(r)
    <3>1. UNCHANGED answerLog
      BY <2>6, Zenon DEF TurnCallsTools
    <3>2. LocalsOf(loop'[r], answerLog)
      BY <1>1, <2>6, TurnCallsToolsLocals
    <3> QED
      BY <1>1, <3>1, <3>2
  <2>7. CASE TurnAnswers(r)
    <3>1. UNCHANGED answerLog
      BY <2>7, Zenon DEF TurnAnswers
    <3>2. LocalsOf(loop'[r], answerLog)
      BY <1>1, <2>7, TurnAnswersLocals
    <3> QED
      BY <1>1, <3>1, <3>2
  <2>8. CASE Call(r)
    <3>1. UNCHANGED answerLog
      BY <2>8, Zenon DEF Call
    <3>2. LocalsOf(loop'[r], answerLog)
      BY <1>1, <2>8, CallLocals
    <3> QED
      BY <1>1, <3>1, <3>2
  <2>9. CASE Log(r)
    <3>1. loop[r].answer \in Answers
      BY <1>1, <2>9 DEF Log, LocalsOf
    <3>2. \E next : next # "calls" /\ LogAnswer(r, "done", next)
      BY <2>9 DEF Log
    <3> QED
      BY <1>1, <3>1, <3>2, LogAnswerLocals
  <2>10. CASE Put(r)
    BY <1>1, <2>10, GoToLocals DEF Put, Over
  <2> QED
    BY <2>1, <2>2, <2>3, <2>4, <2>5, <2>6, <2>7, <2>8, <2>9, <2>10 DEF LoopStep
<1>4. ASSUME NEW k \in Keys, answers'[k] # NoAnswer PROVE answers'[k].answer \in Answers
  <2>1. CASE answers'[k] = answers[k]
    BY <1>4, <2>1 DEF LoopTypes
  <2>2. CASE answers'[k] # answers[k]
    <3>1. /\ loop[r].at = "put"
          /\ answers'[k] = [answer |-> loop[r].answer, sources |-> loop[r].sources]
      BY <1>1, <1>2, <2>2 DEF Shape
    <3>2. answers'[k].answer = loop[r].answer
      BY <3>1
    <3> QED
      BY <1>1, <3>1, <3>2 DEF LocalsOf
  <2> QED
    BY <2>1, <2>2
<1>5. \A s \in Runs : LocalsOf(loop'[s], answerLog')
  BY <1>2, <1>3
<1> QED
  BY <1>2, <1>3, <1>4, <1>5 DEF LoopTypes

\* A run begins within its limits.
LEMMA BeginTypes ==
  ASSUME Shape, LoopTypes, NEW r \in Runs, NEW rq \in Requests, Begin(r, rq)
  PROVE  LoopTypes'
<1>1. /\ req' = [req EXCEPT ![r] = rq] /\ GoTo(r, "lookup")
      /\ UNCHANGED <<answers, answerLog>>
  BY DEF Begin
<1>2. req' \in [Runs -> Requests]
  BY <1>1 DEF LoopTypes
<1>3. LocalsOf(loop'[r], answerLog)
  BY <1>1, GoToLocals DEF LoopTypes
<1>4. \A s \in Runs \ {r} : loop'[s] = loop[s]
  BY <1>1, GoToFields
<1>5. \A s \in Runs : LocalsOf(loop'[s], answerLog')
  BY <1>1, <1>3, <1>4 DEF LoopTypes
<1> QED
  BY <1>1, <1>2, <1>5 DEF LoopTypes

\* Leaving and expiry take something away only.
LEMMA AwayTypes ==
  ASSUME Shape, LoopTypes,
         \/ \E r \in Runs : Leave(r)
         \/ \E k \in Keys : Expire(k)
         \/ UNCHANGED loopVars
  PROVE  LoopTypes'
<1>1. /\ UNCHANGED <<req, loop, answerLog>>
      /\ \A k \in Keys : answers'[k] = answers[k] \/ answers'[k] = NoAnswer
  BY DEF Leave, Expire, loopVars, Shape
<1> QED
  BY <1>1 DEF LoopTypes

\* At first nothing is asked, spent or stored.
LEMMA InitTypes == Init => LoopTypes /\ ServerTypes
<1> SUFFICES ASSUME Init PROVE LoopTypes /\ ServerTypes
  OBVIOUS
<1>1. (CHOOSE a \in Asks : TRUE) \in Asks /\ Questions # {}
  BY AsksAssumption DEF Ask
<1>2. NoRequest \in Requests
  BY <1>1 DEF NoRequest, Requests
<1>3. LocalsOf(Fresh, <<>>)
  <2>1. /\ Fresh.at = "off" /\ Fresh.turn = 0 /\ Fresh.visited = {} /\ Fresh.executed = <<>>
        /\ Fresh.text = 0 /\ Fresh.emitted = 0 /\ Fresh.logId = 0
    BY DEF Fresh
  <2>2. <<>> \in Seq({}) /\ Len(<<>>) = 0
    OBVIOUS
  <2>3. GuardsOf(Fresh)
    BY <2>1, <2>2, LimitsAssumption DEF GuardsOf
  <2> QED
    BY <2>1, <2>2, <2>3, LimitsAssumption DEF LocalsOf
<1>4. LoopTypes
  <2>1. /\ req \in [Runs -> Requests] /\ answerLog = <<>>
        /\ \A r \in Runs : loop[r] = Fresh
        /\ \A k \in Keys : answers[k] = NoAnswer
    BY <1>2 DEF Init, LoopInit
  <2>2. \E S : <<>> \in Seq(S)
    <3>1. <<>> \in Seq({})
      OBVIOUS
    <3> QED
      BY <3>1
  <2> QED
    BY <1>3, <2>1, <2>2 DEF LoopTypes
<1>5. ServerTypes
  <2>1. ask \in [Runs -> Asks]
    BY <1>1 DEF Init
  <2>2. \A t \in Threads : threads[t].owner = NoThread
    BY DEF Init, NoRow
  <2>3. budget.used = [c \in Clients |-> 0] /\ 0 \in 0..DailyAnswers
    BY DaysAssumption DEF Init
  <2> QED
    BY <2>1, <2>2, <2>3 DEF ServerTypes
<1> QED
  BY <1>4, <1>5

\* The handlers ask what clients may ask, keep an owner with a thread, and
\* spend no more than the day's answers.
LEMMA HandlerTypes ==
  ASSUME IInv, LoopTypes, ServerTypes, NEW r \in Runs, Arrive(r) \/ Handler(r)
  PROVE  LoopTypes' /\ ServerTypes'
<1>1. Shape /\ ServerShape /\ ask[r] \in Asks /\ ask[r] \in Ask
  BY AsksAssumption DEF IInv, LoopInv, ServerInv, ServerTypes
<1>2. [q |-> ask[r].q, assist |-> ask[r].assist, multi |-> history[r] # <<>>] \in Requests
  BY <1>1 DEF Ask, Requests
<1>3. ASSUME Respond(r) PROVE LoopTypes'
  BY <1>1, <1>2, <1>3, BeginTypes DEF Respond
<1>4. ASSUME UNCHANGED loopVars PROVE LoopTypes'
  BY <1>1, <1>4, AwayTypes
<1>5. LoopTypes'
  BY <1>3, <1>4 DEF Arrive, Handler, Reject, AcceptUncharged, ReadDay, Charge, Deliver,
                    loopVars
<1>6. CASE Arrive(r)
  <2>1. \E a \in Asks : ask' = [ask EXCEPT ![r] = a]
    BY <1>6 DEF Arrive
  <2>2. UNCHANGED <<threads, budget>>
    BY <1>6 DEF Arrive, Handling
  <2> QED
    BY <1>5, <2>1, <2>2 DEF ServerTypes
<1>7. CASE Charge(r)
  <2> DEFINE c == ask[r].ip
             b == RolledOver(post[r].day)
  <2>1. post[r].day \in Days /\ c \in Clients
    BY <1>1 DEF ServerShape, Ask
  <2>2. b.used \in [Clients -> 0..DailyAnswers] /\ b \in [day : 0..LastDay, used : [Clients -> Nat]]
    BY <1>1, <2>1, RolledOverShape, DaysAssumption DEF ServerShape, ServerTypes, RolledOver
  <2>3. UNCHANGED <<ask, threads>>
    BY <1>7 DEF Charge, Handling
  <2>4. \/ budget' = b
        \/ b.used[c] < DailyAnswers /\ budget' = [b EXCEPT !.used[c] = @ + 1]
    BY <1>7 DEF Charge
  <2> HIDE DEF b, c
  <2>5. b.used[c] < DailyAnswers => b.used[c] + 1 \in 0..DailyAnswers
    BY <2>1, <2>2, DaysAssumption
  <2>6. budget'.used \in [Clients -> 0..DailyAnswers]
    BY <2>1, <2>2, <2>4, <2>5
  <2> QED
    BY <1>5, <2>3, <2>6 DEF ServerTypes
<1>8. CASE Deliver(r)
  <2>1. UNCHANGED <<ask, budget>>
    BY <1>8 DEF Deliver
  <2>2. threads' = threads \/ threads' = [threads EXCEPT ![ask[r].thread] = Upsert(r)]
    BY <1>8 DEF Deliver
  <2>3. Upsert(r).owner \in Owners
    BY <1>1 DEF Upsert, Ask
  <2>4. \A t \in Threads : threads'[t].owner \in Owners \cup {NoThread}
    BY <1>1, <2>2, <2>3 DEF ServerShape, ServerTypes
  <2> QED
    BY <1>5, <2>1, <2>4 DEF ServerTypes
<1>9. CASE Reject(r) \/ AcceptUncharged(r) \/ ReadDay(r)
  <2>1. UNCHANGED <<ask, threads, budget>>
    BY <1>9 DEF Reject, AcceptUncharged, ReadDay, Handling
  <2> QED
    BY <1>5, <2>1 DEF ServerTypes
<1> QED
  BY <1>6, <1>7, <1>8, <1>9 DEF Handler

\* Every step keeps limits and types.
LEMMA NextTypes ==
  ASSUME IInv, LoopTypes, ServerTypes, [Next]_vars
  PROVE  LoopTypes' /\ ServerTypes'
<1>1. LoopInv /\ Shape
  BY DEF IInv, LoopInv
<1>2. ASSUME UNCHANGED serverVars PROVE ServerTypes'
  BY <1>2 DEF serverVars, ServerTypes
<1>3. ASSUME NEW r \in Runs, LoopStep(r) \/ Leave(r), UNCHANGED serverVars
      PROVE  LoopTypes' /\ ServerTypes'
  BY <1>1, <1>2, <1>3, LoopStepTypes, AwayTypes
<1>4. ASSUME NEW k \in Keys, Expire(k), UNCHANGED serverVars
      PROVE  LoopTypes' /\ ServerTypes'
  BY <1>1, <1>2, <1>4, AwayTypes
<1>5. ASSUME NEW t \in Threads, NEW o \in Owners, ThreadsDelete(t, o)
      PROVE  LoopTypes' /\ ServerTypes'
  <2>1. /\ UNCHANGED loopVars /\ UNCHANGED <<ask, budget>>
        /\ threads' = [threads EXCEPT ![t] = NoRow]
    BY <1>5 DEF ThreadsDelete
  <2>2. LoopTypes'
    BY <1>1, <2>1, AwayTypes
  <2>3. \A u \in Threads : threads'[u].owner \in Owners \cup {NoThread}
    BY <2>1 DEF IInv, ServerInv, ServerShape, ServerTypes, NoRow
  <2> QED
    BY <2>1, <2>2, <2>3 DEF ServerTypes
<1>6. CASE UNCHANGED vars
  BY <1>1, <1>2, <1>6, AwayTypes DEF vars
<1> QED
  BY <1>3, <1>4, <1>5, <1>6, HandlerTypes DEF Next

\* A run is bounded whatever its model asks for: no more turns than max_turns
\* and the forced one, no more tool calls dispatched than the limit, none of
\* them of an unknown tool and none a second time (answer.rs:18-23, config.rs).
THEOREM RunsAreBounded == Spec => []Guarded
<1>1. LoopTypes => Guarded
  BY DEF LoopTypes, LocalsOf, Guarded
<1>2. Init => LoopTypes /\ ServerTypes
  BY InitTypes
<1>3. IInv /\ LoopTypes /\ ServerTypes /\ [Next]_vars => LoopTypes' /\ ServerTypes'
  BY NextTypes
<1> QED
  BY <1>1, <1>2, <1>3, Invariance, PTL DEF Spec

\* Every reachable state of the loop and of the route is well typed; no tally
\* of the daily budget exceeds it (DailyCount::charge).
THEOREM TypeCorrect == Spec => []TypeOK
<1>1. IInv /\ LoopTypes /\ ServerTypes => TypeOK
  <2> SUFFICES ASSUME IInv, LoopTypes, ServerTypes PROVE TypeOK
    OBVIOUS
  <2>1. Shape /\ ServerShape
    BY DEF IInv, LoopInv, ServerInv
  <2>2. LoopTypeOK
    <3>1. \A r \in Runs : /\ loop[r].turn \in 0..MaxTurns /\ loop[r].text \in 0..MaxText
                          /\ loop[r].emitted <= loop[r].text
                          /\ loop[r].logId \in 0..Len(answerLog)
      BY DEF LoopTypes, LocalsOf, GuardsOf
    <3>2. /\ \A r \in Runs : /\ loop[r].at \in Stages
                             /\ frames[r] \in Seq(Frames) /\ shown[r] \in Nat
          /\ listening \in [Runs -> BOOLEAN]
      BY <2>1 DEF Shape
    <3> QED
      BY <3>1, <3>2 DEF LoopTypes, LoopTypeOK, Stages
  <2>3. \A r \in Runs : /\ post[r].at \in PostStages /\ post[r].day \in Days
                        /\ history[r] \in Seq(Runs)
    BY <2>1 DEF ServerShape
  <2>4. today \in Days /\ budget.day \in 0..LastDay
    BY <2>1 DEF ServerShape
  <2> QED
    BY <2>2, <2>3, <2>4 DEF ServerTypes, TypeOK, PostStages
<1>2. Init => LoopTypes /\ ServerTypes
  BY InitTypes
<1>3. IInv /\ LoopTypes /\ ServerTypes /\ [Next]_vars => LoopTypes' /\ ServerTypes'
  BY NextTypes
<1> QED
  BY <1>1, <1>2, <1>3, Invariance, PTL DEF Spec
=============================================================================

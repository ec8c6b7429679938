---------------------------- MODULE DurableProofs ----------------------------
(***************************************************************************)
(* Proofs about the two parts that write to disk behind the program's back *)
(* and are read again after it has died: the health of the engines         *)
(* (HealthPersist) and the JSONL log (Logs), for any number of writers and *)
(* any changes, failed writes, days and crashes.                           *)
(***************************************************************************)
EXTENDS HealthPersist, Logs, FiniteSetTheorems, SequenceTheorems, WellFoundedInduction, TLAPS

-----------------------------------------------------------------------------
(* The health of the engines.  No change and no transition is lost on its  *)
(* way to the store.  NothingLost is not inductive: it also needs that a   *)
(* flush holds nothing before it drains and after it has returned, that    *)
(* the disk never runs ahead of the newest row written to it, and that the *)
(* transition of a new change has not been seen before.                    *)

\* Only a flush that is writing holds rows or transitions.
HandsEmpty ==
  \A f \in Flushers : pc[f] # "writing" => rows[f] = {} /\ batch[f] = {}

DiskBehind == \A e \in Engines : disk[e] <= high[e]

\* Every transition on its way, or settled, is of a change that has happened.
Numbered ==
  /\ \A t \in pending \cup settled : t[2] <= changes
  /\ \A f \in Flushers : \A t \in batch[f] : t[2] <= changes

IInv == TypeOK /\ HandsEmpty /\ DiskBehind /\ Numbered /\ NothingLost

\* A fresh process owes the store nothing.
LEMMA InitIInv == Init => IInv
<1> SUFFICES ASSUME Init PROVE IInv
  OBVIOUS
<1>1. 0 \in Changes /\ 0 \in 0..MaxFailures /\ 0 \in 0..MaxCrashes
  BY BoundAssumption DEF Changes
<1>2. TypeOK
  BY <1>1 DEF Init, TypeOK
<1>3. HandsEmpty /\ Numbered
  BY DEF Init, HandsEmpty, Numbered
<1>4. DiskBehind /\ NothingForgotten
  BY DEF Init, DiskBehind, NothingForgotten
<1>5. OnePlace
  BY DEF Init, OnePlace
<1> QED
  BY <1>2, <1>3, <1>4, <1>5 DEF IInv, NothingLost

\* The transition of a change is new: it is in nobody's hands.
LEMMA RecordStep ==
  ASSUME IInv, NEW f \in Flushers, Record(f)
  PROVE  IInv'
<1>1. TypeOK'
  BY BoundAssumption DEF IInv, TypeOK, Changes, Entries, Record, Change, store
<1>2. HandsEmpty'
  BY DEF IInv, TypeOK, HandsEmpty, Record, Change, store
<1>3. DiskBehind'
  BY DEF IInv, TypeOK, DiskBehind, Changes, Entries, Record, Change, store
<1>4. Numbered'
  BY DEF IInv, TypeOK, Numbered, Changes, Entries, Record, Change, store
<1>5. NothingForgotten'
  BY DEF IInv, TypeOK, NothingLost, NothingForgotten, Changes, Entries,
         Record, Change, store
<1>6. OnePlace'
  BY DEF IInv, TypeOK, NothingLost, OnePlace, Changes, Entries, Record,
         Change, store, Numbered
<1> QED
  BY <1>1, <1>2, <1>3, <1>4, <1>5, <1>6 DEF IInv, NothingLost

LEMMA FlushDueStep ==
  ASSUME IInv, NEW f \in Flushers, FlushDue(f)
  PROVE  IInv'
<1>1. TypeOK'
  BY BoundAssumption DEF IInv, TypeOK, Changes, Entries, FlushDue, memory, store
<1>2. HandsEmpty'
  BY DEF IInv, TypeOK, HandsEmpty, FlushDue, memory, store
<1>3. DiskBehind'
  BY DEF IInv, TypeOK, DiskBehind, Changes, Entries, FlushDue, memory,
         store
<1>4. Numbered'
  BY DEF IInv, TypeOK, Numbered, Changes, Entries, FlushDue, memory, store
<1>5. NothingForgotten'
  BY DEF IInv, TypeOK, NothingLost, NothingForgotten, Changes, Entries,
         FlushDue, memory, store
<1>6. OnePlace'
  BY DEF IInv, TypeOK, NothingLost, OnePlace, Changes, Entries, FlushDue,
         memory, store
<1> QED
  BY <1>1, <1>2, <1>3, <1>4, <1>5, <1>6 DEF IInv, NothingLost

\* What is dirty or pending passes to a flush whose hands were empty.
LEMMA DrainStep ==
  ASSUME IInv, NEW f \in Flushers, Drain(f)
  PROVE  IInv'
<1>1. TypeOK'
  BY BoundAssumption DEF IInv, TypeOK, Changes, Entries, Drain, store
<1>2. HandsEmpty'
  BY DEF IInv, TypeOK, HandsEmpty, Drain, store
<1>3. DiskBehind'
  BY DEF IInv, TypeOK, DiskBehind, Changes, Entries, Drain, store
<1>4. Numbered'
  BY DEF IInv, TypeOK, Numbered, Changes, Entries, Drain, store
<1>5. NothingForgotten'
  BY DEF IInv, TypeOK, NothingLost, NothingForgotten, Changes, Entries,
         Drain, store, HandsEmpty
<1>6. OnePlace'
  BY DEF IInv, TypeOK, NothingLost, OnePlace, Changes, Entries, Drain,
         store, HandsEmpty
<1> QED
  BY <1>1, <1>2, <1>3, <1>4, <1>5, <1>6 DEF IInv, NothingLost

\* A row leaves a flush for the disk, or is dirty again.
LEMMA PutHealthStep ==
  ASSUME IInv, NEW f \in Flushers, PutHealth(f)
  PROVE  IInv'
<1>1. TypeOK'
  BY BoundAssumption DEF IInv, TypeOK, Changes, Entries, PutHealth, Write, Fails
<1>2. HandsEmpty'
  BY DEF IInv, TypeOK, HandsEmpty, PutHealth, Write, Fails
<1>3. DiskBehind'
  BY DEF IInv, TypeOK, DiskBehind, Changes, Entries, PutHealth, Write,
         Fails
<1>4. Numbered'
  BY DEF IInv, TypeOK, Numbered, Changes, Entries, PutHealth, Write, Fails
<1>5. NothingForgotten'
  BY DEF IInv, TypeOK, NothingLost, NothingForgotten, Changes, Entries,
         PutHealth, Write, Fails
<1>6. OnePlace'
  BY DEF IInv, TypeOK, NothingLost, OnePlace, Changes, Entries, PutHealth,
         Write, Fails
<1> QED
  BY <1>1, <1>2, <1>3, <1>4, <1>5, <1>6 DEF IInv, NothingLost

LEMMA AuditStep ==
  ASSUME IInv, NEW f \in Flushers, Audit(f)
  PROVE  IInv'
<1>1. TypeOK'
  BY BoundAssumption DEF IInv, TypeOK, Changes, Entries, Audit, Fails, memory
<1>2. HandsEmpty'
  BY DEF IInv, TypeOK, HandsEmpty, Audit, Fails, memory
<1>3. DiskBehind'
  BY DEF IInv, TypeOK, DiskBehind, Changes, Entries, Audit, Fails, memory
<1>4. Numbered'
  BY DEF IInv, TypeOK, Numbered, Changes, Entries, Audit, Fails, memory
<1>5. NothingForgotten'
  BY DEF IInv, TypeOK, NothingLost, NothingForgotten, Changes, Entries,
         Audit, Fails, memory
<1>6. OnePlace'
  BY DEF IInv, TypeOK, NothingLost, OnePlace, Changes, Entries, Audit,
         Fails, memory
<1> QED
  BY <1>1, <1>2, <1>3, <1>4, <1>5, <1>6 DEF IInv, NothingLost

LEMMA ReturnStep ==
  ASSUME IInv, NEW f \in Flushers, Return(f)
  PROVE  IInv'
<1>1. TypeOK'
  BY BoundAssumption DEF IInv, TypeOK, Changes, Entries, Return, memory, store
<1>2. HandsEmpty'
  BY DEF IInv, TypeOK, HandsEmpty, Return, memory, store
<1>3. DiskBehind'
  BY DEF IInv, TypeOK, DiskBehind, Changes, Entries, Return, memory, store
<1>4. Numbered'
  BY DEF IInv, TypeOK, Numbered, Changes, Entries, Return, memory, store
<1>5. NothingForgotten'
  BY DEF IInv, TypeOK, NothingLost, NothingForgotten, Changes, Entries,
         Return, memory, store
<1>6. OnePlace'
  BY DEF IInv, TypeOK, NothingLost, OnePlace, Changes, Entries, Return,
         memory, store
<1> QED
  BY <1>1, <1>2, <1>3, <1>4, <1>5, <1>6 DEF IInv, NothingLost

LEMMA DebounceElapsesStep ==
  ASSUME IInv, DebounceElapses
  PROVE  IInv'
<1>1. TypeOK'
  BY BoundAssumption DEF IInv, TypeOK, Changes, Entries, DebounceElapses, flushing, store
<1>2. HandsEmpty'
  BY DEF IInv, TypeOK, HandsEmpty, DebounceElapses, flushing, store
<1>3. DiskBehind'
  BY DEF IInv, TypeOK, DiskBehind, Changes, Entries, DebounceElapses,
         flushing, store
<1>4. Numbered'
  BY DEF IInv, TypeOK, Numbered, Changes, Entries, DebounceElapses,
         flushing, store
<1>5. NothingForgotten'
  BY DEF IInv, TypeOK, NothingLost, NothingForgotten, Changes, Entries,
         DebounceElapses, flushing, store
<1>6. OnePlace'
  BY DEF IInv, TypeOK, NothingLost, OnePlace, Changes, Entries,
         DebounceElapses, flushing, store
<1> QED
  BY <1>1, <1>2, <1>3, <1>4, <1>5, <1>6 DEF IInv, NothingLost

LEMMA ResetStep ==
  ASSUME IInv, NEW e \in Engines, Reset(e)
  PROVE  IInv'
<1>1. TypeOK'
  BY BoundAssumption DEF IInv, TypeOK, Changes, Entries, Reset, Change, flushing, store
<1>2. HandsEmpty'
  BY DEF IInv, TypeOK, HandsEmpty, Reset, Change, flushing, store
<1>3. DiskBehind'
  BY DEF IInv, TypeOK, DiskBehind, Changes, Entries, Reset, Change,
         flushing, store
<1>4. Numbered'
  BY DEF IInv, TypeOK, Numbered, Changes, Entries, Reset, Change, flushing,
         store
<1>5. NothingForgotten'
  BY DEF IInv, TypeOK, NothingLost, NothingForgotten, Changes, Entries,
         Reset, Change, flushing, store
<1>6. OnePlace'
  BY DEF IInv, TypeOK, NothingLost, OnePlace, Changes, Entries, Reset,
         Change, flushing, store
<1> QED
  BY <1>1, <1>2, <1>3, <1>4, <1>5, <1>6 DEF IInv, NothingLost

\* The reset route writes next to the flushes and takes nothing from them.
LEMMA ResetWriteStep ==
  ASSUME IInv, ResetWrite
  PROVE  IInv'
<1>1. TypeOK'
  BY BoundAssumption DEF IInv, TypeOK, Changes, Entries, ResetWrite, Write, Fails, memory,
         flushing
<1>2. HandsEmpty'
  BY DEF IInv, TypeOK, HandsEmpty, ResetWrite, Write, Fails, memory,
         flushing
<1>3. DiskBehind'
  BY DEF IInv, TypeOK, DiskBehind, Changes, Entries, ResetWrite, Write,
         Fails, memory, flushing
<1>4. Numbered'
  BY DEF IInv, TypeOK, Numbered, Changes, Entries, ResetWrite, Write,
         Fails, memory, flushing
<1>5. NothingForgotten'
  BY DEF IInv, TypeOK, NothingLost, NothingForgotten, Changes, Entries,
         ResetWrite, Write, Fails, memory, flushing
<1>6. OnePlace'
  BY DEF IInv, TypeOK, NothingLost, OnePlace, Changes, Entries, ResetWrite,
         Write, Fails, memory, flushing
<1> QED
  BY <1>1, <1>2, <1>3, <1>4, <1>5, <1>6 DEF IInv, NothingLost

\* A crash settles what was on its way; what is loaded is on disk.
LEMMA CrashAndLoadStep ==
  ASSUME IInv, CrashAndLoad
  PROVE  IInv'
<1>1. TypeOK'
  <2>1. mem' \in [Engines -> Changes]
    BY BoundAssumption DEF IInv, TypeOK, CrashAndLoad, Changes
  <2>2. settled' \subseteq Entries
    <3>1. UNION {batch[f] : f \in Flushers} \subseteq Entries
      BY DEF IInv, TypeOK
    <3> QED
      BY <3>1 DEF IInv, TypeOK, CrashAndLoad
  <2>3. /\ rows' \in [Flushers -> SUBSET Entries]
        /\ batch' \in [Flushers -> SUBSET Entries]
        /\ pc' \in [Flushers -> {"idle", "recorded", "due", "writing", "done"}]
    BY DEF CrashAndLoad
  <2>4. failures' \in 0..MaxFailures /\ crashes' \in 0..MaxCrashes
    BY BoundAssumption DEF IInv, TypeOK, CrashAndLoad, Fails
  <2>5. /\ dirty' = {} /\ pending' = {} /\ resetting' = {} /\ recent' = FALSE
        /\ UNCHANGED <<changes, disk, high>>
    BY DEF CrashAndLoad
  <2> QED
    BY <2>1, <2>2, <2>3, <2>4, <2>5 DEF IInv, TypeOK
<1>2. HandsEmpty'
  BY DEF IInv, TypeOK, HandsEmpty, CrashAndLoad, Fails
<1>3. DiskBehind'
  BY DEF IInv, TypeOK, DiskBehind, Changes, Entries, CrashAndLoad, Fails
<1>4. Numbered'
  BY DEF IInv, TypeOK, Numbered, Changes, Entries, CrashAndLoad, Fails
<1>5. NothingForgotten'
  BY DEF IInv, TypeOK, NothingLost, NothingForgotten, Changes, Entries,
         CrashAndLoad, Fails, DiskBehind
<1>6. OnePlace'
  BY DEF IInv, TypeOK, NothingLost, OnePlace, Changes, Entries,
         CrashAndLoad, Fails
<1> QED
  BY <1>1, <1>2, <1>3, <1>4, <1>5, <1>6 DEF IInv, NothingLost

\* Every step of the searches, the prober, the reset route and a crash keeps
\* the invariant.
LEMMA NextIInv == IInv /\ [Next]_vars => IInv'
<1> SUFFICES ASSUME IInv, [Next]_vars PROVE IInv'
  OBVIOUS
<1>1. CASE \E f \in Flushers : Record(f)
  BY <1>1, RecordStep
<1>2. CASE \E f \in Flushers : Flush(f)
  BY <1>2, FlushDueStep, DrainStep, PutHealthStep, AuditStep, ReturnStep DEF Flush
<1>3. CASE \E e \in Engines : Reset(e)
  BY <1>3, ResetStep
<1>4. CASE ResetWrite
  BY <1>4, ResetWriteStep
<1>5. CASE DebounceElapses
  BY <1>5, DebounceElapsesStep
<1>6. CASE CrashAndLoad
  BY <1>6, CrashAndLoadStep
<1>7. CASE UNCHANGED vars
  BY <1>7 DEF vars, memory, flushing, store, IInv, TypeOK, HandsEmpty,
              DiskBehind, Numbered, NothingLost, NothingForgotten, OnePlace
<1> QED
  BY <1>1, <1>2, <1>3, <1>4, <1>5, <1>6, <1>7 DEF Next

\* What the flushes hold, what is on disk and what has been numbered agree in
\* every reachable state.
THEOREM Invariance == Spec => []IInv
<1> QED
  BY InitIInv, NextIInv, PTL DEF Spec

\* Every reachable state of the persistence is well typed.
THEOREM TypeCorrect == Spec => []TypeOK
<1>1. IInv => TypeOK
  BY DEF IInv
<1> QED
  BY <1>1, Invariance, PTL

\* The current health of an engine is always on disk, on its way or dirty, and
\* a transition is in exactly one place, whatever fails, races or crashes.
THEOREM NothingLostAlways == Spec => []NothingLost
<1>1. IInv => NothingLost
  BY DEF IInv
<1> QED
  BY <1>1, Invariance, PTL

-----------------------------------------------------------------------------
(* The log: what is emitted, and in what order.                            *)
Lines == [ts : Nat, run : Nat, kind : {"open", "event", "close"}, req : Requests,
          id : Nat, parent : Nat, engine : BOOLEAN]
LogFile == [day : Nat, dotted : BOOLEAN, lines : Seq(Lines)]
Spans == [id : Nat, parent : Nat, req : Requests, engine : BOOLEAN]

LogShape ==
    /\ stamp \in Nat /\ day \in Nat /\ run \in Nat \ {0} /\ nextSpan \in Nat \ {0}
    /\ begun \in [Requests -> Nat]
    /\ alive \subseteq Spans
    /\ held \in [Threads -> Lines \cup {NoRecord}]
    /\ queue \in Seq(Lines)
    /\ logs \in Seq(LogFile) /\ logs # <<>>

(* A line b may be emitted behind a: nothing of a span comes behind its    *)
(* close, nothing of it before its opening, which is stamped before its    *)
(* events and tells the engine its close does.                             *)
Follows(a, b) ==
    /\ a.ts # b.ts
    /\ a.run = b.run =>
         /\ a.kind = "close" => a.id \notin {b.id, b.parent}
         /\ b.kind = "open" => b.id \notin {a.id, a.parent}
         /\ a.kind = "open" /\ b.kind = "event" /\ a.id = b.id => a.ts < b.ts
         /\ a.kind = "open" /\ b.kind = "close" /\ a.id = b.id => a.engine = b.engine

(* Lines of several files and then of a queue, each behind all before it.  *)
SpotsIn(F) == UNION {{i} \X DOMAIN F[i] : i \in DOMAIN F}
At(F, s)   == F[s[1]][s[2]]
Ahead(s, u) == s[1] < u[1] \/ (s[1] = u[1] /\ s[2] < u[2])
InOrderOf(F, q) ==
    /\ \A s, u \in SpotsIn(F) : Ahead(s, u) => Follows(At(F, s), At(F, u))
    /\ \A s \in SpotsIn(F), n \in DOMAIN q : Follows(At(F, s), q[n])
    /\ \A m, n \in DOMAIN q : m < n => Follows(q[m], q[n])
EmittedIn(F, q) == {At(F, s) : s \in SpotsIn(F)} \cup {q[n] : n \in DOMAIN q}

TextsOf(files) == [i \in DOMAIN files |-> files[i].lines]
Texts   == TextsOf(logs)
Emitted == EmittedIn(Texts, queue)

(* What is known of any line, of those in a thread's hands, and of the     *)
(* spans in the registry.                                                  *)
Told(x) ==
    /\ x.kind # "event" => x.id # 0 /\ x.parent < x.id
    /\ x.kind = "event" => x.parent = 0
    /\ x.ts <= stamp /\ x.run # 0 /\ x.run <= run /\ x.run = begun[x.req]
    /\ x.run = run => x.id < nextSpan /\ x.parent < nextSpan

SpanOf(x) == [id |-> x.id, parent |-> x.parent, req |-> x.req, engine |-> x.engine]

HandOk(t) ==
    held[t] # NoRecord =>
      /\ Told(held[t]) /\ held[t].run = run
      /\ \A a \in Emitted : Follows(a, held[t])
      /\ \A u \in Threads \ {t} : held[u] # NoRecord => Follows(held[t], held[u])
      /\ held[t].kind = "close" => SpanOf(held[t]) \in alive

SpanOk(s) ==
    /\ s.id # 0 /\ s.id < nextSpan /\ s.parent < s.id /\ begun[s.req] = run
    /\ \A a \in Emitted : a.run = run =>
         /\ a.kind = "close" => a.id \notin {s.id, s.parent}
         /\ a.kind = "open" /\ a.id = s.id => a.engine = s.engine
    /\ \A t \in Threads : held[t] # NoRecord =>
         /\ held[t].kind = "close" => held[t].id # s.parent
         /\ held[t].kind = "open" => held[t].id \notin {s.id, s.parent}

WrittenInv ==
    /\ LogShape
    /\ InOrderOf(Texts, queue)
    /\ \A x \in Emitted : Told(x)
    /\ \A t \in Threads : HandOk(t)
    /\ \A s, u \in alive : s.id = u.id => s = u
    /\ \A s \in alive : SpanOk(s)

LEMMA LinesTyped ==
    ASSUME LogShape
    PROVE  /\ DOMAIN Texts = 1..Len(logs) /\ Len(logs) \in Nat \ {0}
           /\ \A i \in 1..Len(logs) : Texts[i] \in Seq(Lines) /\ logs[i].lines = Texts[i]
           /\ Emitted \subseteq Lines
           /\ \A t \in Threads : held[t] # NoRecord => held[t] \in Lines
<1>1. /\ DOMAIN logs = 1..Len(logs) /\ Len(logs) \in Nat \ {0}
      /\ \A i \in 1..Len(logs) : logs[i] \in LogFile
  BY DEF LogShape
<1>2. \A i \in 1..Len(logs) : Texts[i] \in Seq(Lines) /\ logs[i].lines = Texts[i]
  BY <1>1 DEF Texts, TextsOf, LogFile
<1>3. \A n \in DOMAIN queue : queue[n] \in Lines
  BY DEF LogShape
<1>4. \A s \in SpotsIn(Texts) : At(Texts, s) \in Lines
  <2> TAKE s \in SpotsIn(Texts)
  <2>1. PICK i \in DOMAIN Texts : s \in {i} \X DOMAIN Texts[i]
    BY DEF SpotsIn
  <2>2. s[1] = i /\ s[2] \in DOMAIN Texts[i] /\ i \in 1..Len(logs)
    BY <1>1, <2>1 DEF Texts, TextsOf
  <2>3. Texts[i][s[2]] \in Lines
    BY <1>2, <2>2
  <2> QED
    BY <2>2, <2>3 DEF At
<1> QED
  BY <1>1, <1>2, <1>3, <1>4 DEF Texts, TextsOf, Emitted, EmittedIn, LogShape

(* Fewer lines, and those in the same order, are still in order.           *)
Excerpt(G, F) ==
    \E d \in Int : \A s \in SpotsIn(G) :
        <<s[1] + d, s[2]>> \in SpotsIn(F) /\ At(G, s) = At(F, <<s[1] + d, s[2]>>)

LEMMA SpotPair ==
    ASSUME NEW F, NEW s
    PROVE  s \in SpotsIn(F) <=> \E i \in DOMAIN F : \E k \in DOMAIN F[i] : s = <<i, k>>
  BY DEF SpotsIn

LEMMA ExcerptKeeps ==
    ASSUME NEW F, NEW G, NEW q, DOMAIN G \subseteq Int,
           InOrderOf(F, q), Excerpt(G, F)
    PROVE  InOrderOf(G, q) /\ EmittedIn(G, q) \subseteq EmittedIn(F, q)
<1>1. PICK d \in Int : \A s \in SpotsIn(G) :
         <<s[1] + d, s[2]>> \in SpotsIn(F) /\ At(G, s) = At(F, <<s[1] + d, s[2]>>)
  BY DEF Excerpt
<1>2. \A s \in SpotsIn(G) : s[1] \in Int
  BY SpotPair
<1>3. \A s, u \in SpotsIn(G) : Ahead(s, u) => Ahead(<<s[1] + d, s[2]>>, <<u[1] + d, u[2]>>)
  BY <1>2 DEF Ahead
<1>4. \A s, u \in SpotsIn(G) : Ahead(s, u) => Follows(At(G, s), At(G, u))
  BY <1>1, <1>3 DEF InOrderOf
<1>5. \A s \in SpotsIn(G), n \in DOMAIN q : Follows(At(G, s), q[n])
  BY <1>1 DEF InOrderOf
<1>6. \A m, n \in DOMAIN q : m < n => Follows(q[m], q[n])
  BY DEF InOrderOf
<1> QED
  BY <1>1, <1>4, <1>5, <1>6 DEF InOrderOf, EmittedIn

(* A line at the end of the last text.                                      *)
Longer(F, x) == [F EXCEPT ![Len(F)] = Append(F[Len(F)], x)]

LEMMA LastSpot ==
    ASSUME NEW S, NEW F \in Seq(Seq(S)), F # <<>>, NEW x \in S, NEW e, e = Len(F),
           NEW k, k = Len(F[e]) + 1, NEW G, G = Longer(F, x)
    PROVE  /\ \A s \in SpotsIn(G) : \/ s \in SpotsIn(F) /\ At(G, s) = At(F, s)
                                    \/ s = <<e, k>> /\ At(G, s) = x
           /\ \A s \in SpotsIn(F) : /\ s \in SpotsIn(G) /\ At(G, s) = At(F, s)
                                    /\ Ahead(s, <<e, k>>) /\ ~Ahead(<<e, k>>, s)
           /\ ~Ahead(<<e, k>>, <<e, k>>)
<1>1. /\ e \in Nat \ {0} /\ k \in Nat \ {0} /\ DOMAIN F = 1..e /\ DOMAIN G = 1..e
      /\ \A i \in 1..e : i # e => G[i] = F[i]
      /\ DOMAIN G[e] = 1..k /\ DOMAIN F[e] = 1..(k - 1) /\ G[e][k] = x
      /\ \A j \in 1..(k - 1) : G[e][j] = F[e][j]
  <2>1. e \in Nat \ {0} /\ DOMAIN F = 1..e /\ F[e] \in Seq(S) /\ k \in Nat \ {0}
    OBVIOUS
  <2>2. Append(F[e], x) \in Seq(S) /\ G[e] = Append(F[e], x)
        /\ DOMAIN G = 1..e /\ \A i \in 1..e : i # e => G[i] = F[i]
    BY <2>1 DEF Longer
  <2> DEFINE h == F[e]
  <2>3. h \in Seq(S) /\ k = Len(h) + 1
    BY <2>1
  <2> HIDE DEF h
  <2>4. /\ DOMAIN Append(h, x) = 1..k /\ DOMAIN h = 1..(k - 1) /\ Append(h, x)[k] = x
        /\ \A j \in 1..(k - 1) : Append(h, x)[j] = h[j]
    BY <2>3
  <2>5. G \in Seq(Seq(S))
    BY <2>1, <2>2 DEF Longer
  <2>6. G[e] = Append(h, x) /\ F[e] = h
    BY <2>2 DEF h
  <2> QED
    BY <2>1, <2>2, <2>4, <2>5, <2>6
<1>2. \A s \in SpotsIn(G) : \/ s \in SpotsIn(F) /\ At(G, s) = At(F, s)
                            \/ s = <<e, k>> /\ At(G, s) = x
  <2> TAKE s \in SpotsIn(G)
  <2>1. PICK i \in 1..e : \E j \in DOMAIN G[i] : s = <<i, j>>
    BY <1>1, SpotPair
  <2>2. PICK j \in DOMAIN G[i] : s = <<i, j>>
    BY <2>1
  <2>3. CASE i # e
    <3>1. j \in DOMAIN F[i] /\ G[i][j] = F[i][j]
      BY <1>1, <2>2, <2>3
    <3>2. s \in SpotsIn(F)
      BY <1>1, <2>2, <3>1, SpotPair
    <3> QED
      BY <2>2, <3>1, <3>2 DEF At
  <2>4. CASE i = e /\ j # k
    <3>1. j \in 1..(k - 1)
      BY <1>1, <2>2, <2>4
    <3>2. j \in DOMAIN F[i] /\ G[i][j] = F[i][j]
      BY <1>1, <2>4, <3>1
    <3>3. s \in SpotsIn(F)
      BY <1>1, <2>2, <3>2, SpotPair
    <3> QED
      BY <2>2, <3>2, <3>3 DEF At
  <2>5. CASE i = e /\ j = k
    BY <1>1, <2>2, <2>5 DEF At
  <2> QED
    BY <2>3, <2>4, <2>5
<1>3. \A s \in SpotsIn(F) : /\ s \in SpotsIn(G) /\ At(G, s) = At(F, s)
                            /\ Ahead(s, <<e, k>>) /\ ~Ahead(<<e, k>>, s)
  <2> TAKE s \in SpotsIn(F)
  <2>1. PICK i \in 1..e : \E j \in DOMAIN F[i] : s = <<i, j>>
    BY <1>1, SpotPair
  <2>2. PICK j \in DOMAIN F[i] : s = <<i, j>>
    BY <2>1
  <2>3. i = e => j \in 1..(k - 1)
    BY <1>1, <2>2
  <2>4. s[1] = i /\ s[2] = j /\ <<e, k>>[1] = e /\ <<e, k>>[2] = k
    BY <2>2
  <2>5. j \in DOMAIN G[i] /\ G[i][j] = F[i][j]
    BY <1>1, <2>2, <2>3
  <2>6. s \in SpotsIn(G) /\ At(G, s) = At(F, s)
    BY <1>1, <2>2, <2>4, <2>5, SpotPair DEF At
  <2>7. Ahead(s, <<e, k>>) /\ ~Ahead(<<e, k>>, s)
    BY <1>1, <2>1, <2>3, <2>4 DEF Ahead
  <2> QED
    BY <2>6, <2>7
<1>4. ~Ahead(<<e, k>>, <<e, k>>)
  <2>1. <<e, k>>[1] = e /\ <<e, k>>[2] = k
    OBVIOUS
  <2> QED
    BY <1>1, <2>1 DEF Ahead
<1> QED
  BY <1>2, <1>3, <1>4

LEMMA NewSpots ==
    ASSUME NEW S, NEW F \in Seq(Seq(S)), F # <<>>, NEW x \in S, NEW G, G = Longer(F, x),
           NEW s \in SpotsIn(G)
    PROVE  (s \in SpotsIn(F) /\ At(G, s) = At(F, s)) \/ At(G, s) = x
<1>1. PICK e : e = Len(F)
  OBVIOUS
<1>2. PICK k : k = Len(F[e]) + 1
  OBVIOUS
<1>3. /\ \A z \in SpotsIn(G) : \/ z \in SpotsIn(F) /\ At(G, z) = At(F, z)
                               \/ z = <<e, k>> /\ At(G, z) = x
      /\ \A z \in SpotsIn(F) : /\ z \in SpotsIn(G) /\ At(G, z) = At(F, z)
                               /\ Ahead(z, <<e, k>>) /\ ~Ahead(<<e, k>>, z)
  BY <1>1, <1>2, LastSpot
<1> QED
  BY <1>3

(* The first of the queue goes to the end of the last file.                *)
LEMMA WrittenKeeps ==
    ASSUME NEW S, NEW F \in Seq(Seq(S)), F # <<>>, NEW q \in Seq(S), q # <<>>, InOrderOf(F, q),
           NEW G, G = Longer(F, Head(q))
    PROVE  InOrderOf(G, Tail(q)) /\ EmittedIn(G, Tail(q)) \subseteq EmittedIn(F, q)
<1>1. PICK e : e = Len(F)
  OBVIOUS
<1>2. PICK k : k = Len(F[e]) + 1
  OBVIOUS
<1>3. PICK r : r = Tail(q)
  OBVIOUS
<1>4. /\ Len(q) \in Nat \ {0} /\ Head(q) = q[1] /\ DOMAIN q = 1..Len(q) /\ q[1] \in S
      /\ DOMAIN r = 1..(Len(q) - 1) /\ \A n \in 1..(Len(q) - 1) : r[n] = q[n + 1]
  BY <1>3
<1>5. G = Longer(F, q[1])
  BY <1>4
<1>6. /\ \A s \in SpotsIn(G) : \/ s \in SpotsIn(F) /\ At(G, s) = At(F, s)
                               \/ s = <<e, k>> /\ At(G, s) = q[1]
      /\ \A s \in SpotsIn(F) : ~Ahead(<<e, k>>, s)
      /\ ~Ahead(<<e, k>>, <<e, k>>)
  BY <1>1, <1>2, <1>4, <1>5, LastSpot
<1>7. \A s, u \in SpotsIn(G) : Ahead(s, u) => Follows(At(G, s), At(G, u))
  <2> TAKE s, u \in SpotsIn(G)
  <2> HAVE Ahead(s, u)
  <2>1. CASE s \in SpotsIn(F) /\ At(G, s) = At(F, s) /\ u \in SpotsIn(F) /\ At(G, u) = At(F, u)
    BY <2>1 DEF InOrderOf
  <2>2. CASE s \in SpotsIn(F) /\ At(G, s) = At(F, s) /\ u = <<e, k>> /\ At(G, u) = q[1]
    <3>1. 1 \in DOMAIN q
      BY <1>4
    <3> QED
      BY <2>2, <3>1 DEF InOrderOf
  <2>3. CASE s = <<e, k>>
    BY <1>6, <2>3
  <2> QED
    BY <1>6, <2>1, <2>2, <2>3
<1>8. \A s \in SpotsIn(G), n \in DOMAIN r : Follows(At(G, s), r[n])
  <2> TAKE s \in SpotsIn(G), n \in DOMAIN r
  <2>1. r[n] = q[n + 1] /\ n + 1 \in DOMAIN q /\ 1 \in DOMAIN q /\ 1 < n + 1
    BY <1>4
  <2>2. Follows(q[1], q[n + 1])
    BY <2>1 DEF InOrderOf
  <2> QED
    BY <1>6, <2>1, <2>2 DEF InOrderOf
<1>9. \A m, n \in DOMAIN r : m < n => Follows(r[m], r[n])
  <2> TAKE m, n \in DOMAIN r
  <2>1. r[n] = q[n + 1] /\ n + 1 \in DOMAIN q /\ r[m] = q[m + 1] /\ m + 1 \in DOMAIN q
    BY <1>4
  <2>2. m < n => m + 1 < n + 1
    BY <1>4
  <2> QED
    BY <2>1, <2>2 DEF InOrderOf
<1>10. EmittedIn(G, r) \subseteq EmittedIn(F, q)
  <2>1. q[1] \in EmittedIn(F, q)
    <3>1. 1 \in DOMAIN q
      BY <1>4
    <3> QED
      BY <3>1 DEF EmittedIn
  <2>2. \A s \in SpotsIn(G) : At(G, s) \in EmittedIn(F, q)
    BY <1>6, <2>1 DEF EmittedIn
  <2>3. \A n \in DOMAIN r : n + 1 \in DOMAIN q /\ r[n] = q[n + 1]
    BY <1>4
  <2> QED
    BY <2>2, <2>3 DEF EmittedIn
<1> QED
  BY <1>3, <1>7, <1>8, <1>9, <1>10 DEF InOrderOf

-----------------------------------------------------------------------------
(* Files: renamed, pruned and begun.                                       *)
LEMMA FilesTyped ==
    ASSUME NEW F \in Seq(LogFile)
    PROVE  /\ Len(F) \in Nat /\ DOMAIN F = 1..Len(F)
           /\ \A i \in 1..Len(F) : /\ F[i] \in LogFile /\ F[i].day \in Nat
                                   /\ F[i].dotted \in BOOLEAN /\ F[i].lines \in Seq(Lines)
<1>1. Len(F) \in Nat /\ DOMAIN F = 1..Len(F) /\ \A i \in 1..Len(F) : F[i] \in LogFile
  OBVIOUS
<1> QED
  BY <1>1 DEF LogFile

LEMMA Renamed ==
    ASSUME NEW F \in Seq(LogFile), NEW N, N = NormalizeLogNames(F)
    PROVE  /\ N \in Seq(LogFile) /\ Len(N) = Len(F) /\ TextsOf(N) = TextsOf(F)
           /\ \A i \in 1..Len(F) : /\ N[i].day = F[i].day /\ N[i].lines = F[i].lines
                                   /\ N[i].dotted => F[i].dotted
<1>1. DOMAIN F = 1..Len(F) /\ Len(F) \in Nat /\ \A i \in 1..Len(F) : F[i] \in LogFile
  OBVIOUS
<1>2. DOMAIN N = 1..Len(F)
  BY <1>1 DEF NormalizeLogNames
<1>3. \A i \in 1..Len(F) : N[i] = F[i] \/ N[i] = [F[i] EXCEPT !.dotted = FALSE]
  BY <1>1 DEF NormalizeLogNames
<1>4. \A i \in 1..Len(F) : /\ N[i] \in LogFile /\ N[i].day = F[i].day /\ N[i].lines = F[i].lines
                           /\ N[i].dotted => F[i].dotted
  BY <1>1, <1>3 DEF LogFile
<1>5. N \in Seq(LogFile) /\ Len(N) = Len(F)
  <2>1. N = [i \in 1..Len(F) |-> N[i]]
    BY <1>1 DEF NormalizeLogNames
  <2> QED
    BY <1>1, <1>2, <1>4, <2>1
<1> QED
  BY <1>1, <1>2, <1>4, <1>5 DEF TextsOf

LEMMA FromPlace ==
    ASSUME NEW S, NEW t \in Seq(S), NEW o \in 0..Len(t), NEW r, r = SubSeq(t, o + 1, Len(t))
    PROVE  /\ r \in Seq(S) /\ Len(r) = Len(t) - o
           /\ \A k \in 1..(Len(t) - o) : r[k] = t[o + k]
<1>1. PICK a : a = o + 1
  OBVIOUS
<1>2. PICK m : m = Len(t)
  OBVIOUS
<1>3. a \in Int /\ m \in Int /\ (IF a <= m THEN m - a + 1 ELSE 0) = m - o /\ m - a + 1 = m - o
  BY <1>1, <1>2
<1>4. \A i \in a..m : t[i] \in S
  BY <1>1, <1>2
<1> DEFINE K == SubSeq(t, a, m)
<1>5. K = SubSeq(t, a, m)
  OBVIOUS
<1> HIDE DEF K
<1>6. /\ K \in Seq(S) /\ Len(K) = IF a <= m THEN m - a + 1 ELSE 0
      /\ \A k \in 1..(m - a + 1) : K[k] = t[a + k - 1]
  BY <1>3, <1>4, <1>5, SubSeqProperties
<1>7. r = K
  BY <1>1, <1>2, <1>5
<1>8. \A k \in 1..(m - o) : a + k - 1 = o + k
  BY <1>1, <1>3
<1> QED
  BY <1>2, <1>3, <1>6, <1>7, <1>8

Rolls(F, R, d) ==
    /\ d = Len(F) + 1 - Least(MaxFiles, Len(F) + 1)
    /\ \A i \in 1..(Len(F) - d) : R[i] = F[i + d]
    /\ \/ /\ Len(R) = Len(F) - d
          /\ \E i \in 1..Len(R) : R[i].day = day /\ R[i].dotted
       \/ /\ Len(R) = Len(F) - d + 1
          /\ R[Len(R)] = [day |-> day, dotted |-> TRUE, lines |-> <<>>]
          /\ \A i \in 1..(Len(F) - d) : ~(R[i].day = day /\ R[i].dotted)

LEMMA RolledOver ==
    ASSUME NEW F \in Seq(LogFile), F # <<>>, day \in Nat, NEW R, R = Rolled(F)
    PROVE  /\ R \in Seq(LogFile) /\ R # <<>> /\ Len(R) <= MaxFiles
           /\ \E d \in 0..Len(F) : Rolls(F, R, d)
<1> DEFINE d == Len(F) + 1 - Least(MaxFiles, Len(F) + 1)
           K == SubSeq(F, Len(F) + 2 - Least(MaxFiles, Len(F) + 1), Len(F))
           new == [day |-> day, dotted |-> TRUE, lines |-> <<>>]
<1>1. Len(F) \in Nat \ {0} /\ DOMAIN F = 1..Len(F) /\ \A i \in 1..Len(F) : F[i] \in LogFile
  OBVIOUS
<1>2. d \in 0..Len(F) /\ Len(F) - d < MaxFiles /\ Len(F) + 2 - Least(MaxFiles, Len(F) + 1) = d + 1
  BY <1>1, FilesAssumption DEF Least
<1>3. K = SubSeq(F, d + 1, Len(F))
  BY <1>2
<1> HIDE DEF d
<1>4. K \in Seq(LogFile) /\ Len(K) = Len(F) - d /\ \A i \in 1..(Len(F) - d) : K[i] = F[i + d]
  <2>1. PICK L : L = K
    OBVIOUS
  <2>2. L \in Seq(LogFile) /\ Len(L) = Len(F) - d /\ \A i \in 1..(Len(F) - d) : L[i] = F[d + i]
    BY <1>2, <1>3, <2>1, FromPlace
  <2>3. \A i \in 1..(Len(F) - d) : d + i = i + d
    BY <1>1, <1>2
  <2> QED
    BY <2>1, <2>2, <2>3
<1>5. new \in LogFile
  BY DEF LogFile
<1>6. CASE [day |-> day, dotted |-> TRUE] \in Names(K)
  <2>1. R = K
    BY <1>6 DEF Rolled
  <2> HIDE DEF K
  <2>2. PICK i \in DOMAIN K : [day |-> day, dotted |-> TRUE] = [day |-> K[i].day, dotted |-> K[i].dotted]
    BY <1>6 DEF Names, Name
  <2>3. i \in 1..Len(K) /\ K[i].day = day /\ K[i].dotted
    BY <1>4, <2>2
  <2>4. R # <<>> /\ Len(R) <= MaxFiles
    BY <1>1, <1>2, <1>4, <2>1, <2>3, FilesAssumption
  <2>5. Rolls(F, R, d)
    BY <1>4, <2>1, <2>3 DEF Rolls, d
  <2> QED
    BY <1>2, <1>4, <2>1, <2>4, <2>5
<1>7. CASE [day |-> day, dotted |-> TRUE] \notin Names(K)
  <2>1. R = Append(K, new)
    BY <1>7 DEF Rolled
  <2> HIDE DEF K, new
  <2>2. /\ R \in Seq(LogFile) /\ Len(R) = Len(F) - d + 1 /\ R[Len(R)] = new
        /\ \A i \in 1..(Len(F) - d) : R[i] = K[i]
    BY <1>1, <1>2, <1>4, <1>5, <2>1
  <2>3. \A i \in 1..(Len(F) - d) : ~(K[i].day = day /\ K[i].dotted)
    <3> SUFFICES ASSUME NEW i \in 1..(Len(F) - d), K[i].day = day, K[i].dotted PROVE FALSE
      OBVIOUS
    <3>1. i \in DOMAIN K /\ K[i].dotted \in BOOLEAN
      BY <1>1, <1>2, <1>4 DEF LogFile
    <3>2. Name(K[i]) = [day |-> day, dotted |-> TRUE]
      BY <3>1 DEF Name
    <3> QED
      BY <1>7, <3>1, <3>2 DEF Names
  <2>4. R # <<>> /\ Len(R) <= MaxFiles
    BY <1>1, <1>2, <2>2, FilesAssumption
  <2>5. Rolls(F, R, d)
    BY <1>4, <2>2, <2>3 DEF Rolls, d, new
  <2> QED
    BY <1>2, <2>2, <2>4, <2>5
<1> QED
  BY <1>6, <1>7

LEMMA RolledKeeps ==
    ASSUME NEW F \in Seq(LogFile), F # <<>>, day \in Nat
    PROVE  Excerpt(TextsOf(Rolled(F)), TextsOf(F)) /\ DOMAIN TextsOf(Rolled(F)) \subseteq Int
<1>1. PICK R : R = Rolled(F)
  OBVIOUS
<1>2. R \in Seq(LogFile)
  BY <1>1, RolledOver
<1>3. PICK d \in 0..Len(F) : Rolls(F, R, d)
  BY <1>1, RolledOver
<1>4. d \in Nat /\ Len(F) \in Nat /\ DOMAIN F = 1..Len(F) /\ DOMAIN R = 1..Len(R)
  BY <1>2
<1>5. ASSUME NEW s \in SpotsIn(TextsOf(R))
      PROVE  /\ <<s[1] + d, s[2]>> \in SpotsIn(TextsOf(F))
             /\ At(TextsOf(R), s) = At(TextsOf(F), <<s[1] + d, s[2]>>)
  <2>1. PICK i \in 1..Len(R) : \E k \in DOMAIN R[i].lines : s = <<i, k>>
    BY <1>4, SpotPair DEF TextsOf
  <2>2. PICK k \in DOMAIN R[i].lines : s = <<i, k>>
    BY <2>1
  <2>3. i \in 1..(Len(F) - d)
    <3>1. Len(R) = Len(F) - d \/ (Len(R) = Len(F) - d + 1 /\ R[Len(R)].lines = <<>>)
      BY <1>3 DEF Rolls
    <3>2. R[i].lines # <<>>
      BY <2>2
    <3>3. i # Len(R) \/ Len(R) = Len(F) - d
      BY <3>1, <3>2
    <3>4. i \in 1..Len(R) /\ Len(F) - d \in Int
      BY <1>4
    <3>5. CASE Len(R) = Len(F) - d
      BY <3>4, <3>5
    <3>6. CASE Len(R) = Len(F) - d + 1 /\ i # Len(R)
      BY <3>4, <3>6
    <3> QED
      BY <3>1, <3>3, <3>5, <3>6
  <2>4. R[i] = F[i + d] /\ i + d \in 1..Len(F)
    BY <1>3, <1>4, <2>3 DEF Rolls
  <2>5. TextsOf(R)[i] = R[i].lines /\ TextsOf(F)[i + d] = R[i].lines /\ i + d \in DOMAIN TextsOf(F)
    BY <1>4, <2>1, <2>4 DEF TextsOf
  <2>6. <<i + d, k>> \in SpotsIn(TextsOf(F))
    BY <2>2, <2>5, SpotPair
  <2> QED
    BY <2>2, <2>5, <2>6 DEF At
<1> QED
  <2>1. d \in Int /\ DOMAIN TextsOf(R) \subseteq Int
    BY <1>4 DEF TextsOf
  <2> QED
    BY <1>1, <1>5, <2>1 DEF Excerpt

-----------------------------------------------------------------------------
(* Stamping.  What a new line has to be for everything to stay in order.    *)
Fits(x, t) ==
    /\ x.kind # "event" => x.id # 0 /\ x.parent < x.id
    /\ x.kind = "event" => x.parent = 0
    /\ \A a \in Emitted : Follows(a, x)
    /\ \A u \in Threads \ {t} : held[u] # NoRecord => Follows(held[u], x) /\ Follows(x, held[u])
    /\ x.kind = "close" => SpanOf(x) \in alive
    /\ \A s \in alive : /\ x.kind = "close" => x.id # s.parent
                        /\ x.kind = "open" => x.id \notin {s.id, s.parent}

LEMMA StampedKeeps ==
    ASSUME WrittenInv, NEW t \in Threads, NEW r \in Requests,
           NEW kind \in {"open", "event", "close"}, NEW id \in Nat, NEW parent \in Nat,
           NEW engine \in BOOLEAN, Stamped(t, r, kind, id, parent, engine),
           nextSpan' \in Nat, nextSpan <= nextSpan', id < nextSpan', parent < nextSpan',
           NEW x, x = [ts |-> stamp + 1, run |-> run, kind |-> kind, req |-> r,
                       id |-> id, parent |-> parent, engine |-> engine],
           Fits(x, t)
    PROVE  WrittenInv'
<1>1. /\ stamp \in Nat /\ stamp' = stamp + 1 /\ held[t] = NoRecord /\ held' = [held EXCEPT ![t] = x]
      /\ begun[r] \in {0, run} /\ begun' = [begun EXCEPT ![r] = run]
      /\ day' = day /\ run' = run /\ alive' = alive /\ queue' = queue /\ logs' = logs
  BY DEF Stamped, WrittenInv, LogShape
<1>2. x \in Lines /\ x # NoRecord
  <2>1. x \in Lines
    BY <1>1 DEF Lines, WrittenInv, LogShape
  <2> QED
    BY <2>1, RecordAssumption DEF Lines
<1>3. /\ begun \in [Requests -> Nat] /\ held \in [Threads -> Lines \cup {NoRecord}]
      /\ run \in Nat \ {0} /\ nextSpan \in Nat \ {0}
  BY DEF WrittenInv, LogShape
<1>4. held'[t] = x /\ \A u \in Threads \ {t} : held'[u] = held[u]
  BY <1>1, <1>3
<1>5. begun'[r] = run /\ \A q \in Requests \ {r} : begun'[q] = begun[q]
  BY <1>1, <1>3
<1>6. Texts' = Texts /\ Emitted' = Emitted
  BY <1>1 DEF Texts, Emitted
<1>7. LogShape'
  BY <1>1, <1>2, <1>3 DEF WrittenInv, LogShape
<1>8. ASSUME NEW y \in Lines, Told(y) PROVE Told(y)'
  <2>1. y.req \in Requests /\ y.ts \in Nat /\ y.id \in Nat /\ y.parent \in Nat /\ y.run \in Nat
    BY DEF Lines
  <2>2. y.run = begun'[y.req]
    BY <1>1, <1>5, <2>1, <1>8 DEF Told
  <2>3. y.ts <= stamp'
    BY <1>1, <2>1, <1>8 DEF Told
  <2>4. y.run = run => y.id < nextSpan' /\ y.parent < nextSpan'
    BY <1>3, <2>1, <1>8 DEF Told
  <2> QED
    BY <1>1, <1>8, <2>2, <2>3, <2>4 DEF Told
<1>9. Told(x)'
  BY <1>1, <1>3, <1>5 DEF Told, Fits
<1>10. \A a \in Emitted : a \in Lines
  BY LinesTyped DEF WrittenInv
<1>11. ASSUME NEW u \in Threads PROVE HandOk(u)'
  <2>1. CASE u = t
    <3>1. \A v \in Threads \ {t} : held'[v] # NoRecord => Follows(x, held'[v])
      BY <1>4 DEF Fits
    <3> QED
      BY <1>1, <1>4, <1>6, <1>9, <2>1, <3>1 DEF HandOk, Fits
  <2>2. CASE u # t /\ held[u] # NoRecord
    <3>1. held'[u] = held[u] /\ held[u] \in Lines
      BY <1>3, <1>4, <2>2
    <3>2. Told(held[u])' /\ held[u].run = run
      BY <1>8, <2>2, <3>1 DEF WrittenInv, HandOk
    <3>3. \A v \in Threads \ {u} : held'[v] # NoRecord => Follows(held[u], held'[v])
      <4> TAKE v \in Threads \ {u}
      <4>1. CASE v = t
        BY <1>4, <2>2, <4>1 DEF Fits
      <4>2. CASE v # t
        BY <1>4, <2>2, <4>2 DEF WrittenInv, HandOk
      <4> QED
        BY <4>1, <4>2
    <3> QED
      BY <1>1, <1>6, <2>2, <3>1, <3>2, <3>3 DEF WrittenInv, HandOk, Told
  <2>3. CASE u # t /\ held[u] = NoRecord
    BY <1>4, <2>3 DEF HandOk
  <2> QED
    BY <2>1, <2>2, <2>3
<1>12. ASSUME NEW s \in alive PROVE SpanOk(s)'
  <2>1. SpanOk(s) /\ s.req \in Requests /\ s.id \in Nat
    BY DEF WrittenInv, LogShape, Spans
  <2>2. begun'[s.req] = run /\ s.id < nextSpan'
    BY <1>3, <1>5, <2>1 DEF SpanOk
  <2>3. \A u \in Threads : held'[u] # NoRecord =>
           /\ held'[u].kind = "close" => held'[u].id # s.parent
           /\ held'[u].kind = "open" => held'[u].id \notin {s.id, s.parent}
    BY <1>4, <2>1 DEF SpanOk, Fits
  <2> QED
    BY <1>1, <1>6, <2>1, <2>2, <2>3 DEF SpanOk
<1>13. InOrderOf(Texts', queue') /\ \A y \in Emitted' : Told(y)'
  BY <1>1, <1>6, <1>8, <1>10 DEF WrittenInv
<1> QED
  BY <1>1, <1>7, <1>11, <1>12, <1>13 DEF WrittenInv

LEMMA OnNewSpanKeeps ==
    ASSUME WrittenInv, NEW t \in Threads, NEW r \in Requests, NEW engine \in BOOLEAN,
           OnNewSpan(t, r, engine)
    PROVE  WrittenInv'
<1>1. /\ nextSpan \in Nat \ {0} /\ stamp \in Nat /\ run \in Nat \ {0} /\ alive \subseteq Spans
      /\ \A u \in Threads : held[u] # NoRecord => held[u] \in Lines
      /\ Emitted \subseteq Lines
  BY LinesTyped DEF WrittenInv, LogShape
<1>2. nextSpan' = nextSpan + 1
  BY DEF OnNewSpan
<1>3. PICK p : /\ Stamped(t, r, "open", nextSpan, p, engine)
               /\ p = 0 \/ \E s \in Usable : s.id = p
  BY DEF OnNewSpan
<1>4. p \in Nat /\ p < nextSpan
  <2>1. ASSUME NEW s \in Usable PROVE s.id \in Nat /\ s.id < nextSpan
    BY <1>1 DEF Usable, Spans, WrittenInv, SpanOk
  <2> QED
    BY <1>1, <1>3, <2>1
<1>5. PICK x : x = [ts |-> stamp + 1, run |-> run, kind |-> "open", req |-> r,
                    id |-> nextSpan, parent |-> p, engine |-> engine]
  OBVIOUS
<1>6. /\ x.ts = stamp + 1 /\ x.run = run /\ x.kind = "open" /\ x.id = nextSpan /\ x.parent = p
  BY <1>5
<1>7. ASSUME NEW a \in Lines, Told(a), a.run = run => /\ a.kind = "close" => a.id # p
                                                      /\ a.kind = "open" => a.id # p
      PROVE  Follows(a, x) /\ Follows(x, a)
  <2>1. a.id \in Nat /\ a.parent \in Nat /\ a.ts \in Nat /\ a.kind \in {"open", "event", "close"}
    BY DEF Lines
  <2>2. a.ts # x.ts /\ (a.run = run => a.id # nextSpan /\ a.parent # nextSpan)
    BY <1>1, <1>6, <1>7, <2>1 DEF Told
  <2> QED
    BY <1>6, <1>7, <2>1, <2>2 DEF Follows
<1>8. ASSUME NEW a \in Lines, Told(a), a.run = run
      PROVE  Follows(a, x) <=> (a.kind = "close" => a.id # p)
  <2>1. a.id \in Nat /\ a.parent \in Nat /\ a.ts \in Nat /\ a.kind \in {"open", "event", "close"}
    BY DEF Lines
  <2>2. a.ts # x.ts /\ a.id # nextSpan /\ a.parent # nextSpan
    BY <1>1, <1>6, <1>8, <2>1 DEF Told
  <2> QED
    BY <1>6, <1>8, <2>1, <2>2 DEF Follows
<1>9. ASSUME NEW a \in Emitted PROVE Follows(a, x)
  <2>1. a \in Lines /\ Told(a)
    BY <1>1 DEF WrittenInv
  <2>2. CASE a.run # run
    BY <1>6, <1>7, <2>1, <2>2
  <2>3. CASE a.run = run
    <3>1. a.kind = "close" => a.id # p
      BY <1>3, <2>1, <2>3 DEF WrittenInv, SpanOk, Usable, Told
    <3> QED
      BY <1>8, <2>1, <2>3, <3>1
  <2> QED
    BY <2>2, <2>3
<1>10. ASSUME NEW u \in Threads \ {t}, held[u] # NoRecord
       PROVE  Follows(held[u], x) /\ Follows(x, held[u])
  <2>1. held[u] \in Lines /\ Told(held[u])
    BY <1>1, <1>10 DEF WrittenInv, HandOk
  <2>2. held[u].kind = "close" => held[u].id # p
    BY <1>3, <1>10, <2>1 DEF Usable, Told
  <2>3. held[u].kind = "open" => held[u].id # p
    BY <1>3, <1>10, <2>1 DEF Usable, Told, WrittenInv, SpanOk
  <2> QED
    BY <1>7, <2>1, <2>2, <2>3
<1>11. ASSUME NEW s \in alive PROVE nextSpan \notin {s.id, s.parent}
  <2>1. s.id \in Nat /\ s.parent \in Nat /\ s.id < nextSpan /\ s.parent < s.id
    BY <1>1 DEF WrittenInv, SpanOk, Spans
  <2> QED
    BY <1>1, <2>1
<1>12. Fits(x, t)
  BY <1>1, <1>4, <1>6, <1>9, <1>10, <1>11 DEF Fits
<1>13. nextSpan' \in Nat /\ nextSpan <= nextSpan' /\ nextSpan < nextSpan' /\ p < nextSpan'
  BY <1>1, <1>2, <1>4
<1> QED
  BY <1>1, <1>3, <1>4, <1>5, <1>12, <1>13, StampedKeeps

LEMMA OnEventKeeps ==
    ASSUME WrittenInv, NEW t \in Threads, NEW r \in Requests, OnEvent(t, r)
    PROVE  WrittenInv'
<1>1. /\ nextSpan \in Nat \ {0} /\ stamp \in Nat /\ run \in Nat \ {0} /\ alive \subseteq Spans
      /\ \A u \in Threads : held[u] # NoRecord => held[u] \in Lines
      /\ Emitted \subseteq Lines
  BY LinesTyped DEF WrittenInv, LogShape
<1>2. nextSpan' = nextSpan
  BY DEF OnEvent
<1>3. PICK p : /\ Stamped(t, r, "event", p, 0, FALSE)
               /\ p = 0 \/ \E s \in Usable : s.id = p
  BY DEF OnEvent
<1>4. p \in Nat /\ p < nextSpan
  <2>1. ASSUME NEW s \in Usable PROVE s.id \in Nat /\ s.id < nextSpan
    BY <1>1 DEF Usable, Spans, WrittenInv, SpanOk
  <2> QED
    BY <1>1, <1>3, <2>1
<1>5. PICK x : x = [ts |-> stamp + 1, run |-> run, kind |-> "event", req |-> r,
                    id |-> p, parent |-> 0, engine |-> FALSE]
  OBVIOUS
<1>6. /\ x.ts = stamp + 1 /\ x.run = run /\ x.kind = "event" /\ x.id = p /\ x.parent = 0
  BY <1>5
<1>7. ASSUME NEW a \in Lines, Told(a)
      PROVE  /\ (a.run = run /\ a.kind = "close" /\ a.id = p) \/ Follows(a, x)
             /\ (a.run = run /\ a.kind = "open" /\ a.id = p) \/ Follows(x, a)
  <2>1. a.id \in Nat /\ a.parent \in Nat /\ a.ts \in Nat /\ a.kind \in {"open", "event", "close"}
    BY DEF Lines
  <2>2. a.ts < x.ts /\ a.ts # x.ts /\ (a.kind # "event" => a.id # 0)
    BY <1>1, <1>6, <1>7, <2>1 DEF Told
  <2> QED
    BY <1>6, <1>7, <2>1, <2>2 DEF Follows
<1>8. ASSUME NEW a \in Emitted PROVE Follows(a, x)
  <2>1. a \in Lines /\ Told(a)
    BY <1>1 DEF WrittenInv
  <2>2. ~(a.run = run /\ a.kind = "close" /\ a.id = p)
    BY <1>3, <2>1 DEF WrittenInv, SpanOk, Usable, Told
  <2> QED
    BY <1>7, <2>1, <2>2
<1>9. ASSUME NEW u \in Threads \ {t}, held[u] # NoRecord
       PROVE  Follows(held[u], x) /\ Follows(x, held[u])
  <2>1. held[u] \in Lines /\ Told(held[u])
    BY <1>1, <1>9 DEF WrittenInv, HandOk
  <2>2. held[u].kind = "close" => held[u].id # p
    BY <1>3, <1>9, <2>1 DEF Usable, Told
  <2>3. held[u].kind = "open" => held[u].id # p
    BY <1>3, <1>9, <2>1 DEF Usable, Told, WrittenInv, SpanOk
  <2> QED
    BY <1>7, <2>1, <2>2, <2>3
<1>10. Fits(x, t)
  BY <1>6, <1>8, <1>9 DEF Fits
<1>11. nextSpan' \in Nat /\ nextSpan <= nextSpan' /\ p < nextSpan' /\ 0 < nextSpan' /\ p \in Nat
  BY <1>1, <1>2, <1>4
<1>12. 0 \in Nat /\ FALSE \in BOOLEAN /\ "event" \in {"open", "event", "close"}
  OBVIOUS
<1> QED
  BY <1>3, <1>5, <1>10, <1>11, <1>12, StampedKeeps

LEMMA OnCloseKeeps ==
    ASSUME WrittenInv, NEW t \in Threads, NEW s \in Usable, OnClose(t, s)
    PROVE  WrittenInv'
<1>1. /\ nextSpan \in Nat \ {0} /\ stamp \in Nat /\ run \in Nat \ {0} /\ alive \subseteq Spans
      /\ \A u \in Threads : held[u] # NoRecord => held[u] \in Lines
      /\ Emitted \subseteq Lines
  BY LinesTyped DEF WrittenInv, LogShape
<1>2. nextSpan' = nextSpan /\ Stamped(t, s.req, "close", s.id, s.parent, s.engine)
  BY DEF OnClose
<1>3. /\ s \in alive /\ SpanOk(s)
      /\ s.id \in Nat /\ s.parent \in Nat /\ s.req \in Requests /\ s.engine \in BOOLEAN
      /\ s = [id |-> s.id, parent |-> s.parent, req |-> s.req, engine |-> s.engine]
  BY <1>1 DEF Usable, Spans, WrittenInv
<1>4. s.id # 0 /\ s.id < nextSpan /\ s.parent < nextSpan /\ s.parent < s.id
  BY <1>1, <1>3 DEF SpanOk
<1>5. PICK x : x = [ts |-> stamp + 1, run |-> run, kind |-> "close", req |-> s.req,
                    id |-> s.id, parent |-> s.parent, engine |-> s.engine]
  OBVIOUS
<1>6. /\ x.ts = stamp + 1 /\ x.run = run /\ x.kind = "close" /\ x.id = s.id /\ x.parent = s.parent
      /\ x.engine = s.engine /\ x.req = s.req
  BY <1>5
<1>7. ASSUME NEW a \in Emitted PROVE Follows(a, x)
  <2>1. a \in Lines /\ Told(a)
    BY <1>1 DEF WrittenInv
  <2>2. a.ts # x.ts
    BY <1>1, <1>6, <2>1 DEF Told, Lines
  <2>3. a.run = run => /\ a.kind = "close" => a.id \notin {s.id, s.parent}
                       /\ a.kind = "open" /\ a.id = s.id => a.engine = s.engine
    BY <1>3 DEF SpanOk
  <2> QED
    BY <1>6, <2>2, <2>3 DEF Follows
<1>8. ASSUME NEW u \in Threads \ {t}, held[u] # NoRecord
       PROVE  Follows(held[u], x) /\ Follows(x, held[u])
  <2>1. held[u] \in Lines /\ Told(held[u])
    BY <1>1, <1>8 DEF WrittenInv, HandOk
  <2>2. held[u].ts # x.ts
    BY <1>1, <1>6, <2>1 DEF Told, Lines
  <2>3. held[u].kind = "close" => held[u].id \notin {s.id, s.parent}
    BY <1>3, <1>8 DEF Usable, SpanOk
  <2>4. held[u].kind = "open" => held[u].id \notin {s.id, s.parent}
    BY <1>3, <1>8 DEF SpanOk
  <2>5. s.id \notin {held[u].id, held[u].parent}
    BY <1>8 DEF OnClose, InUse
  <2> QED
    BY <1>6, <2>2, <2>3, <2>4, <2>5 DEF Follows
<1>9. \A z \in alive : s.id # z.parent
  BY DEF OnClose, InUse
<1>10. Fits(x, t)
  BY <1>3, <1>4, <1>6, <1>7, <1>8, <1>9 DEF Fits, SpanOf
<1>11. nextSpan' \in Nat /\ nextSpan <= nextSpan' /\ s.id < nextSpan' /\ s.parent < nextSpan'
  BY <1>1, <1>2, <1>4
<1>12. PICK r \in Requests : r = s.req
  BY <1>3
<1>13. PICK i \in Nat : i = s.id
  BY <1>3
<1>14. PICK p \in Nat : p = s.parent
  BY <1>3
<1>15. PICK g \in BOOLEAN : g = s.engine
  BY <1>3
<1>16. Stamped(t, r, "close", i, p, g)
  BY <1>2, <1>12, <1>13, <1>14, <1>15
<1>17. x = [ts |-> stamp + 1, run |-> run, kind |-> "close", req |-> r,
            id |-> i, parent |-> p, engine |-> g]
  BY <1>5, <1>12, <1>13, <1>14, <1>15
<1> QED
  BY <1>10, <1>11, <1>12, <1>13, <1>14, <1>15, <1>16, <1>17, StampedKeeps

LEMMA EmitKeeps ==
    ASSUME WrittenInv, NEW t \in Threads, Emit(t)
    PROVE  WrittenInv'
<1>1. PICK y : y = held[t]
  OBVIOUS
<1>2. /\ y # NoRecord /\ queue' = Append(queue, y) /\ held' = [held EXCEPT ![t] = NoRecord]
      /\ alive' = CASE y.kind = "open"  -> alive \cup {SpanOf(y)}
                    [] y.kind = "close" -> alive \ {SpanOf(y)}
                    [] OTHER            -> alive
      /\ stamp' = stamp /\ day' = day /\ run' = run /\ begun' = begun /\ nextSpan' = nextSpan
      /\ logs' = logs
  BY <1>1 DEF Emit, SpanOf
<1>3. /\ nextSpan \in Nat \ {0} /\ run \in Nat \ {0} /\ alive \subseteq Spans
      /\ \A u \in Threads : held[u] # NoRecord => held[u] \in Lines
      /\ held \in [Threads -> Lines \cup {NoRecord}] /\ queue \in Seq(Lines)
  BY LinesTyped DEF WrittenInv, LogShape
<1>4. y \in Lines /\ HandOk(t)
  BY <1>1, <1>2, <1>3 DEF WrittenInv
<1>5. Told(y) /\ y.run = run /\ \A a \in Emitted : Follows(a, y)
  BY <1>1, <1>2, <1>4 DEF HandOk
<1>6. y.kind \in {"open", "event", "close"} /\ SpanOf(y) \in Spans
  BY <1>4 DEF Lines, Spans, SpanOf
<1>7. /\ y.kind = "open" => alive' = alive \cup {SpanOf(y)}
      /\ y.kind = "close" => alive' = alive \ {SpanOf(y)}
      /\ y.kind = "event" => alive' = alive
  BY <1>2
<1>8. held'[t] = NoRecord /\ \A u \in Threads \ {t} : held'[u] = held[u]
  BY <1>2, <1>3
<1>9. /\ Len(queue) \in Nat /\ DOMAIN queue = 1..Len(queue) /\ DOMAIN queue' = 1..(Len(queue) + 1)
      /\ queue' \in Seq(Lines) /\ queue'[Len(queue) + 1] = y
      /\ \A n \in 1..Len(queue) : queue'[n] = queue[n]
  BY <1>2, <1>3, <1>4
<1>10. Texts' = Texts
  BY <1>2 DEF Texts
<1>11. Emitted' = Emitted \cup {y}
  BY <1>9, <1>10 DEF Emitted, EmittedIn
<1>12. InOrderOf(Texts', queue')
  <2>1. /\ \A s \in SpotsIn(Texts) : Follows(At(Texts, s), y)
        /\ \A n \in DOMAIN queue : Follows(queue[n], y)
    BY <1>5 DEF Emitted, EmittedIn
  <2>2. \A s \in SpotsIn(Texts), n \in DOMAIN queue' : Follows(At(Texts, s), queue'[n])
    <3> TAKE s \in SpotsIn(Texts), n \in DOMAIN queue'
    <3>1. n \in DOMAIN queue \/ n = Len(queue) + 1
      BY <1>9
    <3>2. CASE n \in DOMAIN queue
      BY <1>9, <3>2 DEF WrittenInv, InOrderOf
    <3>3. CASE n = Len(queue) + 1
      BY <1>9, <2>1, <3>3
    <3> QED
      BY <3>1, <3>2, <3>3
  <2>3. \A m, n \in DOMAIN queue' : m < n => Follows(queue'[m], queue'[n])
    <3> TAKE m, n \in DOMAIN queue'
    <3> HAVE m < n
    <3>1. m \in DOMAIN queue /\ (n \in DOMAIN queue \/ n = Len(queue) + 1)
      BY <1>9
    <3>2. CASE n \in DOMAIN queue
      BY <1>9, <3>1, <3>2 DEF WrittenInv, InOrderOf
    <3>3. CASE n = Len(queue) + 1
      BY <1>9, <2>1, <3>1, <3>3
    <3> QED
      BY <3>1, <3>2, <3>3
  <2> QED
    BY <1>10, <2>2, <2>3 DEF WrittenInv, InOrderOf
<1>13. \A x : Told(x)' <=> Told(x)
  BY <1>2 DEF Told
<1>14. LogShape'
  BY <1>2, <1>3, <1>6, <1>7, <1>9 DEF WrittenInv, LogShape
<1>15. \A s \in alive : /\ y.kind = "close" => y.id # s.parent
                        /\ y.kind = "open" => y.id \notin {s.id, s.parent}
  BY <1>1, <1>2 DEF WrittenInv, SpanOk
<1>16. ASSUME NEW s \in alive', NEW u \in alive', s.id = u.id PROVE s = u
  BY <1>6, <1>7, <1>15, <1>16 DEF WrittenInv, SpanOf
<1>17. ASSUME NEW u \in Threads PROVE HandOk(u)'
  <2>1. CASE held'[u] = NoRecord
    BY <2>1 DEF HandOk
  <2>2. CASE held'[u] # NoRecord
    <3>1. u # t /\ held'[u] = held[u] /\ HandOk(u) /\ held[u] # NoRecord
      BY <1>8, <2>2 DEF WrittenInv
    <3>2. Follows(y, held[u]) /\ held[u].run = run
      BY <1>1, <1>2, <1>4, <3>1 DEF HandOk
    <3>3. held[u].kind = "close" => SpanOf(held[u]) \in alive'
      <4>1. held[u].kind = "close" => SpanOf(held[u]) \in alive
        BY <3>1 DEF HandOk
      <4>2. y.kind = "close" => SpanOf(held[u]) # SpanOf(y)
        BY <1>5, <3>2 DEF Follows, SpanOf
      <4> QED
        BY <1>6, <1>7, <4>1, <4>2
    <3>4. \A v \in Threads \ {u} : held'[v] # NoRecord => Follows(held[u], held'[v])
      BY <1>8, <3>1 DEF HandOk
    <3>5. Told(held[u])'
      BY <1>13, <3>1 DEF HandOk
    <3> QED
      BY <1>2, <1>11, <3>1, <3>2, <3>3, <3>4, <3>5 DEF HandOk
  <2> QED
    BY <2>1, <2>2
<1>18. ASSUME NEW s \in alive' PROVE SpanOk(s)'
  <2>1. CASE s \in alive
    <3>1. SpanOk(s)
      BY <2>1 DEF WrittenInv
    <3>2. y.kind = "close" => y.id # s.id
      <4>1. y.kind = "close" => SpanOf(y) \in alive /\ s # SpanOf(y)
        BY <1>1, <1>2, <1>4, <1>7 DEF HandOk
      <4>2. SpanOf(y).id = y.id
        BY DEF SpanOf
      <4> QED
        BY <2>1, <4>1, <4>2 DEF WrittenInv
    <3>3. \A a \in Emitted' : a.run = run =>
             /\ a.kind = "close" => a.id \notin {s.id, s.parent}
             /\ a.kind = "open" /\ a.id = s.id => a.engine = s.engine
      <4> TAKE a \in Emitted'
      <4>1. CASE a = y
        BY <1>15, <2>1, <3>2, <4>1
      <4>2. CASE a \in Emitted
        BY <3>1, <4>2 DEF SpanOk
      <4> QED
        BY <1>11, <4>1, <4>2
    <3>4. \A u \in Threads : held'[u] # NoRecord => held'[u] = held[u]
      BY <1>8
    <3> QED
      BY <1>2, <3>1, <3>3, <3>4 DEF SpanOk
  <2>2. CASE s \notin alive
    <3>1. y.kind = "open" /\ s = SpanOf(y)
      BY <1>6, <1>7, <2>2
    <3>2. s.id = y.id /\ s.parent = y.parent /\ s.req = y.req /\ s.engine = y.engine
      BY <3>1 DEF SpanOf
    <3>3. s.id # 0 /\ s.id < nextSpan /\ s.parent < s.id /\ begun[s.req] = run
      BY <1>5, <3>1, <3>2 DEF Told
    <3>4. \A a \in Emitted' : a.run = run =>
             /\ a.kind = "close" => a.id \notin {s.id, s.parent}
             /\ a.kind = "open" /\ a.id = s.id => a.engine = s.engine
      <4> TAKE a \in Emitted'
      <4>1. CASE a = y
        BY <3>1, <3>2, <4>1
      <4>2. CASE a \in Emitted
        BY <1>5, <3>1, <3>2, <4>2 DEF Follows
      <4> QED
        BY <1>11, <4>1, <4>2
    <3>5. \A u \in Threads : held'[u] # NoRecord =>
             /\ held'[u].kind = "close" => held'[u].id # s.parent
             /\ held'[u].kind = "open" => held'[u].id \notin {s.id, s.parent}
      <4> SUFFICES ASSUME NEW u \in Threads, held'[u] # NoRecord
                   PROVE  /\ held'[u].kind = "close" => held'[u].id # s.parent
                          /\ held'[u].kind = "open" => held'[u].id \notin {s.id, s.parent}
        OBVIOUS
      <4>1. u # t /\ held'[u] = held[u] /\ HandOk(u) /\ held[u] # NoRecord
        BY <1>8 DEF WrittenInv
      <4>2. Follows(y, held[u]) /\ Follows(held[u], y) /\ held[u].run = run
        BY <1>1, <1>2, <1>4, <4>1 DEF HandOk
      <4> QED
        BY <1>5, <3>2, <4>1, <4>2 DEF Follows
    <3> QED
      BY <1>2, <3>3, <3>4, <3>5 DEF SpanOk
  <2> QED
    BY <2>1, <2>2
<1>19. \A x \in Emitted' : Told(x)'
  BY <1>5, <1>11, <1>13 DEF WrittenInv
<1> QED
  BY <1>12, <1>14, <1>16, <1>17, <1>18, <1>19 DEF WrittenInv

-----------------------------------------------------------------------------
(* Writing, pruning, dying: what is left of the lines stays in order.       *)
LEMMA FewerKeep ==
    ASSUME WrittenInv, stamp' = stamp, begun' = begun, held' = held, alive' = alive, run' = run,
           nextSpan' = nextSpan, day' \in Nat, logs' \in Seq(LogFile), logs' # <<>>,
           queue' \in Seq(Lines), InOrderOf(Texts', queue'), Emitted' \subseteq Emitted
    PROVE  WrittenInv'
<1>1. LogShape'
  BY DEF WrittenInv, LogShape
<1>2. \A x : Told(x)' <=> Told(x)
  BY DEF Told
<1>3. \A t \in Threads : HandOk(t)'
  BY <1>2 DEF WrittenInv, HandOk
<1>4. \A s \in alive : SpanOk(s)'
  BY DEF WrittenInv, SpanOk
<1> QED
  BY <1>1, <1>2, <1>3, <1>4 DEF WrittenInv

(* The files a line is written to: names settled, the day turned.           *)
Settled(minute) == IF minute THEN NormalizeLogNames(logs) ELSE logs
WithLine(files, x) ==
    [files EXCEPT ![Len(files)] =
        [files[Len(files)] EXCEPT !.lines = Append(files[Len(files)].lines, x)]]
Turned(files) == IF files[Len(files)].day = day THEN files ELSE Rolled(files)

LEMMA WriteLineShape ==
    ASSUME LogShape, NEW minute \in BOOLEAN, WriteLine(minute),
           NEW S, S = Settled(minute), NEW F, F = Turned(S)
    PROVE  /\ S \in Seq(LogFile) /\ Len(S) = Len(logs) /\ TextsOf(S) = Texts
           /\ F \in Seq(LogFile) /\ F # <<>>
           /\ queue # <<>> /\ queue' = Tail(queue)
           /\ logs' = WithLine(F, Head(queue))
           /\ unsettled' = \/ unsettled \/ S # logs
                           \/ F # S /\ follower.on /\ follower.name # Name(S[Len(S)])
<1>1. /\ queue # <<>> /\ queue' = Tail(queue)
      /\ logs' = WithLine(F, Head(queue))
      /\ unsettled' = \/ unsettled \/ S # logs
                      \/ F # S /\ follower.on /\ follower.name # Name(S[Len(S)])
  BY DEF WriteLine, Settled, Turned, WithLine, Last
<1>2. S \in Seq(LogFile) /\ Len(S) = Len(logs) /\ TextsOf(S) = Texts /\ S # <<>>
  <2>1. CASE minute
    <3>1. S = NormalizeLogNames(logs) /\ logs \in Seq(LogFile) /\ Len(logs) # 0
      BY <2>1 DEF Settled, LogShape
    <3>2. S \in Seq(LogFile) /\ Len(S) = Len(logs) /\ TextsOf(S) = TextsOf(logs)
      BY <3>1, Renamed
    <3> QED
      BY <3>1, <3>2 DEF Texts
  <2>2. CASE ~minute
    BY <2>2 DEF Settled, LogShape, Texts
  <2> QED
    BY <2>1, <2>2
<1>3. F \in Seq(LogFile) /\ F # <<>>
  <2>1. F = S \/ F = Rolled(S)
    BY DEF Turned
  <2>2. day \in Nat
    BY DEF LogShape
  <2>3. PICK R : R = Rolled(S)
    OBVIOUS
  <2>4. R \in Seq(LogFile) /\ R # <<>>
    BY <1>2, <2>2, <2>3, RolledOver
  <2> QED
    BY <1>2, <2>1, <2>3, <2>4
<1> QED
  BY <1>1, <1>2, <1>3

LEMMA TurnedKeeps ==
    ASSUME LogShape, NEW S \in Seq(LogFile), S # <<>>, InOrderOf(TextsOf(S), queue),
           NEW F, F = Turned(S)
    PROVE  InOrderOf(TextsOf(F), queue) /\ EmittedIn(TextsOf(F), queue) \subseteq EmittedIn(TextsOf(S), queue)
<1>1. CASE F = S
  BY <1>1
<1>2. CASE F # S
  <2>1. F = Rolled(S) /\ day \in Nat
    BY <1>2 DEF Turned, LogShape
  <2>2. Excerpt(TextsOf(F), TextsOf(S)) /\ DOMAIN TextsOf(F) \subseteq Int
    BY <2>1, RolledKeeps
  <2> QED
    BY <2>2, ExcerptKeeps
<1> QED
  BY <1>1, <1>2

LEMMA TextsTyped ==
    ASSUME NEW F \in Seq(LogFile)
    PROVE  /\ TextsOf(F) \in Seq(Seq(Lines)) /\ Len(TextsOf(F)) = Len(F)
           /\ \A i \in 1..Len(F) : TextsOf(F)[i] = F[i].lines /\ F[i].lines \in Seq(Lines)
<1>1. Len(F) \in Nat /\ DOMAIN F = 1..Len(F) /\ \A i \in 1..Len(F) : F[i] \in LogFile
  OBVIOUS
<1>2. \A i \in 1..Len(F) : F[i].lines \in Seq(Lines)
  BY <1>1 DEF LogFile
<1>3. TextsOf(F) = [i \in 1..Len(F) |-> F[i].lines]
  BY <1>1 DEF TextsOf
<1> QED
  BY <1>1, <1>2, <1>3

LEMMA SequenceOf ==
    ASSUME NEW S, NEW e \in Nat, NEW G \in [1..e -> S]
    PROVE  G \in Seq(S) /\ Len(G) = e
  OBVIOUS

(* A line at the end of the last file.                                      *)
LEMMA OneLineMore ==
    ASSUME NEW F \in Seq(LogFile), F # <<>>, NEW x \in Lines, NEW e, e = Len(F),
           NEW G, G = WithLine(F, x)
    PROVE  /\ e \in Nat \ {0} /\ G \in Seq(LogFile) /\ Len(G) = e /\ G # <<>>
           /\ \A i \in 1..e : G[i].day = F[i].day /\ G[i].dotted = F[i].dotted
           /\ TextsOf(G) = Longer(TextsOf(F), x)
<1>1. e \in Nat \ {0} /\ DOMAIN F = 1..e /\ \A i \in 1..e : F[i] \in LogFile /\ F[i].lines \in Seq(Lines)
  <2>1. e # 0
    OBVIOUS
  <2> QED
    BY <2>1, FilesTyped
<1>2. PICK ls : ls = Append(F[e].lines, x)
  OBVIOUS
<1>3. PICK f : f = [F[e] EXCEPT !.lines = ls]
  OBVIOUS
<1>4. ls \in Seq(Lines) /\ F[e] \in [day : Nat, dotted : BOOLEAN, lines : Seq(Lines)]
  BY <1>1, <1>2 DEF LogFile
<1>5. f \in LogFile /\ f.lines = ls /\ f.day = F[e].day /\ f.dotted = F[e].dotted
  BY <1>3, <1>4 DEF LogFile
<1>6. G = [F EXCEPT ![e] = f]
  BY <1>2, <1>3 DEF WithLine
<1>7. DOMAIN G = 1..e /\ G[e] = f /\ \A i \in 1..e : i # e => G[i] = F[i]
  BY <1>1, <1>6
<1>8. \A i \in 1..e : G[i] \in LogFile /\ G[i].day = F[i].day /\ G[i].dotted = F[i].dotted
  BY <1>1, <1>5, <1>7
<1>9. G \in Seq(LogFile) /\ Len(G) = e /\ G # <<>>
  <2>1. G \in [1..e -> LogFile]
    <3>1. F \in [1..e -> LogFile]
      BY <1>1
    <3> QED
      BY <1>1, <1>5, <1>6, <3>1
  <2>2. G \in Seq(LogFile) /\ Len(G) = e
    BY <1>1, <2>1, SequenceOf
  <2> QED
    BY <1>1, <2>2
<1>10. TextsOf(G) = Longer(TextsOf(F), x)
  <2>1. DOMAIN TextsOf(F) = 1..e /\ \A i \in 1..e : TextsOf(F)[i] = F[i].lines
    BY <1>1 DEF TextsOf
  <2>2. \A i \in 1..e : G[i].lines = IF i = e THEN Append(TextsOf(F)[e], x) ELSE TextsOf(F)[i]
    BY <1>1, <1>2, <1>5, <1>7, <2>1
  <2>3. TextsOf(G) = [i \in 1..e |-> IF i = e THEN Append(TextsOf(F)[e], x) ELSE TextsOf(F)[i]]
    BY <1>7, <2>2 DEF TextsOf
  <2>4. Len(TextsOf(F)) = e
    BY TextsTyped
  <2> QED
    BY <2>1, <2>3, <2>4 DEF Longer
<1> QED
  BY <1>1, <1>8, <1>9, <1>10

LEMMA WriteLineKeeps ==
    ASSUME WrittenInv, NEW minute \in BOOLEAN, WriteLine(minute)
    PROVE  WrittenInv'
<1>1. PICK S : S = Settled(minute)
  OBVIOUS
<1>2. PICK F : F = Turned(S)
  OBVIOUS
<1>3. LogShape
  BY DEF WrittenInv
<1>4. /\ S \in Seq(LogFile) /\ Len(S) = Len(logs) /\ TextsOf(S) = Texts
      /\ F \in Seq(LogFile) /\ F # <<>>
      /\ queue # <<>> /\ queue' = Tail(queue)
      /\ logs' = WithLine(F, Head(queue))
  BY <1>1, <1>2, <1>3, WriteLineShape
<1>5. S # <<>> /\ queue \in Seq(Lines)
  BY <1>3, <1>4 DEF LogShape
<1>6. InOrderOf(TextsOf(F), queue) /\ EmittedIn(TextsOf(F), queue) \subseteq Emitted
  <2>1. InOrderOf(TextsOf(S), queue) /\ EmittedIn(TextsOf(S), queue) = Emitted
    BY <1>4 DEF WrittenInv, Emitted
  <2> QED
    BY <1>2, <1>3, <1>4, <1>5, <2>1, TurnedKeeps
<1>7. PICK x : x = Head(queue)
  OBVIOUS
<1>8. PICK e : e = Len(F)
  OBVIOUS
<1>9. PICK G : G = TextsOf(F)
  OBVIOUS
<1>10. x \in Lines /\ G \in Seq(Seq(Lines)) /\ Len(G) = e
  BY <1>4, <1>5, <1>7, <1>8, <1>9, TextsTyped
<1>11. PICK L : L = logs'
  OBVIOUS
<1>12. L = WithLine(F, x) /\ F # <<>> /\ F \in Seq(LogFile)
  BY <1>4, <1>7, <1>11
<1>13. /\ e \in Nat \ {0} /\ L \in Seq(LogFile) /\ L # <<>>
       /\ TextsOf(L) = Longer(TextsOf(F), x)
  BY <1>8, <1>10, <1>12, OneLineMore
<1>14. PICK H : H = TextsOf(L)
  OBVIOUS
<1>15. H = Longer(G, Head(queue)) /\ G # <<>> /\ InOrderOf(G, queue)
  BY <1>6, <1>7, <1>9, <1>10, <1>13, <1>14
<1>16. InOrderOf(H, Tail(queue)) /\ EmittedIn(H, Tail(queue)) \subseteq EmittedIn(G, queue)
  BY <1>4, <1>5, <1>10, <1>15, WrittenKeeps
<1>17. InOrderOf(Texts', queue') /\ Emitted' \subseteq Emitted
  BY <1>4, <1>6, <1>9, <1>11, <1>14, <1>16 DEF Texts, Emitted
<1>18. queue' \in Seq(Lines) /\ logs' \in Seq(LogFile) /\ logs' # <<>>
  BY <1>4, <1>5, <1>11, <1>13
<1>19. /\ stamp' = stamp /\ begun' = begun /\ held' = held /\ alive' = alive /\ run' = run
       /\ nextSpan' = nextSpan /\ day' \in Nat
  BY <1>3 DEF WriteLine, LogShape
<1> QED
  BY <1>17, <1>18, <1>19, FewerKeep

LEMMA CrashKeeps ==
    ASSUME WrittenInv, CrashAndReopen
    PROVE  WrittenInv'
<1>1. /\ run \in Nat \ {0} /\ run' = run + 1 /\ alive' = {} /\ queue' = <<>> /\ nextSpan' = 1
      /\ held' = [t \in Threads |-> NoRecord]
      /\ logs' = NormalizeLogNames(Rolled(logs))
      /\ stamp' = stamp /\ day' = day /\ begun' = begun
      /\ logs \in Seq(LogFile) /\ logs # <<>> /\ day \in Nat /\ queue \in Seq(Lines)
  BY DEF CrashAndReopen, WrittenInv, LogShape
<1>2. PICK R : R = Rolled(logs)
  OBVIOUS
<1>3. R \in Seq(LogFile) /\ R # <<>>
  BY <1>1, <1>2, RolledOver
<1>4. PICK N : N = NormalizeLogNames(R)
  OBVIOUS
<1>5. N \in Seq(LogFile) /\ Len(N) = Len(R) /\ TextsOf(N) = TextsOf(R)
  BY <1>3, <1>4, Renamed
<1>6. logs' = N /\ N # <<>>
  BY <1>1, <1>2, <1>3, <1>4, <1>5
<1>7. LogShape'
  BY <1>1, <1>5, <1>6 DEF LogShape, WrittenInv
<1>8. InOrderOf(Texts', queue) /\ EmittedIn(Texts', queue) \subseteq Emitted
  <2>1. Excerpt(TextsOf(R), Texts) /\ DOMAIN TextsOf(R) \subseteq Int
    BY <1>1, <1>2, RolledKeeps DEF Texts
  <2>2. InOrderOf(TextsOf(R), queue) /\ EmittedIn(TextsOf(R), queue) \subseteq Emitted
    BY <2>1, ExcerptKeeps DEF WrittenInv, Emitted
  <2> QED
    BY <1>5, <1>6, <2>2 DEF Texts
<1>9. InOrderOf(Texts', queue') /\ Emitted' \subseteq Emitted
  <2>1. DOMAIN queue' = {}
    BY <1>1
  <2> QED
    BY <1>8, <2>1 DEF InOrderOf, Emitted, EmittedIn
<1>10. \A x \in Emitted' : Told(x)'
  <2>1. \A x \in Emitted : x \in Lines /\ Told(x)
    BY LinesTyped DEF WrittenInv
  <2>2. ASSUME NEW x \in Lines, Told(x) PROVE Told(x)'
    <3>1. x.run <= run' /\ x.run # run'
      BY <1>1, <2>2 DEF Told, Lines
    <3> QED
      BY <1>1, <2>2, <3>1 DEF Told
  <2> QED
    BY <1>9, <2>1, <2>2
<1>11. \A t \in Threads : HandOk(t)'
  BY <1>1 DEF HandOk
<1> QED
  BY <1>1, <1>7, <1>9, <1>10, <1>11 DEF WrittenInv

(* Whatever threads interleave, wherever processes die: what is on file and *)
(* in the queue has stamps of its own, and of a span its opening first, its *)
(* close last (JsonlLayer::on_new_span, on_event, on_close, emit).          *)
THEOREM WrittenInvariant == LogSpec => []WrittenInv
<1>1. LogInit => WrittenInv
  <2> SUFFICES ASSUME LogInit PROVE WrittenInv
    OBVIOUS
  <2> DEFINE f == [day |-> 1, dotted |-> FALSE, lines |-> <<>>]
  <2>1. f \in LogFile /\ f.lines = <<>>
    BY DEF LogFile
  <2>2. logs = <<f>>
    BY DEF LogInit
  <2> HIDE DEF f
  <2>3. LogShape
    <3>1. stamp \in Nat /\ day \in Nat /\ run \in Nat \ {0} /\ nextSpan \in Nat \ {0}
          /\ alive \subseteq Spans /\ queue \in Seq(Lines)
      BY DEF LogInit
    <3>2. begun \in [Requests -> Nat] /\ held \in [Threads -> Lines \cup {NoRecord}]
      BY DEF LogInit
    <3>3. logs \in Seq(LogFile) /\ logs # <<>>
      BY <2>1, <2>2
    <3> QED
      BY <3>1, <3>2, <3>3 DEF LogShape
  <2>4. DOMAIN Texts = {1} /\ Texts[1] = <<>>
    BY <2>1, <2>2 DEF Texts, TextsOf
  <2>5. SpotsIn(Texts) = {} /\ DOMAIN queue = {}
    BY <2>4 DEF SpotsIn, LogInit
  <2>6. Emitted = {} /\ InOrderOf(Texts, queue)
    BY <2>5 DEF Emitted, EmittedIn, InOrderOf
  <2>7. alive = {} /\ \A t \in Threads : held[t] = NoRecord
    BY DEF LogInit
  <2> QED
    BY <2>3, <2>6, <2>7 DEF WrittenInv, HandOk
<1>2. WrittenInv /\ [LogNext]_logVars => WrittenInv'
  <2> SUFFICES ASSUME WrittenInv, [LogNext]_logVars PROVE WrittenInv'
    OBVIOUS
  <2>1. ASSUME stamp' = stamp, begun' = begun, held' = held, alive' = alive, run' = run,
               nextSpan' = nextSpan, logs' = logs, queue' = queue, day' \in Nat
        PROVE  WrittenInv'
    <3>1. Texts' = Texts /\ Emitted' = Emitted
      BY <2>1 DEF Texts, Emitted
    <3> QED
      BY <2>1, <3>1, FewerKeep DEF WrittenInv, LogShape
  <2>2. ASSUME NEW t \in Threads, NEW r \in Requests, NEW engine \in BOOLEAN, OnNewSpan(t, r, engine)
        PROVE  WrittenInv'
    BY <2>2, OnNewSpanKeeps
  <2>3. ASSUME NEW t \in Threads, NEW r \in Requests, OnEvent(t, r) PROVE WrittenInv'
    BY <2>3, OnEventKeeps
  <2>4. ASSUME NEW t \in Threads, NEW s \in Usable, OnClose(t, s) PROVE WrittenInv'
    BY <2>4, OnCloseKeeps
  <2>5. ASSUME NEW t \in Threads, Emit(t) PROVE WrittenInv'
    BY <2>5, EmitKeeps
  <2>6. ASSUME NEW minute \in BOOLEAN, WriteLine(minute) PROVE WrittenInv'
    BY <2>6, WriteLineKeeps
  <2>7. CASE DayPasses
    <3>1. day' \in Nat
      BY <2>7 DEF DayPasses, WrittenInv, LogShape
    <3> QED
      BY <2>1, <2>7, <3>1 DEF DayPasses
  <2>8. CASE CrashAndReopen
    BY <2>8, CrashKeeps
  <2>9. CASE StartFollowing \/ Follow
    <3>1. day' \in Nat
      BY <2>9 DEF StartFollowing, Follow, WrittenInv, LogShape
    <3> QED
      BY <2>1, <2>9, <3>1 DEF StartFollowing, Follow
  <2>10. CASE UNCHANGED logVars
    <3>1. day' \in Nat
      BY <2>10 DEF logVars, WrittenInv, LogShape
    <3> QED
      BY <2>1, <2>10, <3>1 DEF logVars
  <2> QED
    BY <2>2, <2>3, <2>4, <2>5, <2>6, <2>7, <2>8, <2>9, <2>10 DEF LogNext
<1> QED
  BY <1>1, <1>2, PTL DEF LogSpec

-----------------------------------------------------------------------------
(* The files in the order of their days; of a day's two the renamed first.  *)
Ordered(F) ==
    /\ \A i \in 1..Len(F) : F[i].day <= day
    /\ \A i, j \in 1..Len(F) : i < j =>
         F[i].day < F[j].day \/ (F[i].day = F[j].day /\ ~F[i].dotted /\ F[j].dotted)

LEMMA OwnName ==
    ASSUME NEW F \in Seq(LogFile), Ordered(F), NEW i \in 1..Len(F), NEW j \in 1..Len(F),
           Name(F[i]) = Name(F[j])
    PROVE  i = j
<1>1. F[i].day = F[j].day /\ F[i].dotted = F[j].dotted
  BY DEF Name
<1>2. F[i].day \in Nat /\ F[j].day \in Nat /\ i \in Nat /\ j \in Nat
  BY FilesTyped
<1>3. ~(i < j) /\ ~(j < i)
  BY <1>1, <1>2 DEF Ordered
<1> QED
  BY <1>2, <1>3

LEMMA RenamedOrdered ==
    ASSUME NEW F \in Seq(LogFile), Ordered(F), NEW N, N = NormalizeLogNames(F)
    PROVE  Ordered(N)
<1>1. /\ Len(N) = Len(F) /\ DOMAIN F = 1..Len(F)
      /\ \A i \in 1..Len(F) : F[i] \in LogFile /\ N[i].day = F[i].day /\ (N[i].dotted => F[i].dotted)
  BY Renamed
<1>2. ASSUME NEW i \in 1..Len(F), NEW j \in 1..Len(F), F[i].day = F[j].day, ~F[i].dotted, F[j].dotted
      PROVE  N[j].dotted
  <2>1. Name(F[i]) = [day |-> F[j].day, dotted |-> FALSE]
    BY <1>1, <1>2 DEF Name, LogFile
  <2>2. [day |-> F[j].day, dotted |-> FALSE] \in Names(F)
    BY <1>1, <2>1 DEF Names
  <2>3. N[j] = F[j]
    BY <1>1, <2>2 DEF NormalizeLogNames
  <2> QED
    BY <1>2, <2>3
<1> QED
  BY <1>1, <1>2 DEF Ordered

LEMMA RolledOrdered ==
    ASSUME NEW F \in Seq(LogFile), F # <<>>, day \in Nat, Ordered(F), NEW R, R = Rolled(F)
    PROVE  Ordered(R)
<1>1. R \in Seq(LogFile) /\ \E d \in 0..Len(F) : Rolls(F, R, d)
  BY RolledOver
<1>2. PICK d \in 0..Len(F) : Rolls(F, R, d)
  BY <1>1
<1>3. Len(F) \in Nat /\ Len(R) \in Nat /\ d \in Nat /\ d <= Len(F)
      /\ \A i \in 1..Len(F) : F[i].day \in Nat
  BY <1>1, FilesTyped
<1>4. \A i \in 1..(Len(F) - d) : R[i] = F[i + d] /\ i + d \in 1..Len(F)
  BY <1>2, <1>3 DEF Rolls
<1>5. \A i \in 1..(Len(F) - d) : R[i].day <= day
  BY <1>4 DEF Ordered
<1>6. \A i, j \in 1..(Len(F) - d) : i < j =>
         R[i].day < R[j].day \/ (R[i].day = R[j].day /\ ~R[i].dotted /\ R[j].dotted)
  <2> TAKE i, j \in 1..(Len(F) - d)
  <2> HAVE i < j
  <2>1. i + d < j + d
    BY <1>3
  <2> QED
    BY <1>4, <2>1 DEF Ordered
<1>7. CASE Len(R) = Len(F) - d
  BY <1>5, <1>6, <1>7 DEF Ordered
<1>8. CASE /\ Len(R) = Len(F) - d + 1
           /\ R[Len(R)] = [day |-> day, dotted |-> TRUE, lines |-> <<>>]
           /\ \A i \in 1..(Len(F) - d) : ~(R[i].day = day /\ R[i].dotted)
  <2>1. R[Len(R)].day = day /\ R[Len(R)].dotted
    BY <1>8
  <2>2. \A i \in 1..Len(R) : i \in 1..(Len(F) - d) \/ i = Len(R)
    BY <1>3, <1>8
  <2>3. \A i \in 1..(Len(F) - d) : R[i].day \in Nat
    BY <1>3, <1>4
  <2>4. \A i \in 1..Len(R) : R[i].day <= day
    BY <1>5, <2>1, <2>2
  <2>5. \A i, j \in 1..Len(R) : i < j =>
           R[i].day < R[j].day \/ (R[i].day = R[j].day /\ ~R[i].dotted /\ R[j].dotted)
    <3> TAKE i, j \in 1..Len(R)
    <3> HAVE i < j
    <3>1. i \in 1..(Len(F) - d)
      BY <1>3, <2>2
    <3>2. CASE j \in 1..(Len(F) - d)
      BY <1>6, <3>1, <3>2
    <3>3. CASE j = Len(R)
      <4>1. R[i].day < day \/ R[i].day = day
        BY <1>5, <2>3, <3>1
      <4> QED
        BY <1>8, <2>1, <3>1, <3>3, <4>1
    <3> QED
      BY <2>2, <3>2, <3>3
  <2> QED
    BY <2>4, <2>5 DEF Ordered
<1> QED
  BY <1>2, <1>7, <1>8 DEF Rolls

NamesInv == Ordered(logs)

LEMMA SettledOrdered ==
    ASSUME LogShape, NamesInv, NEW minute \in BOOLEAN, NEW S, S = Settled(minute),
           S \in Seq(LogFile), S # <<>>, NEW F, F = Turned(S)
    PROVE  Ordered(S) /\ Ordered(F)
<1>1. Ordered(S)
  <2>1. CASE minute
    <3>1. S = NormalizeLogNames(logs) /\ logs \in Seq(LogFile) /\ Ordered(logs)
      BY <2>1 DEF Settled, LogShape, NamesInv
    <3> QED
      BY <3>1, RenamedOrdered
  <2>2. CASE ~minute
    BY <2>2 DEF Settled, NamesInv
  <2> QED
    BY <2>1, <2>2
<1>2. Ordered(F)
  <2>1. F = S \/ F = Rolled(S)
    BY DEF Turned
  <2>2. day \in Nat
    BY DEF LogShape
  <2> QED
    BY <1>1, <2>1, <2>2, RolledOrdered
<1> QED
  BY <1>1, <1>2

LEMMA NamesInvariant == LogSpec => []NamesInv
<1>1. LogInit => NamesInv
  <2> SUFFICES ASSUME LogInit PROVE NamesInv
    OBVIOUS
  <2>1. Len(logs) = 1 /\ logs[1].day = 1 /\ day = 1
    BY DEF LogInit
  <2> QED
    BY <2>1 DEF NamesInv, Ordered
<1>2. WrittenInv /\ NamesInv /\ [LogNext]_logVars => NamesInv'
  <2> SUFFICES ASSUME WrittenInv, NamesInv, [LogNext]_logVars PROVE NamesInv'
    OBVIOUS
  <2>1. LogShape /\ logs \in Seq(LogFile) /\ logs # <<>> /\ day \in Nat
    BY DEF WrittenInv, LogShape
  <2>2. CASE UNCHANGED <<logs, day>>
    BY <2>2 DEF NamesInv, Ordered
  <2>3. ASSUME NEW minute \in BOOLEAN, WriteLine(minute) PROVE NamesInv'
    <3>1. PICK S : S = Settled(minute)
      OBVIOUS
    <3>2. PICK F : F = Turned(S)
      OBVIOUS
    <3>3. /\ S \in Seq(LogFile) /\ Len(S) = Len(logs)
          /\ F \in Seq(LogFile) /\ F # <<>> /\ queue # <<>>
          /\ logs' = WithLine(F, Head(queue))
      BY <2>1, <2>3, <3>1, <3>2, WriteLineShape
    <3>4. Ordered(F) /\ S # <<>>
      <4>1. S # <<>>
        BY <2>1, <3>3
      <4> QED
        BY <2>1, <3>1, <3>2, <3>3, <4>1, SettledOrdered
    <3>5. Head(queue) \in Lines
      BY <2>1, <3>3 DEF LogShape
    <3>6. /\ Len(logs') = Len(F)
          /\ \A i \in 1..Len(F) : logs'[i].day = F[i].day /\ logs'[i].dotted = F[i].dotted
      BY <3>3, <3>5, OneLineMore
    <3>7. day' = day
      BY <2>3 DEF WriteLine
    <3> QED
      BY <3>4, <3>6, <3>7 DEF NamesInv, Ordered
  <2>4. CASE DayPasses
    <3>1. logs' = logs /\ day' = day + 1
      BY <2>4 DEF DayPasses
    <3>2. \A i \in 1..Len(logs) : logs[i].day \in Nat
      BY <2>1, FilesTyped
    <3> QED
      BY <2>1, <3>1, <3>2 DEF NamesInv, Ordered
  <2>5. CASE CrashAndReopen
    <3>1. logs' = NormalizeLogNames(Rolled(logs)) /\ day' = day
      BY <2>5 DEF CrashAndReopen
    <3>2. PICK R : R = Rolled(logs)
      OBVIOUS
    <3>3. R \in Seq(LogFile) /\ Ordered(R)
      BY <2>1, <3>2, RolledOver, RolledOrdered DEF NamesInv
    <3>4. PICK N : N = NormalizeLogNames(R)
      OBVIOUS
    <3>5. Ordered(N)
      BY <3>3, <3>4, RenamedOrdered
    <3>6. logs' = N
      BY <3>1, <3>2, <3>4
    <3> QED
      BY <3>1, <3>5, <3>6 DEF NamesInv, Ordered
  <2> QED
    BY <2>2, <2>3, <2>4, <2>5
    DEF LogNext, logVars, OnNewSpan, OnEvent, OnClose, Stamped, Emit, StartFollowing, Follow
<1> QED
  BY <1>1, <1>2, WrittenInvariant, PTL DEF LogSpec

-----------------------------------------------------------------------------
(* Spots in texts.                                                          *)
LEMMA SpotsOf ==
    ASSUME NEW S, NEW T \in Seq(Seq(S)), NEW s \in SpotsIn(T)
    PROVE  /\ s[1] \in 1..Len(T) /\ s[2] \in 1..Len(T[s[1]]) /\ s = <<s[1], s[2]>>
           /\ s[1] \in Nat /\ s[2] \in Nat /\ At(T, s) = T[s[1]][s[2]] /\ At(T, s) \in S
<1>1. DOMAIN T = 1..Len(T) /\ \A i \in 1..Len(T) : T[i] \in Seq(S)
  OBVIOUS
<1>2. PICK i \in 1..Len(T) : \E k \in DOMAIN T[i] : s = <<i, k>>
  BY <1>1, SpotPair
<1>3. PICK k \in DOMAIN T[i] : s = <<i, k>>
  BY <1>2
<1>4. T[i] \in Seq(S) /\ k \in 1..Len(T[i]) /\ T[i][k] \in S
  BY <1>1, <1>2
<1> QED
  BY <1>2, <1>3, <1>4 DEF At

LEMMA SpotAt ==
    ASSUME NEW S, NEW T \in Seq(Seq(S)), NEW i \in 1..Len(T), NEW k \in 1..Len(T[i])
    PROVE  <<i, k>> \in SpotsIn(T) /\ At(T, <<i, k>>) = T[i][k]
<1>1. DOMAIN T = 1..Len(T) /\ T[i] \in Seq(S)
  OBVIOUS
<1>2. i \in DOMAIN T /\ k \in DOMAIN T[i]
  BY <1>1
<1> QED
  BY <1>2, SpotPair DEF At

LEMMA AheadOrder ==
    ASSUME NEW S, NEW T \in Seq(Seq(S)), NEW s \in SpotsIn(T), NEW u \in SpotsIn(T)
    PROVE  /\ s = u \/ Ahead(s, u) \/ Ahead(u, s)
           /\ ~(Ahead(s, u) /\ Ahead(u, s)) /\ ~Ahead(s, s)
<1>1. /\ s[1] \in Nat /\ s[2] \in Nat /\ u[1] \in Nat /\ u[2] \in Nat
      /\ s = <<s[1], s[2]>> /\ u = <<u[1], u[2]>>
  BY SpotsOf
<1>2. s[1] = u[1] /\ s[2] = u[2] => s = u
  BY <1>1
<1> QED
  BY <1>1, <1>2 DEF Ahead

(* Stamps tell the lines apart.                                             *)
LEMMA OneSpot ==
    ASSUME NEW S, NEW T \in Seq(Seq(S)), NEW q, InOrderOf(T, q),
           NEW s \in SpotsIn(T), NEW u \in SpotsIn(T), At(T, s).ts = At(T, u).ts
    PROVE  s = u
<1>1. s = u \/ Ahead(s, u) \/ Ahead(u, s)
  BY AheadOrder
<1> QED
  BY <1>1 DEF InOrderOf, Follows

(* Texts of which the first d are gone, and none or more without a line.    *)
Shifted(U, T, d) ==
    /\ \A s \in SpotsIn(U) : <<s[1] + d, s[2]>> \in SpotsIn(T) /\ At(U, s) = At(T, <<s[1] + d, s[2]>>)
    /\ \A s \in SpotsIn(T) : s[1] > d =>
          <<s[1] - d, s[2]>> \in SpotsIn(U) /\ At(U, <<s[1] - d, s[2]>>) = At(T, s)

LEMMA RolledShifts ==
    ASSUME NEW F \in Seq(LogFile), NEW R \in Seq(LogFile), NEW d \in 0..Len(F), Rolls(F, R, d)
    PROVE  Shifted(TextsOf(R), TextsOf(F), d)
<1> DEFINE U == TextsOf(R)
           T == TextsOf(F)
<1>1. /\ U \in Seq(Seq(Lines)) /\ T \in Seq(Seq(Lines)) /\ Len(U) = Len(R) /\ Len(T) = Len(F)
      /\ \A i \in 1..Len(R) : U[i] = R[i].lines
      /\ \A i \in 1..Len(F) : T[i] = F[i].lines
  BY TextsTyped
<1>2. d \in Nat /\ Len(F) \in Nat /\ Len(R) \in Nat /\ d <= Len(F)
  OBVIOUS
<1> HIDE DEF U, T
<1>3. \A i \in 1..(Len(F) - d) : i \in 1..Len(R) /\ i + d \in 1..Len(F) /\ U[i] = T[i + d]
  <2> TAKE i \in 1..(Len(F) - d)
  <2>1. R[i] = F[i + d] /\ (Len(R) = Len(F) - d \/ Len(R) = Len(F) - d + 1)
    BY DEF Rolls
  <2>2. i + d \in 1..Len(F) /\ i \in 1..Len(R)
    BY <1>2, <2>1
  <2> QED
    BY <1>1, <2>1, <2>2
<1>4. ASSUME NEW s \in SpotsIn(U)
      PROVE  <<s[1] + d, s[2]>> \in SpotsIn(T) /\ At(U, s) = At(T, <<s[1] + d, s[2]>>)
  <2>1. s[1] \in 1..Len(R) /\ s[2] \in 1..Len(U[s[1]]) /\ At(U, s) = U[s[1]][s[2]]
    BY <1>1, SpotsOf
  <2>2. s[1] \in 1..(Len(F) - d)
    <3>1. Len(R) = Len(F) - d \/ (Len(R) = Len(F) - d + 1 /\ R[Len(R)].lines = <<>>)
      BY DEF Rolls
    <3>2. U[s[1]] # <<>>
      BY <2>1
    <3>3. s[1] # Len(R) \/ Len(R) = Len(F) - d
      BY <1>1, <2>1, <3>1, <3>2
    <3>4. CASE Len(R) = Len(F) - d
      BY <2>1, <3>4
    <3>5. CASE Len(R) = Len(F) - d + 1 /\ s[1] # Len(R)
      BY <1>2, <2>1, <3>5
    <3> QED
      BY <3>1, <3>3, <3>4, <3>5
  <2>3. PICK j \in 1..Len(T) : j = s[1] + d
    BY <1>1, <1>3, <2>2
  <2>4. T[j] = U[s[1]]
    BY <1>3, <2>2, <2>3
  <2>5. <<j, s[2]>> \in SpotsIn(T) /\ At(T, <<j, s[2]>>) = T[j][s[2]]
    BY <1>1, <2>1, <2>4, SpotAt
  <2> QED
    BY <2>1, <2>3, <2>4, <2>5
<1>5. ASSUME NEW s \in SpotsIn(T), s[1] > d
      PROVE  <<s[1] - d, s[2]>> \in SpotsIn(U) /\ At(U, <<s[1] - d, s[2]>>) = At(T, s)
  <2>1. s[1] \in 1..Len(F) /\ s[2] \in 1..Len(T[s[1]]) /\ At(T, s) = T[s[1]][s[2]]
    BY <1>1, SpotsOf
  <2>2. PICK i : i = s[1] - d
    OBVIOUS
  <2>3. i \in 1..(Len(F) - d) /\ i + d = s[1]
    BY <1>2, <1>5, <2>1, <2>2
  <2>4. i \in 1..Len(U) /\ U[i] = T[s[1]]
    BY <1>1, <1>3, <2>3
  <2>5. <<i, s[2]>> \in SpotsIn(U) /\ At(U, <<i, s[2]>>) = U[i][s[2]]
    BY <1>1, <2>1, <2>4, SpotAt
  <2> QED
    BY <2>1, <2>2, <2>4, <2>5
<1> QED
  BY <1>4, <1>5 DEF Shifted, U, T

-----------------------------------------------------------------------------
(* What a follower has read: the lines that are still on file stand there   *)
(* one behind the other, and behind the last those it has not read, which   *)
(* are those past place o of text f.                                        *)
Past(f, o, s) == s[1] > f \/ (s[1] = f /\ s[2] > o)

NextIs(T, s, line) ==
    \E u \in SpotsIn(T) : /\ At(T, u) = line /\ Ahead(s, u)
                          /\ \A v \in SpotsIn(T) : ~(Ahead(s, v) /\ Ahead(v, u))

Chain(T, seen, f, o) ==
    \A i \in DOMAIN seen, s \in SpotsIn(T) : At(T, s) = seen[i] =>
        IF i < Len(seen) THEN NextIs(T, s, seen[i + 1])
        ELSE \A v \in SpotsIn(T) : Ahead(s, v) <=> Past(f, o, v)

(* Reading a text to its end.                                               *)
LEMMA ReadOn ==
    ASSUME NEW S, NEW T \in Seq(Seq(S)), NEW q, InOrderOf(T, q), NEW seen \in Seq(S),
           NEW f \in 1..Len(T), NEW o \in 0..Len(T[f]), Chain(T, seen, f, o),
           NEW new, new = SubSeq(T[f], o + 1, Len(T[f]))
    PROVE  /\ new \in Seq(S) /\ Len(new) = Len(T[f]) - o
           /\ Chain(T, seen \o new, f, Len(T[f]))
<1>1. PICK text \in Seq(S) : text = T[f]
  OBVIOUS
<1>2. PICK m : m = Len(text)
  OBVIOUS
<1>3. m \in Nat /\ o \in Nat /\ o <= m /\ f \in Nat
  BY <1>1, <1>2
<1>4. PICK n : n = Len(seen)
  OBVIOUS
<1>6. new \in Seq(S) /\ Len(new) = m - o /\ \A k \in 1..(m - o) : new[k] = text[o + k]
  BY <1>1, <1>2, FromPlace
<1>7. PICK W : W = seen \o new
  OBVIOUS
<1>8. /\ n \in Nat /\ Len(W) = n + (m - o) /\ DOMAIN W = 1..(n + (m - o)) /\ DOMAIN seen = 1..n
      /\ \A i \in 1..n : W[i] = seen[i]
      /\ \A k \in 1..(m - o) : W[n + k] = text[o + k]
  <2>1. /\ n \in Nat /\ W \in Seq(S) /\ Len(W) = n + Len(new)
        /\ \A i \in 1..(n + Len(new)) : W[i] = IF i <= n THEN seen[i] ELSE new[i - n]
    BY <1>4, <1>6, <1>7
  <2>2. \A k \in 1..(m - o) : n + k \in 1..(n + Len(new)) /\ ~(n + k <= n) /\ (n + k) - n = k
    <3>1. PICK p \in Nat : p = m - o
      BY <1>3
    <3>2. n \in Nat /\ Len(new) = p
      BY <1>6, <2>1, <3>1
    <3>3. \A k \in 1..p : n + k \in 1..(n + p) /\ ~(n + k <= n) /\ (n + k) - n = k
      BY <3>1, <3>2
    <3> QED
      BY <3>1, <3>2, <3>3
  <2>3. \A i \in 1..n : W[i] = seen[i]
    <3>1. \A i \in 1..n : i \in 1..(n + Len(new)) /\ i <= n
      BY <1>3, <1>6, <2>1
    <3> QED
      BY <2>1, <3>1
  <2>4. \A k \in 1..(m - o) : W[n + k] = text[o + k]
    BY <1>6, <2>1, <2>2
  <2>5. Len(W) = n + (m - o) /\ DOMAIN W = 1..(n + (m - o))
    BY <1>6, <2>1
  <2>6. DOMAIN seen = 1..n
    BY <1>4
  <2> QED
    BY <2>1, <2>3, <2>4, <2>5, <2>6
<1>9. \A k \in 1..m : <<f, k>> \in SpotsIn(T) /\ At(T, <<f, k>>) = text[k]
  BY <1>1, <1>2, SpotAt
<1>10. \A s \in SpotsIn(T) : s[1] \in Nat /\ s[2] \in Nat /\ (s[1] = f => s[2] <= m)
  BY <1>1, <1>2, SpotsOf
<1>11. ASSUME NEW i \in DOMAIN W, NEW s \in SpotsIn(T), At(T, s) = W[i]
       PROVE  IF i < Len(W) THEN NextIs(T, s, W[i + 1])
              ELSE \A v \in SpotsIn(T) : Ahead(s, v) <=> Past(f, m, v)
  <2>1. i \in Nat /\ i >= 1 /\ i <= n + (m - o)
    BY <1>3, <1>8
  <2>2. CASE i < n
    <3>1. i \in 1..n /\ i + 1 \in 1..n /\ i < n + (m - o)
      BY <1>3, <1>8, <2>1, <2>2
    <3>2. i \in DOMAIN seen /\ i < Len(seen) /\ seen[i] = W[i] /\ seen[i + 1] = W[i + 1] /\ i < Len(W)
      BY <1>4, <1>8, <2>2, <3>1
    <3>3. NextIs(T, s, seen[i + 1])
      BY <1>11, <3>2 DEF Chain
    <3> QED
      BY <3>2, <3>3
  <2>3. CASE i = n
    <3>1. i \in DOMAIN seen /\ ~(i < Len(seen)) /\ seen[i] = W[i]
      BY <1>4, <1>8, <2>1, <2>3
    <3>2. \A v \in SpotsIn(T) : Ahead(s, v) <=> Past(f, o, v)
      BY <1>11, <3>1 DEF Chain
    <3>3. CASE o = m
      BY <1>3, <1>8, <2>3, <3>2, <3>3
    <3>4. CASE o < m
      <4>1. o + 1 \in 1..m /\ 1 \in 1..(m - o) /\ i < Len(W)
        BY <1>3, <1>8, <2>3, <3>4
      <4>2. W[i + 1] = text[o + 1]
        BY <1>8, <2>3, <4>1
      <4>3. <<f, o + 1>> \in SpotsIn(T) /\ At(T, <<f, o + 1>>) = W[i + 1]
        BY <1>9, <4>1, <4>2
      <4>4. PICK u \in SpotsIn(T) : u = <<f, o + 1>>
        BY <4>3
      <4>5. u[1] = f /\ u[2] = o + 1 /\ Past(f, o, u)
        BY <1>3, <4>4 DEF Past
      <4>6. \A v \in SpotsIn(T) : Past(f, o, v) => ~Ahead(v, u)
        BY <1>3, <1>10, <4>5 DEF Past, Ahead
      <4>7. NextIs(T, s, W[i + 1])
        BY <3>2, <4>3, <4>4, <4>5, <4>6 DEF NextIs
      <4> QED
        BY <4>1, <4>7
    <3> QED
      BY <1>3, <3>3, <3>4
  <2>4. CASE i > n
    <3>1. PICK k : k = i - n
      OBVIOUS
    <3>2. k \in 1..(m - o) /\ i = n + k /\ o + k \in 1..m /\ k \in Nat
      <4>1. PICK p \in Nat : p = m - o
        BY <1>3
      <4>2. n \in Nat /\ i \in 1..(n + p)
        BY <1>8, <2>1, <4>1
      <4>3. k \in 1..p /\ i = n + k /\ k \in Nat
        BY <2>4, <3>1, <4>1, <4>2
      <4>4. o + k \in 1..m
        BY <1>3, <4>1, <4>3
      <4> QED
        BY <4>1, <4>3, <4>4
    <3>3. PICK w \in SpotsIn(T) : w = <<f, o + k>> /\ At(T, w) = W[i]
      BY <1>8, <1>9, <3>2
    <3>4. s = w
      BY <1>11, <3>3, OneSpot
    <3>5. s[1] = f /\ s[2] = o + k
      BY <3>3, <3>4
    <3>6. CASE k < m - o
      <4>1. i < Len(W) /\ k + 1 \in 1..(m - o) /\ o + (k + 1) \in 1..m /\ i + 1 = n + (k + 1)
        BY <1>3, <1>8, <3>2, <3>6
      <4>2. W[i + 1] = text[o + (k + 1)]
        BY <1>8, <4>1
      <4>3. PICK u \in SpotsIn(T) : u = <<f, o + (k + 1)>> /\ At(T, u) = W[i + 1]
        BY <1>9, <4>1, <4>2
      <4>4. u[1] = f /\ u[2] = o + (k + 1)
        BY <4>3
      <4>5. Ahead(s, u)
        BY <1>3, <3>2, <3>5, <4>4 DEF Ahead
      <4>6. \A v \in SpotsIn(T) : ~(Ahead(s, v) /\ Ahead(v, u))
        BY <1>3, <1>10, <3>2, <3>5, <4>4 DEF Ahead
      <4>7. NextIs(T, s, W[i + 1])
        BY <4>3, <4>5, <4>6 DEF NextIs
      <4> QED
        BY <4>1, <4>7
    <3>7. CASE k = m - o
      <4>1. s[1] = f /\ s[2] = m /\ ~(i < Len(W))
        BY <1>3, <1>8, <3>2, <3>5, <3>7
      <4> QED
        BY <4>1 DEF Ahead, Past
    <3> QED
      BY <1>3, <3>2, <3>6, <3>7
  <2> QED
    BY <1>8, <2>1, <2>2, <2>3, <2>4
<1>12. Chain(T, W, f, m)
  BY <1>11 DEF Chain
<1> QED
  BY <1>1, <1>2, <1>6, <1>7, <1>12

(* Pruning keeps the rest in its order, and a line more comes last.         *)
LEMMA ChainShifts ==
    ASSUME NEW S, NEW T \in Seq(Seq(S)), NEW U \in Seq(Seq(S)), NEW d \in Nat, Shifted(U, T, d),
           NEW seen \in Seq(S), NEW f \in Nat, NEW o \in Nat, Chain(T, seen, f, o)
    PROVE  Chain(U, seen, f - d, o)
<1>1. \A s \in SpotsIn(T) : s[1] \in Nat /\ s[2] \in Nat
  BY SpotsOf
<1>2. \A s \in SpotsIn(U) : s[1] \in Nat /\ s[2] \in Nat /\ s[1] >= 1 /\ s = <<s[1], s[2]>>
  <2> TAKE s \in SpotsIn(U)
  <2>1. s[1] \in 1..Len(U) /\ s[1] \in Nat /\ s[2] \in Nat /\ s = <<s[1], s[2]>>
    BY SpotsOf
  <2> QED
    BY <2>1
<1>3. ASSUME NEW s \in SpotsIn(U)
      PROVE  \E z \in SpotsIn(T) : z[1] = s[1] + d /\ z[2] = s[2] /\ At(T, z) = At(U, s)
  <2>1. PICK z \in SpotsIn(T) : z = <<s[1] + d, s[2]>>
    BY DEF Shifted
  <2> QED
    BY <2>1 DEF Shifted
<1>4. ASSUME NEW z \in SpotsIn(T), z[1] > d
      PROVE  \E s \in SpotsIn(U) : z[1] = s[1] + d /\ z[2] = s[2] /\ At(T, z) = At(U, s)
  <2>1. PICK s \in SpotsIn(U) : s = <<z[1] - d, z[2]>>
    BY <1>4 DEF Shifted
  <2>2. s[1] = z[1] - d /\ s[2] = z[2] /\ z[1] \in Nat
    BY <1>1, <2>1
  <2>3. z[1] = s[1] + d
    BY <2>2
  <2>4. At(U, s) = At(T, z)
    BY <1>4, <2>1 DEF Shifted
  <2> QED
    BY <2>2, <2>3, <2>4
<1>5. ASSUME NEW s \in SpotsIn(U), NEW u \in SpotsIn(U), NEW y \in SpotsIn(T), NEW z \in SpotsIn(T),
             y[1] = s[1] + d, y[2] = s[2], z[1] = u[1] + d, z[2] = u[2]
      PROVE  Ahead(y, z) <=> Ahead(s, u)
  BY <1>2, <1>5 DEF Ahead
<1>6. ASSUME NEW i \in DOMAIN seen, NEW s \in SpotsIn(U), At(U, s) = seen[i]
      PROVE  IF i < Len(seen) THEN NextIs(U, s, seen[i + 1])
             ELSE \A v \in SpotsIn(U) : Ahead(s, v) <=> Past(f - d, o, v)
  <2>1. PICK y \in SpotsIn(T) : y[1] = s[1] + d /\ y[2] = s[2] /\ At(T, y) = At(U, s)
    BY <1>3
  <2>2. CASE i < Len(seen)
    <3>1. NextIs(T, y, seen[i + 1])
      BY <1>6, <2>1, <2>2 DEF Chain
    <3>2. PICK z \in SpotsIn(T) : /\ At(T, z) = seen[i + 1] /\ Ahead(y, z)
                                  /\ \A v \in SpotsIn(T) : ~(Ahead(y, v) /\ Ahead(v, z))
      BY <3>1 DEF NextIs
    <3>3. z[1] > d
      BY <1>1, <1>2, <2>1, <3>2 DEF Ahead
    <3>4. PICK u \in SpotsIn(U) : z[1] = u[1] + d /\ z[2] = u[2] /\ At(T, z) = At(U, u)
      BY <1>4, <3>3
    <3>5. \A v \in SpotsIn(U) : ~(Ahead(s, v) /\ Ahead(v, u))
      <4> TAKE v \in SpotsIn(U)
      <4>1. PICK w \in SpotsIn(T) : w[1] = v[1] + d /\ w[2] = v[2]
        BY <1>3
      <4>2. (Ahead(y, w) <=> Ahead(s, v)) /\ (Ahead(w, z) <=> Ahead(v, u))
        BY <1>5, <2>1, <3>4, <4>1
      <4> QED
        BY <3>2, <4>2
    <3>6. Ahead(s, u)
      BY <1>5, <2>1, <3>2, <3>4
    <3>7. NextIs(U, s, seen[i + 1])
      BY <3>2, <3>4, <3>5, <3>6 DEF NextIs
    <3> QED
      BY <2>2, <3>7
  <2>3. CASE ~(i < Len(seen))
    <3>1. \A w \in SpotsIn(T) : Ahead(y, w) <=> Past(f, o, w)
      BY <1>6, <2>1, <2>3 DEF Chain
    <3>2. \A v \in SpotsIn(U) : Ahead(s, v) <=> Past(f - d, o, v)
      <4> TAKE v \in SpotsIn(U)
      <4>1. PICK w \in SpotsIn(T) : w[1] = v[1] + d /\ w[2] = v[2]
        BY <1>3
      <4>2. Ahead(s, v) <=> Past(f, o, w)
        BY <1>5, <2>1, <3>1, <4>1
      <4>3. Past(f, o, w) <=> Past(f - d, o, v)
        BY <1>2, <4>1 DEF Past
      <4> QED
        BY <4>2, <4>3
    <3> QED
      BY <2>3, <3>2
  <2> QED
    BY <2>2, <2>3
<1> QED
  BY <1>6 DEF Chain

LEMMA ChainLonger ==
    ASSUME NEW S, NEW T \in Seq(Seq(S)), T # <<>>, NEW x \in S, NEW e, e = Len(T),
           NEW G, G = Longer(T, x),
           NEW seen, \A i \in DOMAIN seen : seen[i] # x,
           NEW f \in 1..e, NEW o \in 0..Len(T[f]), Chain(T, seen, f, o)
    PROVE  Chain(G, seen, f, o)
<1>1. PICK k : k = Len(T[e]) + 1
  OBVIOUS
<1>2. PICK n : n = <<e, k>>
  OBVIOUS
<1>3. /\ \A s \in SpotsIn(G) : \/ s \in SpotsIn(T) /\ At(G, s) = At(T, s)
                               \/ s = n /\ At(G, s) = x
      /\ \A s \in SpotsIn(T) : /\ s \in SpotsIn(G) /\ At(G, s) = At(T, s)
                               /\ Ahead(s, n) /\ ~Ahead(n, s)
  <2>1. /\ \A s \in SpotsIn(G) : \/ s \in SpotsIn(T) /\ At(G, s) = At(T, s)
                                 \/ s = <<e, k>> /\ At(G, s) = x
        /\ \A s \in SpotsIn(T) : /\ s \in SpotsIn(G) /\ At(G, s) = At(T, s)
                                 /\ Ahead(s, <<e, k>>) /\ ~Ahead(<<e, k>>, s)
    BY <1>1, LastSpot
  <2> QED
    BY <1>2, <2>1
<1>4. Past(f, o, n)
  <2>1. e \in Nat /\ T[e] \in Seq(S) /\ T[f] \in Seq(S) /\ n[1] = e /\ n[2] = k
    BY <1>2
  <2>2. Len(T[e]) \in Nat /\ f \in Nat /\ o \in Nat /\ o <= Len(T[f])
    BY <2>1
  <2>3. CASE f = e
    BY <1>1, <2>1, <2>2, <2>3 DEF Past
  <2>4. CASE f # e
    BY <2>1, <2>2, <2>4 DEF Past
  <2> QED
    BY <2>3, <2>4
<1>5. ASSUME NEW i \in DOMAIN seen, NEW s \in SpotsIn(G), At(G, s) = seen[i]
      PROVE  IF i < Len(seen) THEN NextIs(G, s, seen[i + 1])
             ELSE \A v \in SpotsIn(G) : Ahead(s, v) <=> Past(f, o, v)
  <2>1. s \in SpotsIn(T) /\ At(T, s) = seen[i]
    BY <1>3, <1>5
  <2>2. CASE i < Len(seen)
    <3>1. PICK u \in SpotsIn(T) : /\ At(T, u) = seen[i + 1] /\ Ahead(s, u)
                                  /\ \A v \in SpotsIn(T) : ~(Ahead(s, v) /\ Ahead(v, u))
      BY <2>1, <2>2 DEF Chain, NextIs
    <3>2. NextIs(G, s, seen[i + 1])
      BY <1>3, <3>1 DEF NextIs
    <3> QED
      BY <2>2, <3>2
  <2>3. CASE ~(i < Len(seen))
    <3>1. \A v \in SpotsIn(T) : Ahead(s, v) <=> Past(f, o, v)
      BY <2>1, <2>3 DEF Chain
    <3>2. \A v \in SpotsIn(G) : Ahead(s, v) <=> Past(f, o, v)
      BY <1>3, <1>4, <2>1, <3>1
    <3> QED
      BY <2>3, <3>2
  <2> QED
    BY <2>2, <2>3
<1> QED
  BY <1>5 DEF Chain

-----------------------------------------------------------------------------
(* The follower: on the last file or the last but one, or its file is gone  *)
(* and the only one left holds nothing it has seen.                         *)
FollowerType == [on : BOOLEAN, name : [day : Nat, dotted : BOOLEAN], offset : Nat, seen : Seq(Lines)]

NamesSorted(F) == \A i, j \in 1..Len(F) : i < j => NewerName(F[j], F[i])

OnFile(F, f) ==
    /\ Name(F[f]) = follower.name /\ f >= Len(F) - 1 /\ follower.offset \in 0..Len(F[f].lines)
    /\ Chain(TextsOf(F), follower.seen, f, follower.offset)
OffFile(F) ==
    /\ Len(F) = 1 /\ Name(F[1]) # follower.name
    /\ \A s \in SpotsIn(TextsOf(F)), i \in DOMAIN follower.seen :
          At(TextsOf(F), s) # follower.seen[i]
Placed(F) == (\E f \in 1..Len(F) : OnFile(F, f)) \/ OffFile(F)

(* Lines that were written, or may have been.                               *)
Written(x) ==
    /\ x.ts <= stamp
    /\ \A n \in DOMAIN queue : queue[n].ts # x.ts
    /\ \A t \in Threads : held[t] # NoRecord => held[t].ts # x.ts
WrittenLines == {x \in Lines : Written(x)}

FollowInv ==
    ~unsettled =>
      /\ follower \in FollowerType
      /\ ~follower.on => follower.seen = <<>>
      /\ follower.on => /\ NamesSorted(logs) /\ Placed(logs)
                        /\ follower.seen \in Seq(WrittenLines)

LEMMA FilesWritten ==
    ASSUME WrittenInv
    PROVE  \A i \in 1..Len(logs) : logs[i].lines \in Seq(WrittenLines)
<1>1. logs \in Seq(LogFile)
  BY DEF WrittenInv, LogShape
<1>2. /\ Texts \in Seq(Seq(Lines)) /\ Len(Texts) = Len(logs)
      /\ \A i \in 1..Len(logs) : Texts[i] = logs[i].lines /\ logs[i].lines \in Seq(Lines)
  BY <1>1, TextsTyped DEF Texts
<1>3. ASSUME NEW s \in SpotsIn(Texts) PROVE At(Texts, s) \in WrittenLines
  <2>1. At(Texts, s) \in Lines
    BY <1>2, SpotsOf
  <2>2. At(Texts, s) \in Emitted
    BY DEF Emitted, EmittedIn
  <2>3. At(Texts, s).ts <= stamp
    BY <2>2 DEF WrittenInv, Told
  <2>4. \A n \in DOMAIN queue : queue[n].ts # At(Texts, s).ts
    BY DEF WrittenInv, InOrderOf, Follows
  <2>5. \A t \in Threads : held[t] # NoRecord => held[t].ts # At(Texts, s).ts
    BY <2>2 DEF WrittenInv, HandOk, Follows
  <2> QED
    BY <2>1, <2>3, <2>4, <2>5 DEF WrittenLines, Written
<1> TAKE i \in 1..Len(logs)
<1>4. PICK text \in Seq(Lines) : text = logs[i].lines /\ text = Texts[i]
  BY <1>2
<1>5. \A k \in 1..Len(text) : text[k] \in WrittenLines
  <2> TAKE k \in 1..Len(text)
  <2>1. <<i, k>> \in SpotsIn(Texts) /\ At(Texts, <<i, k>>) = text[k]
    BY <1>2, <1>4, SpotAt
  <2> QED
    BY <1>3, <2>1
<1>6. text \in Seq(WrittenLines)
  <2>1. text \in [1..Len(text) -> Lines] /\ Len(text) \in Nat
    OBVIOUS
  <2>2. text \in [1..Len(text) -> WrittenLines]
    BY <1>5, <2>1
  <2> QED
    BY <2>1, <2>2, SequenceOf
<1> QED
  BY <1>4, <1>6

(* A line of a file is on its text; what was written stays written.         *)
LEMMA StillWritten ==
    ASSUME WrittenInv, LogNext
    PROVE  Seq(WrittenLines) \subseteq Seq(WrittenLines')
<1> SUFFICES WrittenLines \subseteq WrittenLines'
  OBVIOUS
<1> SUFFICES ASSUME NEW x \in Lines, Written(x) PROVE Written(x)'
  BY DEF WrittenLines
<1>1. /\ stamp \in Nat /\ x.ts \in Nat /\ queue \in Seq(Lines)
      /\ held \in [Threads -> Lines \cup {NoRecord}]
  BY DEF WrittenInv, LogShape, Lines
<1>2. ASSUME NEW t \in Threads, NEW r, NEW kind, NEW id, NEW parent, NEW engine,
             Stamped(t, r, kind, id, parent, engine)
      PROVE  Written(x)'
  <2>1. /\ stamp' = stamp + 1 /\ queue' = queue
        /\ \A u \in Threads : held'[u] = held[u] \/ held'[u].ts = stamp + 1
    BY <1>1, <1>2 DEF Stamped
  <2> QED
    BY <1>1, <2>1 DEF Written
<1>3. ASSUME NEW t \in Threads, Emit(t) PROVE Written(x)'
  <2>1. /\ stamp' = stamp /\ queue' = Append(queue, held[t]) /\ held[t] # NoRecord
        /\ held' = [held EXCEPT ![t] = NoRecord]
    BY <1>3 DEF Emit
  <2>2. \A u \in Threads : held'[u] = held[u] \/ held'[u] = NoRecord
    BY <1>1, <2>1
  <2>3. held[t] \in Lines
    BY <1>1, <2>1
  <2>4. \A n \in DOMAIN queue' : (n \in DOMAIN queue /\ queue'[n] = queue[n]) \/ queue'[n] = held[t]
    BY <1>1, <2>1, <2>3
  <2> QED
    BY <2>1, <2>2, <2>4 DEF Written
<1>4. ASSUME NEW minute \in BOOLEAN, WriteLine(minute) PROVE Written(x)'
  <2>1. stamp' = stamp /\ held' = held /\ queue # <<>> /\ queue' = Tail(queue)
    BY <1>4 DEF WriteLine
  <2>2. \A n \in DOMAIN queue' : n + 1 \in DOMAIN queue /\ queue'[n] = queue[n + 1]
    BY <1>1, <2>1
  <2> QED
    BY <2>1, <2>2 DEF Written
<1>5. CASE CrashAndReopen
  <2>1. stamp' = stamp /\ DOMAIN queue' = {} /\ \A t \in Threads : held'[t] = NoRecord
    BY <1>5 DEF CrashAndReopen
  <2> QED
    BY <2>1 DEF Written
<1>6. CASE DayPasses \/ StartFollowing \/ Follow
  BY <1>6 DEF DayPasses, StartFollowing, Follow, Written
<1> QED
  BY <1>2, <1>3, <1>4, <1>5, <1>6 DEF LogNext, OnNewSpan, OnEvent, OnClose

LEMMA NewestIsLast ==
    ASSUME LogShape, NamesSorted(logs), NEW e, e = Len(logs)
    PROVE  Newest = logs[e]
<1>1. /\ e \in Nat \ {0} /\ DOMAIN logs = 1..e
      /\ \A i \in 1..e : logs[i].day \in Nat /\ logs[i].dotted \in BOOLEAN
  <2>1. logs \in Seq(LogFile) /\ e # 0
    BY DEF LogShape
  <2> QED
    BY <2>1, FilesTyped
<1> DEFINE P(i) == \A j \in DOMAIN logs \ {i} : NewerName(logs[i], logs[j])
<1>2. P(e)
  BY <1>1 DEF NamesSorted
<1>3. ASSUME NEW i \in DOMAIN logs, P(i) PROVE i = e
  <2> SUFFICES ASSUME i # e PROVE FALSE
    OBVIOUS
  <2>1. NewerName(logs[i], logs[e]) /\ NewerName(logs[e], logs[i])
    BY <1>1, <1>2, <1>3
  <2> QED
    BY <1>1, <1>3, <2>1 DEF NewerName
<1> HIDE DEF P
<1>4. (CHOOSE i \in DOMAIN logs : P(i)) = e
  <2>1. e \in DOMAIN logs
    BY <1>1
  <2> QED
    BY <1>2, <1>3, <2>1
<1> QED
  BY <1>4 DEF Newest, P

LEMMA InOrderSorted ==
    ASSUME LogShape
    PROVE  InOrder <=> NamesSorted(logs)
  BY DEF InOrder, NamesSorted, LogShape

LEMMA LinesFromAt ==
    ASSUME LogShape, NamesInv, NEW f \in 1..Len(logs), NEW name, name = Name(logs[f]), NEW o
    PROVE  LinesFrom(name, o) = SubSeq(logs[f].lines, o + 1, Len(logs[f].lines))
<1>1. logs \in Seq(LogFile) /\ DOMAIN logs = 1..Len(logs)
  BY DEF LogShape
<1> DEFINE at == {i \in DOMAIN logs : Name(logs[i]) = name}
<1>2. at = {f}
  <2>1. \A i \in 1..Len(logs) : Name(logs[i]) = name => i = f
    BY <1>1, OwnName DEF NamesInv
  <2> QED
    BY <1>1, <2>1
<1>3. (CHOOSE i \in at : TRUE) = f /\ at # {}
  BY <1>2
<1> QED
  BY <1>3 DEF LinesFrom

LEMMA LinesFromNone ==
    ASSUME NEW name, \A i \in DOMAIN logs : Name(logs[i]) # name, NEW o
    PROVE  LinesFrom(name, o) = <<>>
  BY DEF LinesFrom

LEMMA Beginning ==
    ASSUME NEW T \in Seq(Seq(Lines)), NEW q, InOrderOf(T, q), NEW e, e = Len(T), e # 0
    PROVE  Chain(T, T[e], e, Len(T[e]))
<1>1. e \in 1..Len(T) /\ T[e] \in Seq(Lines)
  OBVIOUS
<1>2. PICK f \in 1..Len(T) : f = e
  BY <1>1
<1>3. PICK text \in Seq(Lines) : text = T[e]
  BY <1>1
<1>4. PICK none : none = <<>>
  OBVIOUS
<1>5. none \in Seq(Lines) /\ Chain(T, none, e, 0)
  BY <1>4 DEF Chain
<1>6. PICK o : o = 0
  OBVIOUS
<1>7. PICK new : new = SubSeq(T[e], o + 1, Len(T[e]))
  OBVIOUS
<1>8. o \in 0..Len(T[e]) /\ Chain(T, none, e, o)
  BY <1>3, <1>5, <1>6
<1>9. /\ new \in Seq(Lines) /\ Len(new) = Len(T[e]) - o
      /\ Chain(T, none \o new, e, Len(T[e]))
  <2>1. new = SubSeq(T[f], o + 1, Len(T[f])) /\ o \in 0..Len(T[f]) /\ Chain(T, none, f, o)
    BY <1>2, <1>7, <1>8
  <2>2. Chain(T, none \o new, f, Len(T[f]))
    BY <1>5, <1>2, <2>1, ReadOn
  <2>3. PICK x : x = T[f]
    OBVIOUS
  <2>4. new \in Seq(Lines) /\ Len(new) = Len(x) - o
    BY <1>1, <1>2, <2>1, <2>3, FromPlace
  <2> QED
    BY <1>2, <2>2, <2>3, <2>4
<1>10. none \o new = text
  <2>1. new \in Seq(Lines) /\ Len(new) = Len(text) /\ \A k \in 1..Len(text) : new[k] = text[k]
    <3>1. o \in 0..Len(text) /\ new = SubSeq(text, o + 1, Len(text))
      BY <1>3, <1>7, <1>8
    <3>2. \A k \in 1..(Len(text) - o) : new[k] = text[o + k]
      BY <1>3, <3>1, FromPlace
    <3>3. Len(text) - o = Len(text) /\ \A k \in 1..Len(text) : o + k = k
      BY <1>3, <1>6
    <3> QED
      BY <1>3, <1>9, <3>2, <3>3
  <2>2. none \o new = new
    BY <1>4, <2>1
  <2>3. new = text
    <3>1. new \in Seq(Lines) /\ text \in Seq(Lines) /\ Len(new) = Len(text)
      BY <1>3, <2>1
    <3>2. \A k \in 1..Len(new) : new[k] = text[k]
      BY <2>1, <3>1
    <3>3. DOMAIN new = DOMAIN text /\ DOMAIN new = 1..Len(new)
      BY <3>1
    <3> QED
      BY <3>1, <3>2, <3>3
  <2> QED
    BY <2>2, <2>3
<1> QED
  BY <1>3, <1>9, <1>10

LEMMA StartKeeps ==
    ASSUME WrittenInv, StartFollowing
    PROVE  FollowInv'
<1> SUFFICES ASSUME ~unsettled' PROVE FollowInv'
  BY DEF FollowInv
<1>1. LogShape /\ logs \in Seq(LogFile) /\ logs # <<>>
  BY DEF WrittenInv, LogShape
<1>2. NamesSorted(logs)
  BY <1>1, InOrderSorted DEF StartFollowing
<1>3. PICK e : e = Len(logs)
  OBVIOUS
<1>4. PICK f : f = logs[e]
  OBVIOUS
<1>5. Newest = f
  BY <1>1, <1>2, <1>3, <1>4, NewestIsLast
<1>6. /\ follower' = [on |-> TRUE, name |-> Name(f), offset |-> Len(f.lines), seen |-> f.lines]
      /\ logs' = logs /\ stamp' = stamp /\ queue' = queue /\ held' = held
  BY <1>5 DEF StartFollowing
<1>7. /\ e \in Nat \ {0} /\ e \in 1..Len(logs) /\ f.lines \in Seq(Lines) /\ f.day \in Nat /\ f.dotted \in BOOLEAN
  BY <1>1, <1>3, <1>4, FilesTyped
<1>8. Name(f) \in [day : Nat, dotted : BOOLEAN] /\ Len(f.lines) \in Nat
  BY <1>7 DEF Name
<1>9. follower' \in FollowerType /\ follower'.on = TRUE
  BY <1>6, <1>7, <1>8 DEF FollowerType
<1>10. f.lines \in Seq(WrittenLines)
  BY <1>3, <1>4, <1>7, FilesWritten
<1>11. WrittenLines' = WrittenLines
  BY <1>6 DEF WrittenLines, Written
<1>12. OnFile(logs, e)'
  <2>1. Texts \in Seq(Seq(Lines)) /\ Len(Texts) = e /\ Texts[e] = f.lines
    BY <1>1, <1>3, <1>4, <1>7, TextsTyped DEF Texts
  <2>2. Chain(Texts, f.lines, e, Len(f.lines))
    BY <1>7, <2>1, Beginning DEF WrittenInv
  <2>3. TextsOf(logs') = Texts /\ Name(logs'[e]) = follower'.name /\ e >= Len(logs') - 1
    BY <1>3, <1>4, <1>6, <1>7 DEF Texts
  <2>4. follower'.offset \in 0..Len(logs'[e].lines) /\ follower'.offset = Len(f.lines) /\ follower'.seen = f.lines
    BY <1>4, <1>6, <1>8
  <2> QED
    BY <2>2, <2>3, <2>4 DEF OnFile
<1>13. Placed(logs)'
  BY <1>3, <1>6, <1>7, <1>12 DEF Placed
<1>14. NamesSorted(logs')
  BY <1>2, <1>6
<1> QED
  BY <1>6, <1>9, <1>10, <1>11, <1>13, <1>14 DEF FollowInv

LEMMA FollowKeeps ==
    ASSUME WrittenInv, NamesInv, FollowInv, Follow
    PROVE  FollowInv'
<1> SUFFICES ASSUME ~unsettled PROVE FollowInv'
  BY DEF FollowInv, Follow
<1>1. LogShape /\ logs \in Seq(LogFile) /\ logs # <<>>
  BY DEF WrittenInv, LogShape
<1>2. /\ follower \in FollowerType /\ follower.on /\ NamesSorted(logs) /\ Placed(logs)
      /\ follower.seen \in Seq(WrittenLines)
  BY DEF FollowInv, Follow
<1>3. PICK e : e = Len(logs)
  OBVIOUS
<1>4. /\ e \in Nat \ {0} /\ e \in 1..Len(logs) /\ DOMAIN logs = 1..e
      /\ \A i \in 1..e : logs[i].lines \in Seq(Lines) /\ logs[i].day \in Nat /\ logs[i].dotted \in BOOLEAN
  BY <1>1, <1>3, FilesTyped
<1>5. /\ Texts \in Seq(Seq(Lines)) /\ Len(Texts) = e /\ \A i \in 1..e : Texts[i] = logs[i].lines
      /\ InOrderOf(Texts, queue)
  BY <1>1, <1>3, TextsTyped DEF Texts, WrittenInv
<1>6. Newest = logs[e]
  BY <1>1, <1>2, <1>3, NewestIsLast
<1> DEFINE newest == Name(logs[e])
           rest   == IF newest = follower.name THEN <<>>
                     ELSE LinesFrom(follower.name, follower.offset)
           offset == IF newest = follower.name THEN follower.offset ELSE 0
           next   == LinesFrom(newest, offset)
<1>7. /\ follower' = [follower EXCEPT !.name = newest, !.offset = offset + Len(next),
                                      !.seen = follower.seen \o rest \o next]
      /\ logs' = logs /\ stamp' = stamp /\ queue' = queue /\ held' = held /\ unsettled' = unsettled
  BY <1>6 DEF Follow, Poll
<1>8. /\ follower.name \in [day : Nat, dotted : BOOLEAN] /\ follower.offset \in Nat
      /\ follower.seen \in Seq(Lines)
      /\ follower \in [on : BOOLEAN, name : [day : Nat, dotted : BOOLEAN], offset : Nat,
                       seen : Seq(Lines)]
  BY <1>2 DEF FollowerType
<1>9. newest \in [day : Nat, dotted : BOOLEAN]
  BY <1>4 DEF Name
<1> HIDE DEF newest, rest, offset, next
<1> DEFINE seen == follower.seen
<1>10. ASSUME NEW r, NEW o \in Nat, NEW n,
              rest = r, offset = o, next = n, r \in Seq(Lines), n \in Seq(Lines),
              r \in Seq(WrittenLines), n \in Seq(WrittenLines),
              o + Len(n) = Len(Texts[e]), Chain(Texts, (seen \o r) \o n, e, Len(Texts[e]))
       PROVE  FollowInv'
  <2>1. PICK s : s = (seen \o r) \o n
    OBVIOUS
  <2>2. s \in Seq(Lines) /\ s \in Seq(WrittenLines)
    BY <1>2, <1>8, <1>10, <2>1
  <2>3. PICK m \in Nat : m = Len(Texts[e])
    BY <1>4, <1>5
  <2>4. follower' = [follower EXCEPT !.name = newest, !.offset = m, !.seen = s]
    BY <1>7, <1>10, <2>1, <2>3
  <2>5. /\ follower' \in FollowerType /\ follower'.on = follower.on /\ follower'.name = newest
        /\ follower'.offset = m /\ follower'.seen = s
    BY <1>8, <1>9, <2>2, <2>4 DEF FollowerType
  <2>6. WrittenLines' = WrittenLines
    BY <1>7 DEF WrittenLines, Written
  <2>7. OnFile(logs, e)'
    <3>1. TextsOf(logs') = Texts /\ Name(logs'[e]) = follower'.name /\ e >= Len(logs') - 1
      BY <1>3, <1>4, <1>7, <2>5 DEF Texts, newest
    <3>2. follower'.offset \in 0..Len(logs'[e].lines)
      BY <1>4, <1>5, <1>7, <2>3, <2>5
    <3>3. Chain(Texts, s, e, m)
      BY <1>10, <2>1, <2>3
    <3> QED
      BY <2>5, <3>1, <3>2, <3>3 DEF OnFile
  <2>8. Placed(logs)'
    BY <1>3, <1>4, <1>7, <2>7 DEF Placed
  <2>9. NamesSorted(logs')
    BY <1>2, <1>7
  <2> QED
    BY <1>2, <2>2, <2>5, <2>6, <2>8, <2>9 DEF FollowInv
<1>11. \A i \in 1..e : logs[i].lines \in Seq(WrittenLines)
  BY <1>3, FilesWritten
<1>12. ASSUME NEW f \in 1..e, NEW o \in 0..Len(Texts[f]), NEW r, r = SubSeq(Texts[f], o + 1, Len(Texts[f]))
       PROVE  r \in Seq(Lines) /\ r \in Seq(WrittenLines) /\ Len(r) = Len(Texts[f]) - o
  <2>1. PICK text : text = Texts[f]
    OBVIOUS
  <2>2. text \in Seq(Lines) /\ text \in Seq(WrittenLines)
    BY <1>4, <1>5, <1>11, <2>1
  <2>3. r = SubSeq(text, o + 1, Len(text)) /\ o \in 0..Len(text)
    BY <1>12, <2>1
  <2>4. r \in Seq(Lines) /\ Len(r) = Len(text) - o
    BY <2>2, <2>3, FromPlace
  <2>5. r \in Seq(WrittenLines)
    BY <2>2, <2>3, FromPlace
  <2> QED
    BY <2>1, <2>4, <2>5
<1>13. ASSUME NEW f \in 1..e, OnFile(logs, f), f = e PROVE FollowInv'
  <2>1. /\ newest = follower.name /\ follower.offset \in 0..Len(Texts[e])
        /\ Chain(Texts, seen, e, follower.offset)
    BY <1>5, <1>13 DEF OnFile, newest, Texts
  <2>2. PICK o \in Nat : o = follower.offset
    BY <1>8
  <2>3. rest = <<>> /\ offset = o /\ next = LinesFrom(newest, o)
    BY <2>1, <2>2 DEF rest, offset, next
  <2>4. next = SubSeq(Texts[e], o + 1, Len(Texts[e]))
    BY <1>1, <1>3, <1>4, <1>5, <2>3, LinesFromAt DEF newest
  <2>5. PICK n : n = next
    OBVIOUS
  <2>6. n \in Seq(Lines) /\ n \in Seq(WrittenLines) /\ Len(n) = Len(Texts[e]) - o
    <3>1. e \in 1..e /\ o \in 0..Len(Texts[e]) /\ n = SubSeq(Texts[e], o + 1, Len(Texts[e]))
      BY <1>4, <2>1, <2>2, <2>4, <2>5
    <3> QED
      BY <1>12, <3>1
  <2>7. Chain(Texts, seen \o n, e, Len(Texts[e]))
    <3>1. /\ e \in 1..Len(Texts) /\ o \in 0..Len(Texts[e])
          /\ n = SubSeq(Texts[e], o + 1, Len(Texts[e])) /\ Chain(Texts, seen, e, o)
      BY <1>4, <1>5, <2>1, <2>2, <2>4, <2>5
    <3>2. seen \in Seq(Lines)
      BY <1>8
    <3> HIDE DEF seen
    <3> QED
      BY <1>5, <3>1, <3>2, ReadOn
  <2>8. PICK r : r = <<>>
    OBVIOUS
  <2>9. seen \o r = seen
    BY <1>8, <2>8
  <2>10. r \in Seq(Lines) /\ r \in Seq(WrittenLines) /\ o + Len(n) = Len(Texts[e])
    BY <1>4, <1>5, <2>6, <2>8
  <2> HIDE DEF seen
  <2> QED
    BY <1>10, <2>2, <2>3, <2>5, <2>6, <2>7, <2>8, <2>9, <2>10
<1>14. ASSUME NEW f \in 1..e, OnFile(logs, f), f # e PROVE FollowInv'
  <2>1. /\ follower.name = Name(logs[f]) /\ follower.offset \in 0..Len(Texts[f])
        /\ Chain(Texts, seen, f, follower.offset) /\ f = e - 1
    BY <1>3, <1>4, <1>5, <1>14 DEF OnFile, Texts
  <2>2. newest # follower.name
    BY <1>1, <1>3, <1>4, <1>14, <2>1, OwnName DEF NamesInv, newest
  <2>3. PICK o \in Nat : o = follower.offset
    BY <1>8
  <2>4. rest = LinesFrom(follower.name, o) /\ offset = 0 /\ next = LinesFrom(newest, 0)
    BY <2>2, <2>3 DEF rest, offset, next
  <2>5. PICK r : r = rest
    OBVIOUS
  <2>6. PICK n : n = next
    OBVIOUS
  <2>7. r = SubSeq(Texts[f], o + 1, Len(Texts[f]))
    BY <1>1, <1>3, <1>5, <2>1, <2>4, <2>5, LinesFromAt
  <2>8. n = SubSeq(Texts[e], 0 + 1, Len(Texts[e]))
    BY <1>1, <1>3, <1>4, <1>5, <2>4, <2>6, LinesFromAt DEF newest
  <2>9. r \in Seq(Lines) /\ r \in Seq(WrittenLines)
    BY <1>12, <2>1, <2>3, <2>7
  <2>10. n \in Seq(Lines) /\ n \in Seq(WrittenLines) /\ Len(n) = Len(Texts[e]) - 0 /\ 0 \in 0..Len(Texts[e])
    <3>1. e \in 1..e /\ 0 \in 0..Len(Texts[e])
      BY <1>4, <1>5
    <3> QED
      BY <1>12, <2>8, <3>1
  <2>11. Chain(Texts, seen \o r, f, Len(Texts[f]))
    BY <1>5, <1>8, <2>1, <2>3, <2>7, ReadOn
  <2>12. \A v \in SpotsIn(Texts) : Past(f, Len(Texts[f]), v) <=> Past(e, 0, v)
    <3> TAKE v \in SpotsIn(Texts)
    <3>1. v[1] \in 1..e /\ v[2] \in 1..Len(Texts[v[1]]) /\ v[1] \in Nat /\ v[2] \in Nat
      BY <1>5, SpotsOf
    <3>2. v[1] = f => v[2] <= Len(Texts[f])
      BY <1>4, <1>5, <3>1
    <3> QED
      BY <1>4, <2>1, <3>1, <3>2 DEF Past
  <2>13. Chain(Texts, seen \o r, e, 0)
    BY <2>11, <2>12 DEF Chain
  <2>14. PICK w : w = seen \o r
    OBVIOUS
  <2>15. Chain(Texts, w \o n, e, Len(Texts[e]))
    <3>1. w \in Seq(Lines)
      BY <1>8, <2>9, <2>14
    <3>2. PICK z : z = 0
      OBVIOUS
    <3>3. /\ e \in 1..Len(Texts) /\ z \in 0..Len(Texts[e])
          /\ n = SubSeq(Texts[e], z + 1, Len(Texts[e])) /\ Chain(Texts, w, e, z)
      BY <1>4, <1>5, <2>8, <2>10, <2>13, <2>14, <3>2
    <3> QED
      BY <1>5, <3>1, <3>3, ReadOn
  <2>16. 0 \in Nat /\ 0 + Len(n) = Len(Texts[e])
    BY <1>4, <1>5, <2>10
  <2> HIDE DEF seen
  <2> QED
    BY <1>10, <2>4, <2>5, <2>6, <2>9, <2>10, <2>14, <2>15, <2>16
<1>15. ASSUME OffFile(logs) PROVE FollowInv'
  <2>1. e = 1 /\ newest # follower.name
    BY <1>3, <1>15 DEF OffFile, newest
  <2>2. rest = LinesFrom(follower.name, follower.offset) /\ offset = 0 /\ next = LinesFrom(newest, 0)
    BY <2>1 DEF rest, offset, next
  <2>3. PICK n : n = next
    OBVIOUS
  <2>4. rest = <<>>
    <3>1. \A i \in DOMAIN logs : Name(logs[i]) # follower.name
      BY <1>4, <2>1 DEF newest
    <3> QED
      BY <2>2, <3>1, LinesFromNone
  <2>5. n = SubSeq(Texts[e], 0 + 1, Len(Texts[e]))
    BY <1>1, <1>3, <1>4, <1>5, <2>2, <2>3, LinesFromAt DEF newest
  <2>6. n \in Seq(Lines) /\ n \in Seq(WrittenLines) /\ Len(n) = Len(Texts[e]) - 0 /\ 0 \in 0..Len(Texts[e])
    <3>1. e \in 1..e /\ 0 \in 0..Len(Texts[e])
      BY <1>4, <1>5
    <3> QED
      BY <1>12, <2>5, <3>1
  <2>7. Chain(Texts, seen, e, 0)
    BY <1>15 DEF OffFile, Chain, Texts
  <2>8. Chain(Texts, seen \o n, e, Len(Texts[e]))
    <3>1. seen \in Seq(Lines)
      BY <1>8
    <3> HIDE DEF seen
    <3>2. PICK z : z = 0
      OBVIOUS
    <3>3. /\ e \in 1..Len(Texts) /\ z \in 0..Len(Texts[e])
          /\ n = SubSeq(Texts[e], z + 1, Len(Texts[e])) /\ Chain(Texts, seen, e, z)
      BY <1>4, <1>5, <2>5, <2>6, <2>7, <3>2
    <3> QED
      BY <1>5, <3>1, <3>3, ReadOn
  <2>9. PICK r : r = <<>>
    OBVIOUS
  <2>10. seen \o r = seen
    BY <1>8, <2>9
  <2>11. r \in Seq(Lines) /\ r \in Seq(WrittenLines) /\ 0 + Len(n) = Len(Texts[e]) /\ 0 \in Nat
    BY <1>4, <1>5, <2>6, <2>9
  <2> HIDE DEF seen
  <2> QED
    BY <1>10, <2>2, <2>3, <2>4, <2>6, <2>8, <2>9, <2>10, <2>11
<1> QED
  BY <1>2, <1>3, <1>13, <1>14, <1>15 DEF Placed

(* The day turns under a follower that is on the last file.                 *)
LEMMA TurnedPlaced ==
    ASSUME LogShape, NamesInv, follower.seen \in Seq(Lines), follower.offset \in Nat,
           NamesSorted(logs), Placed(logs), follower.name = Name(logs[Len(logs)]),
           logs[Len(logs)].day # day, NEW R, R = Rolled(logs)
    PROVE  NamesSorted(R) /\ Placed(R)
<1>1. logs \in Seq(LogFile) /\ logs # <<>> /\ day \in Nat
  BY DEF LogShape
<1>2. PICK e : e = Len(logs)
  OBVIOUS
<1>3. /\ e \in Nat \ {0} /\ e \in 1..Len(logs)
      /\ \A i \in 1..e : logs[i].lines \in Seq(Lines) /\ logs[i].day \in Nat /\ logs[i].dotted \in BOOLEAN
  BY <1>1, <1>2, FilesTyped
<1>4. R \in Seq(LogFile) /\ \E d \in 0..Len(logs) : Rolls(logs, R, d)
  BY <1>1, RolledOver
<1>5. PICK d \in 0..e : Rolls(logs, R, d)
  BY <1>2, <1>4
<1>6. d \in Nat /\ d <= e /\ Len(R) \in Nat
  BY <1>3, <1>4, <1>5
<1>7. \A i \in 1..(e - d) : R[i] = logs[i + d] /\ i + d \in 1..e
  BY <1>2, <1>3, <1>5, <1>6 DEF Rolls
<1>8. \A i \in 1..e : logs[i].day < day
  <2> TAKE i \in 1..e
  <2>1. logs[i].day <= logs[e].day
    <3>1. i = e \/ i < e
      BY <1>3
    <3> QED
      BY <1>2, <1>3, <3>1 DEF NamesInv, Ordered
  <2>2. logs[e].day <= day /\ logs[e].day # day
    BY <1>2, <1>3 DEF NamesInv, Ordered
  <2> QED
    BY <1>1, <1>3, <2>1, <2>2
<1>9. /\ Len(R) = e - d + 1
      /\ R[Len(R)] = [day |-> day, dotted |-> TRUE, lines |-> <<>>]
  <2>1. \A i \in 1..(e - d) : R[i].day # day
    BY <1>1, <1>3, <1>7, <1>8
  <2> QED
    BY <1>2, <1>5, <2>1 DEF Rolls
<1>10. R[Len(R)].day = day /\ R[Len(R)].dotted /\ R[Len(R)].lines = <<>>
  BY <1>9
<1>11. NamesSorted(R)
  <2> SUFFICES ASSUME NEW i \in 1..Len(R), NEW j \in 1..Len(R), i < j PROVE NewerName(R[j], R[i])
    BY DEF NamesSorted
  <2>1. i \in 1..(e - d)
    BY <1>3, <1>6, <1>9
  <2>2. CASE j \in 1..(e - d)
    <3>1. i + d < j + d
      BY <1>6
    <3> QED
      BY <1>2, <1>7, <2>1, <2>2, <3>1 DEF NamesSorted
  <2>3. CASE j = Len(R)
    <3>1. R[i].day < day
      BY <1>7, <1>8, <2>1
    <3> QED
      BY <1>10, <2>3, <3>1 DEF NewerName
  <2>4. j \in 1..(e - d) \/ j = Len(R)
    BY <1>3, <1>6, <1>9
  <2> QED
    BY <2>2, <2>3, <2>4
<1>12. CASE d = e
  <2>1. Len(R) = 1
    BY <1>3, <1>9, <1>12
  <2>2. Name(R[1]) # follower.name
    <3>1. Name(R[1]).day = day /\ Name(logs[e]).day # day
      BY <1>2, <1>10, <2>1 DEF Name
    <3> QED
      BY <1>2, <3>1
  <2>3. SpotsIn(TextsOf(R)) = {}
    <3>1. DOMAIN TextsOf(R) = {1} /\ TextsOf(R)[1] = <<>>
      BY <1>4, <1>10, <2>1 DEF TextsOf
    <3> QED
      BY <3>1 DEF SpotsIn
  <2> QED
    BY <1>11, <2>1, <2>2, <2>3 DEF Placed, OffFile
<1>13. CASE d # e
  <2>1. OnFile(logs, e)
    <3>1. \A f \in 1..Len(logs) : OnFile(logs, f) => f = e
      BY <1>1, <1>2, <1>3, OwnName DEF OnFile, NamesInv
    <3>2. ~OffFile(logs)
      BY <1>2 DEF OffFile
    <3> QED
      BY <3>1, <3>2 DEF Placed
  <2>2. PICK f : f = e - d
    OBVIOUS
  <2>3. f \in 1..(e - d) /\ f \in 1..Len(R) /\ f >= Len(R) - 1 /\ R[f] = logs[e]
    <3>1. f \in 1..(e - d) /\ f + d = e
      BY <1>3, <1>6, <1>13, <2>2
    <3> QED
      BY <1>3, <1>6, <1>7, <1>9, <2>2, <3>1
  <2>4. Chain(TextsOf(R), follower.seen, f, follower.offset)
    <3>1. PICK T \in Seq(Seq(Lines)) : T = TextsOf(logs)
      BY <1>1, TextsTyped
    <3>2. PICK U \in Seq(Seq(Lines)) : U = TextsOf(R)
      BY <1>4, TextsTyped
    <3>3. Shifted(U, T, d)
      BY <1>1, <1>2, <1>4, <1>5, <3>1, <3>2, RolledShifts
    <3>4. Chain(T, follower.seen, e, follower.offset)
      BY <2>1, <3>1 DEF OnFile
    <3>5. Chain(U, follower.seen, e - d, follower.offset)
      BY <1>3, <1>6, <3>1, <3>2, <3>3, <3>4, ChainShifts
    <3> QED
      BY <2>2, <3>2, <3>5
  <2>5. OnFile(R, f)
    BY <2>1, <2>3, <2>4 DEF OnFile
  <2> QED
    BY <1>11, <2>3, <2>5 DEF Placed
<1> QED
  BY <1>12, <1>13

LEMMA WritingPlaced ==
    ASSUME NEW F \in Seq(LogFile), F # <<>>, NEW x \in Lines, NEW G, G = WithLine(F, x),
           \A i \in DOMAIN follower.seen : follower.seen[i] # x,
           NamesSorted(F), Placed(F)
    PROVE  NamesSorted(G) /\ Placed(G)
<1>1. PICK e : e = Len(F)
  OBVIOUS
<1>2. /\ e \in Nat \ {0} /\ G \in Seq(LogFile) /\ Len(G) = e
      /\ \A i \in 1..e : G[i].day = F[i].day /\ G[i].dotted = F[i].dotted
      /\ TextsOf(G) = Longer(TextsOf(F), x)
  BY <1>1, OneLineMore
<1>3. NamesSorted(G)
  BY <1>1, <1>2 DEF NamesSorted, NewerName
<1>4. \A i \in 1..e : Name(G[i]) = Name(F[i])
  BY <1>2 DEF Name
<1>5. PICK T \in Seq(Seq(Lines)) : /\ T = TextsOf(F) /\ Len(T) = e
                                   /\ \A i \in 1..e : T[i] = F[i].lines /\ F[i].lines \in Seq(Lines)
  BY <1>1, TextsTyped
<1>6. PICK U : U = TextsOf(G)
  OBVIOUS
<1>7. U = Longer(T, x) /\ T # <<>> /\ \A i \in 1..e : U[i] = G[i].lines
  <2>1. \A i \in 1..e : U[i] = G[i].lines
    BY <1>2, <1>6, TextsTyped
  <2> QED
    BY <1>2, <1>5, <1>6, <2>1
<1>8. ASSUME NEW f \in 1..e, OnFile(F, f) PROVE OnFile(G, f)
  <2>1. follower.offset \in 0..Len(T[f]) /\ Chain(T, follower.seen, f, follower.offset)
    BY <1>5, <1>8 DEF OnFile
  <2>2. Chain(U, follower.seen, f, follower.offset)
    <3>1. e = Len(T) /\ T # <<>> /\ U = Longer(T, x)
      BY <1>5, <1>7
    <3>2. PICK seen : seen = follower.seen
      OBVIOUS
    <3>3. PICK o : o = follower.offset
      OBVIOUS
    <3>4. /\ \A i \in DOMAIN seen : seen[i] # x
          /\ o \in 0..Len(T[f]) /\ Chain(T, seen, f, o)
      BY <2>1, <3>2, <3>3
    <3>5. Chain(U, seen, f, o)
      BY <3>1, <3>4, ChainLonger
    <3> QED
      BY <3>2, <3>3, <3>5
  <2>3. Len(T[f]) \in Nat /\ Len(T[f]) <= Len(U[f]) /\ Len(U[f]) \in Nat
    <3>1. U = [T EXCEPT ![e] = Append(T[e], x)] /\ DOMAIN T = 1..e
      BY <1>5, <1>7 DEF Longer
    <3>2. U[f] = IF f = e THEN Append(T[e], x) ELSE T[f]
      BY <3>1
    <3>3. PICK text \in Seq(Lines) : text = T[f]
      BY <1>5
    <3>4. Len(Append(text, x)) = Len(text) + 1 /\ Len(text) \in Nat
      OBVIOUS
    <3> QED
      BY <3>2, <3>3, <3>4
  <2>4. follower.offset \in 0..Len(G[f].lines)
    BY <1>7, <2>1, <2>3
  <2> QED
    BY <1>1, <1>2, <1>4, <1>6, <1>8, <2>2, <2>4 DEF OnFile
<1>9. ASSUME OffFile(F) PROVE OffFile(G)
  <2>1. e = 1 /\ Name(G[1]) # follower.name
    BY <1>1, <1>4, <1>9 DEF OffFile
  <2>2. ASSUME NEW s \in SpotsIn(U) PROVE (s \in SpotsIn(T) /\ At(U, s) = At(T, s)) \/ At(U, s) = x
    <3>1. U = Longer(T, x) /\ T # <<>>
      BY <1>7
    <3> QED
      BY <1>5, <2>2, <3>1, NewSpots
  <2>3. \A s \in SpotsIn(U), i \in DOMAIN follower.seen : At(U, s) # follower.seen[i]
    BY <1>5, <1>9, <2>2 DEF OffFile
  <2> QED
    BY <1>2, <1>6, <2>1, <2>3 DEF OffFile
<1> QED
  BY <1>1, <1>2, <1>3, <1>8, <1>9 DEF Placed

LEMMA WriteLineFollowed ==
    ASSUME WrittenInv, NamesInv, FollowInv, NEW minute \in BOOLEAN, WriteLine(minute)
    PROVE  FollowInv'
<1> SUFFICES ASSUME ~unsettled' PROVE FollowInv'
  BY DEF FollowInv
<1>1. LogShape /\ logs \in Seq(LogFile) /\ logs # <<>> /\ queue \in Seq(Lines)
  BY DEF WrittenInv, LogShape
<1>2. PICK S : S = Settled(minute)
  OBVIOUS
<1>3. PICK F : F = Turned(S)
  OBVIOUS
<1>4. /\ F \in Seq(LogFile) /\ F # <<>> /\ queue # <<>> /\ logs' = WithLine(F, Head(queue))
      /\ unsettled' = \/ unsettled \/ S # logs
                      \/ F # S /\ follower.on /\ follower.name # Name(S[Len(S)])
  BY <1>1, <1>2, <1>3, WriteLineShape
<1>5. ~unsettled /\ S = logs /\ (F = S \/ ~follower.on \/ follower.name = Name(logs[Len(logs)]))
  BY <1>4
<1>6. follower' = follower
  BY DEF WriteLine
<1>7. follower \in FollowerType /\ (~follower.on => follower.seen = <<>>)
  BY <1>5 DEF FollowInv
<1>8. CASE ~follower.on
  BY <1>6, <1>7, <1>8 DEF FollowInv
<1>9. CASE follower.on
  <2>1. /\ NamesSorted(logs) /\ Placed(logs) /\ follower.seen \in Seq(WrittenLines)
        /\ follower.seen \in Seq(Lines) /\ follower.offset \in Nat
    BY <1>5, <1>7, <1>9 DEF FollowInv, FollowerType
  <2>2. NamesSorted(F) /\ Placed(F)
    <3>1. CASE F = logs
      BY <2>1, <3>1
    <3>2. CASE F # logs
      <4>1. F = Rolled(logs) /\ logs[Len(logs)].day # day /\ follower.name = Name(logs[Len(logs)])
        BY <1>3, <1>5, <1>9, <3>2 DEF Turned
      <4> QED
        BY <1>1, <2>1, <4>1, TurnedPlaced
    <3> QED
      BY <3>1, <3>2
  <2>3. PICK x : x = Head(queue)
    OBVIOUS
  <2>4. x \in Lines /\ x = queue[1] /\ 1 \in DOMAIN queue
    BY <1>1, <1>4, <2>3
  <2>5. \A i \in DOMAIN follower.seen : follower.seen[i] # x
    <3>1. \A i \in DOMAIN follower.seen : follower.seen[i] \in WrittenLines
      BY <2>1
    <3> QED
      BY <2>4, <3>1 DEF WrittenLines, Written
  <2>6. NamesSorted(logs') /\ Placed(logs')
    BY <1>4, <2>2, <2>3, <2>4, <2>5, WritingPlaced
  <2>7. Placed(logs)'
    BY <1>6, <2>6 DEF Placed, OnFile, OffFile
  <2>8. Seq(WrittenLines) \subseteq Seq(WrittenLines')
    <3>1. LogNext
      BY DEF LogNext
    <3> QED
      BY <3>1, StillWritten
  <2> QED
    BY <1>6, <1>7, <2>1, <2>6, <2>7, <2>8 DEF FollowInv
<1> QED
  BY <1>8, <1>9

LEMMA FollowInvariant == LogSpec => []FollowInv
<1>1. LogInit => FollowInv
  <2> SUFFICES ASSUME LogInit PROVE FollowInv
    OBVIOUS
  <2>1. logs[1] = [day |-> 1, dotted |-> FALSE, lines |-> <<>>]
    BY DEF LogInit
  <2>2. follower = [on |-> FALSE, name |-> [day |-> 1, dotted |-> FALSE], offset |-> 0, seen |-> <<>>]
    BY <2>1 DEF LogInit, Name
  <2> QED
    BY <2>2 DEF FollowInv, FollowerType
<1>2. WrittenInv /\ NamesInv /\ FollowInv /\ [LogNext]_logVars => FollowInv'
  <2> SUFFICES ASSUME WrittenInv, NamesInv, FollowInv, [LogNext]_logVars PROVE FollowInv'
    OBVIOUS
  <2>1. CASE UNCHANGED logVars
    <3>1. Placed(logs)' <=> Placed(logs)
      BY <2>1 DEF logVars, Placed, OnFile, OffFile
    <3>2. WrittenLines' = WrittenLines
      BY <2>1 DEF logVars, WrittenLines, Written
    <3>3. NamesSorted(logs') <=> NamesSorted(logs)
      BY <2>1 DEF logVars
    <3> QED
      BY <2>1, <3>1, <3>2, <3>3 DEF logVars, FollowInv
  <2>2. ASSUME LogNext, UNCHANGED <<logs, follower, unsettled>> PROVE FollowInv'
    <3>1. Placed(logs)' <=> Placed(logs)
      BY <2>2 DEF Placed, OnFile, OffFile
    <3>2. Seq(WrittenLines) \subseteq Seq(WrittenLines')
      BY <2>2, StillWritten
    <3>3. NamesSorted(logs') <=> NamesSorted(logs)
      BY <2>2
    <3> QED
      BY <2>2, <3>1, <3>2, <3>3 DEF FollowInv
  <2>3. ASSUME NEW minute \in BOOLEAN, WriteLine(minute) PROVE FollowInv'
    BY <2>3, WriteLineFollowed
  <2>4. CASE CrashAndReopen
    BY <2>4 DEF CrashAndReopen, FollowInv
  <2>5. CASE StartFollowing
    BY <2>5, StartKeeps
  <2>6. CASE Follow
    BY <2>6, FollowKeeps
  <2>7. CASE DayPasses \/ (\E t \in Threads :
             \/ \E r \in Requests : (\E engine \in BOOLEAN : OnNewSpan(t, r, engine)) \/ OnEvent(t, r)
             \/ \E s \in Usable : OnClose(t, s)
             \/ Emit(t))
    <3>1. LogNext
      BY <2>7 DEF LogNext
    <3>2. UNCHANGED <<logs, follower, unsettled>>
      BY <2>7 DEF DayPasses, OnNewSpan, OnEvent, OnClose, Emit, Stamped
    <3> QED
      BY <2>2, <3>1, <3>2
  <2> QED
    BY <2>1, <2>3, <2>4, <2>5, <2>6, <2>7 DEF LogNext
<1> QED
  BY <1>1, <1>2, WrittenInvariant, NamesInvariant, PTL DEF LogSpec

LEMMA Faithful ==
    ASSUME WrittenInv, FollowInv
    PROVE  FollowIsFaithful
<1>1. logs \in Seq(LogFile)
  BY DEF WrittenInv, LogShape
<1>2. /\ Texts \in Seq(Seq(Lines)) /\ Len(Texts) = Len(logs)
      /\ \A i \in 1..Len(logs) : Texts[i] = logs[i].lines /\ logs[i].lines \in Seq(Lines)
  BY <1>1, TextsTyped DEF Texts
<1>3. Spots = SpotsIn(Texts)
  BY DEF Spots, SpotsIn, Texts, TextsOf
<1>4. \A s \in SpotsIn(Texts) : LineAt(s) = At(Texts, s)
  <2> TAKE s \in SpotsIn(Texts)
  <2>1. s[1] \in 1..Len(Texts) /\ At(Texts, s) = Texts[s[1]][s[2]]
    BY <1>2, SpotsOf
  <2> QED
    BY <1>2, <2>1 DEF LineAt
<1> DEFINE Earlier(s, u) == s[1] < u[1] \/ (s[1] = u[1] /\ s[2] < u[2])
<1>5. ASSUME ~unsettled, NEW i \in 1..(Len(follower.seen) - 1), NEW s \in Spots,
             LineAt(s) = follower.seen[i]
      PROVE  \E u \in Spots : /\ LineAt(u) = follower.seen[i + 1] /\ Earlier(s, u)
                              /\ \A v \in Spots : ~(Earlier(s, v) /\ Earlier(v, u))
  <2>1. follower.seen \in Seq(Lines) /\ (~follower.on => follower.seen = <<>>)
    BY <1>5 DEF FollowInv, FollowerType
  <2>2. i \in DOMAIN follower.seen /\ i < Len(follower.seen) /\ Len(follower.seen) # 0
    BY <2>1
  <2>3. Placed(logs)
    BY <1>5, <2>1, <2>2 DEF FollowInv
  <2>4. At(Texts, s) = follower.seen[i] /\ s \in SpotsIn(Texts)
    BY <1>3, <1>4, <1>5
  <2>5. ~OffFile(logs)
    BY <2>2, <2>4 DEF OffFile, Texts
  <2>6. PICK f : Chain(Texts, follower.seen, f, follower.offset)
    BY <2>3, <2>5 DEF Placed, OnFile, Texts
  <2>7. NextIs(Texts, s, follower.seen[i + 1])
    BY <2>2, <2>4, <2>6 DEF Chain
  <2> QED
    BY <1>3, <1>4, <2>7 DEF NextIs, Ahead
<1> QED
  BY <1>5 DEF FollowIsFaithful

-----------------------------------------------------------------------------
(* Induction over numbers, for a set of them.                               *)
LEMMA LeastNumber ==
    ASSUME NEW T, T \subseteq Nat, T # {}
    PROVE  \E x \in T : \A y \in T : ~(y < x)
<1> DEFINE R == OpToRel(<, Nat)
<1>1. IsWellFoundedOn(R, Nat)
  BY NatLessThanWellFounded
<1>2. \A x, y \in Nat : y < x => <<y, x>> \in R
  BY DEF OpToRel
<1> HIDE DEF R
<1>3. \E x \in T : \A y \in T : ~ (<<y, x>> \in R)
  BY <1>1, WFMin
<1> QED
  BY <1>2, <1>3

LEMMA NumbersUpTo ==
    ASSUME NEW n \in Nat, NEW T, 0 \in T, \A k \in 0..(n - 1) : k \in T => k + 1 \in T
    PROVE  0..n \subseteq T
<1> DEFINE Out == {k \in 0..n : k \notin T}
<1>1. ASSUME Out # {} PROVE FALSE
  <2>0. Out \subseteq Nat
    OBVIOUS
  <2>1. PICK k \in Out : \A j \in Out : ~(j < k)
    <3> HIDE DEF Out
    <3> QED
      BY <1>1, <2>0, LeastNumber
  <2>2. k \in 1..n /\ k - 1 \in 0..(n - 1) /\ k - 1 \notin Out
    BY <2>1
  <2>3. k - 1 \in T /\ (k - 1) + 1 = k
    BY <2>2
  <2> QED
    BY <2>1, <2>2, <2>3
<1>2. \A k \in 0..n : k \in T
  BY <1>1
<1> QED
  BY <1>2

-----------------------------------------------------------------------------
(* The lines of one file.                                                   *)
InFile(lines) ==
    /\ lines \in Seq(Lines)
    /\ \A m, n \in 1..Len(lines) : m < n => Follows(lines[m], lines[n])
    /\ \A n \in 1..Len(lines) :
          /\ lines[n].kind # "event" => lines[n].id # 0 /\ lines[n].parent < lines[n].id
          /\ lines[n].kind = "event" => lines[n].parent = 0

LEMMA FileInOrder ==
    ASSUME WrittenInv, NEW i \in DOMAIN logs
    PROVE  InFile(logs[i].lines)
<1>1. logs \in Seq(LogFile) /\ InOrderOf(Texts, queue) /\ \A x \in Emitted : Told(x)
  BY DEF WrittenInv, LogShape
<1>2. /\ Texts \in Seq(Seq(Lines)) /\ Len(Texts) = Len(logs)
      /\ \A j \in 1..Len(logs) : Texts[j] = logs[j].lines /\ logs[j].lines \in Seq(Lines)
  BY <1>1, TextsTyped DEF Texts
<1>3. PICK x : x = logs[i].lines
  OBVIOUS
<1>4. i \in 1..Len(Texts) /\ Texts[i] = x /\ x \in Seq(Lines) /\ i \in Nat
  BY <1>1, <1>2, <1>3
<1>5. \A n \in 1..Len(x) : <<i, n>> \in SpotsIn(Texts) /\ At(Texts, <<i, n>>) = x[n]
  BY <1>2, <1>4, SpotAt
<1>6. ASSUME NEW m \in 1..Len(x), NEW n \in 1..Len(x), m < n PROVE Follows(x[m], x[n])
  <2>1. Ahead(<<i, m>>, <<i, n>>)
    BY <1>6 DEF Ahead
  <2> QED
    BY <1>1, <1>5, <2>1 DEF InOrderOf
<1>7. \A n \in 1..Len(x) : Told(x[n])
  BY <1>1, <1>5 DEF Emitted, EmittedIn
<1> QED
  BY <1>3, <1>4, <1>6, <1>7 DEF InFile, Told

(* The file of one process that holds the opening of every span it names.   *)
SelfContained(lines) ==
    /\ \A n \in 1..Len(lines) : lines[n].run = lines[1].run
    /\ \A n \in 1..Len(lines) : \A i \in {lines[n].id, lines[n].parent} \ {0} :
          \E m \in 1..Len(lines) : lines[m].kind = "open" /\ lines[m].id = i

LEMMA OpenedBefore ==
    ASSUME NEW lines, InFile(lines), SelfContained(lines), NEW n \in 1..Len(lines),
           NEW i, i # 0, i = lines[n].parent \/ (i = lines[n].id /\ lines[n].kind # "open")
    PROVE  /\ \E m \in 1..(n - 1) : lines[m].kind = "open" /\ lines[m].id = i
           /\ \A k \in 1..(n - 1) : ~(lines[k].kind = "close" /\ lines[k].id = i)
<1>1. Len(lines) \in Nat /\ \A k \in 1..Len(lines) : lines[k] \in Lines
  BY DEF InFile
<1>2. PICK m \in 1..Len(lines) : lines[m].kind = "open" /\ lines[m].id = i
  BY DEF SelfContained
<1>3. \A j, k \in 1..Len(lines) : j < k => Follows(lines[j], lines[k]) /\ lines[j].run = lines[k].run
  BY DEF InFile, SelfContained
<1>4. ~(n < m)
  BY <1>2, <1>3 DEF Follows
<1>5. m # n
  <2>1. lines[n].kind = "open" => lines[n].parent < lines[n].id
    BY DEF InFile
  <2>2. lines[n].id \in Nat /\ lines[n].parent \in Nat
    BY <1>1 DEF Lines
  <2> QED
    BY <1>2, <2>1, <2>2
<1>6. m \in 1..(n - 1)
  BY <1>1, <1>4, <1>5
<1>7. \A k \in 1..(n - 1) : ~(lines[k].kind = "close" /\ lines[k].id = i)
  <2> TAKE k \in 1..(n - 1)
  <2>1. k \in 1..Len(lines) /\ k < n
    BY <1>1
  <2> QED
    BY <1>3, <2>1 DEF Follows
<1> QED
  BY <1>2, <1>6, <1>7

LEMMA NotYet ==
    ASSUME NEW lines, InFile(lines), SelfContained(lines), NEW n \in 1..Len(lines), lines[n].kind = "open"
    PROVE  \A k \in 1..(n - 1) : lines[k].kind \in {"open", "close"} => lines[k].id # lines[n].id
<1> TAKE k \in 1..(n - 1)
<1>1. k \in 1..Len(lines) /\ k < n
  BY DEF InFile
<1>2. Follows(lines[k], lines[n]) /\ lines[k].run = lines[n].run
  BY <1>1 DEF InFile, SelfContained
<1> QED
  BY <1>2 DEF Follows

(* The spans inside an engine's are those that are one, or were opened      *)
(* under one of them.                                                       *)
LEMMA EngineSpansClosed ==
    ASSUME NEW opens, \A x, y \in opens : x.id = y.id => x = y,
           NEW x \in opens
    PROVE  x.id \in EngineSpans(opens) <=> x.engine \/ x.parent \in EngineSpans(opens)
<1>1. PICK ids : ids = {y.id : y \in opens}
  OBVIOUS
<1>2. PICK E : E = EngineSpans(opens)
  OBVIOUS
<1> DEFINE Full(S) == \A y \in opens : y.engine \/ y.parent \in S => y.id \in S
<1>3. E = {i \in ids : \A S \in SUBSET ids : Full(S) => i \in S}
  BY <1>1, <1>2 DEF EngineSpans
<1>4. Full(E)
  <2> SUFFICES ASSUME NEW y \in opens, y.engine \/ y.parent \in E PROVE y.id \in E
    OBVIOUS
  <2>1. ASSUME NEW S \in SUBSET ids, Full(S) PROVE y.id \in S
    <3>1. E \subseteq S
      BY <1>3, <2>1
    <3> QED
      BY <2>1, <3>1
  <2>2. y.id \in ids
    BY <1>1
  <2> QED
    BY <1>3, <2>1, <2>2
<1>5. ASSUME x.id \in E, ~x.engine, x.parent \notin E PROVE FALSE
  <2>1. PICK S : S = E \ {x.id}
    OBVIOUS
  <2>2. S \in SUBSET ids
    BY <1>3, <2>1
  <2>3. Full(S)
    <3> SUFFICES ASSUME NEW y \in opens, y.engine \/ y.parent \in S PROVE y.id \in S
      OBVIOUS
    <3>1. y.id \in E
      BY <1>4, <2>1
    <3>2. y.id # x.id
      BY <1>5, <2>1
    <3> QED
      BY <2>1, <3>1, <3>2
  <2>4. x.id \in S
    BY <1>3, <1>5, <2>2, <2>3
  <2> QED
    BY <2>1, <2>4
<1> QED
  BY <1>2, <1>4, <1>5

(* What a tail holds after n lines.                                         *)
OpenedBy(lines, n) == {lines[m].id : m \in {k \in 1..n : lines[k].kind = "open"}}
ClosedBy(lines, n) == {lines[m].id : m \in {k \in 1..n : lines[k].kind = "close"}}
TailAt(lines, n, E) ==
    [engines |-> (OpenedBy(lines, n) \cap E) \ ClosedBy(lines, n),
     open    |-> OpenedBy(lines, n) \ ClosedBy(lines, n),
     kept    |-> {lines[m] : m \in {k \in 1..n : lines[k].kind # "open" /\ lines[k].id \in E}}]

LEMMA OneMore ==
    ASSUME NEW lines, NEW n \in Nat \ {0}, NEW E
    PROVE  /\ OpenedBy(lines, n) = OpenedBy(lines, n - 1)
                 \cup (IF lines[n].kind = "open" THEN {lines[n].id} ELSE {})
           /\ ClosedBy(lines, n) = ClosedBy(lines, n - 1)
                 \cup (IF lines[n].kind = "close" THEN {lines[n].id} ELSE {})
           /\ TailAt(lines, n, E).kept = TailAt(lines, n - 1, E).kept
                 \cup (IF lines[n].kind # "open" /\ lines[n].id \in E THEN {lines[n]} ELSE {})
<1>1. 1..n = 1..(n - 1) \cup {n}
  OBVIOUS
<1>2. OpenedBy(lines, n) = OpenedBy(lines, n - 1)
                 \cup (IF lines[n].kind = "open" THEN {lines[n].id} ELSE {})
  BY <1>1 DEF OpenedBy
<1>3. ClosedBy(lines, n) = ClosedBy(lines, n - 1)
                 \cup (IF lines[n].kind = "close" THEN {lines[n].id} ELSE {})
  BY <1>1 DEF ClosedBy
<1>4. TailAt(lines, n, E).kept = TailAt(lines, n - 1, E).kept
                 \cup (IF lines[n].kind # "open" /\ lines[n].id \in E THEN {lines[n]} ELSE {})
  BY <1>1 DEF TailAt
<1> QED
  BY <1>2, <1>3, <1>4

LEMMA TailStep ==
    ASSUME NEW lines, InFile(lines), SelfContained(lines), NEW n \in 1..Len(lines),
           NEW E, 0 \notin E,
           lines[n].kind = "open" =>
              (lines[n].id \in E <=> lines[n].engine \/ lines[n].parent \in E),
           lines[n].kind = "close" /\ lines[n].engine => lines[n].id \in E
    PROVE  Push(TailAt(lines, n - 1, E), lines[n]) = TailAt(lines, n, E)
<1>1. n \in Nat \ {0} /\ Len(lines) \in Nat
  BY DEF InFile
<1>2. PICK x \in Lines : x = lines[n]
  BY DEF InFile
<1>3. PICK O : O = OpenedBy(lines, n - 1)
  OBVIOUS
<1>4. PICK C : C = ClosedBy(lines, n - 1)
  OBVIOUS
<1>5. PICK t : t = TailAt(lines, n - 1, E)
  OBVIOUS
<1>6. /\ t.engines = (O \cap E) \ C /\ t.open = O \ C
      /\ t = [engines |-> (O \cap E) \ C, open |-> O \ C, kept |-> t.kept]
  BY <1>3, <1>4, <1>5 DEF TailAt
<1>7. PICK u : u = TailAt(lines, n, E)
  OBVIOUS
<1>8. /\ OpenedBy(lines, n) = O \cup (IF x.kind = "open" THEN {x.id} ELSE {})
      /\ ClosedBy(lines, n) = C \cup (IF x.kind = "close" THEN {x.id} ELSE {})
      /\ u.kept = t.kept \cup (IF x.kind # "open" /\ x.id \in E THEN {x} ELSE {})
  BY <1>1, <1>2, <1>3, <1>4, <1>5, <1>7, OneMore
<1>9. /\ u.engines = (OpenedBy(lines, n) \cap E) \ ClosedBy(lines, n)
      /\ u.open = OpenedBy(lines, n) \ ClosedBy(lines, n)
      /\ u = [engines |-> u.engines, open |-> u.open, kept |-> u.kept]
  BY <1>7 DEF TailAt
<1>10. \A i \in E : i = x.parent \/ (i = x.id /\ x.kind # "open") => i \in O /\ i \notin C
  <2> SUFFICES ASSUME NEW i \in E, i = x.parent \/ (i = x.id /\ x.kind # "open")
               PROVE  i \in O /\ i \notin C
    OBVIOUS
  <2>1. i # 0
    OBVIOUS
  <2>2. i = lines[n].parent \/ (i = lines[n].id /\ lines[n].kind # "open")
    BY <1>2
  <2>3. /\ \E m \in 1..(n - 1) : lines[m].kind = "open" /\ lines[m].id = i
        /\ \A k \in 1..(n - 1) : ~(lines[k].kind = "close" /\ lines[k].id = i)
    BY <2>1, <2>2, OpenedBefore
  <2> QED
    BY <1>3, <1>4, <2>3 DEF OpenedBy, ClosedBy
<1>11. CASE x.kind = "open"
  <2>1. x.id \notin C
    <3>1. \A k \in 1..(n - 1) : lines[k].kind \in {"open", "close"} => lines[k].id # lines[n].id
      BY <1>2, <1>11, NotYet
    <3> QED
      BY <1>2, <1>4, <3>1 DEF ClosedBy
  <2>2. x.engine \/ x.parent \in t.engines <=> x.id \in E
    BY <1>2, <1>6, <1>10, <1>11
  <2>3. Push(t, x) = [engines |-> IF x.id \in E THEN t.engines \cup {x.id} ELSE t.engines,
                      open |-> t.open \cup {x.id}, kept |-> t.kept]
    BY <1>6, <1>11, <2>2 DEF Push
  <2>4. /\ u.engines = IF x.id \in E THEN t.engines \cup {x.id} ELSE t.engines
        /\ u.open = t.open \cup {x.id} /\ u.kept = t.kept
    BY <1>6, <1>8, <1>9, <1>11, <2>1
  <2> QED
    BY <1>2, <1>5, <1>7, <1>9, <2>3, <2>4
<1>12. CASE x.kind = "close"
  <2>1. x.engine \/ x.id \in t.engines <=> x.id \in E
    BY <1>2, <1>6, <1>10, <1>12
  <2>2. Push(t, x) = [engines |-> t.engines \ {x.id}, open |-> t.open \ {x.id},
                      kept |-> IF x.id \in E THEN t.kept \cup {x} ELSE t.kept]
    BY <1>12, <2>1 DEF Push
  <2>3. /\ u.engines = t.engines \ {x.id} /\ u.open = t.open \ {x.id}
        /\ u.kept = IF x.id \in E THEN t.kept \cup {x} ELSE t.kept
    BY <1>6, <1>8, <1>9, <1>12
  <2> QED
    BY <1>2, <1>5, <1>7, <1>9, <2>2, <2>3
<1>13. CASE x.kind = "event"
  <2>1. x.id \in t.engines <=> x.id \in E
    BY <1>2, <1>6, <1>10, <1>13
  <2>2. Push(t, x) = [engines |-> t.engines, open |-> t.open,
                      kept |-> IF x.id \in E THEN t.kept \cup {x} ELSE t.kept]
    BY <1>6, <1>13, <2>1 DEF Push
  <2>3. /\ u.engines = t.engines /\ u.open = t.open
        /\ u.kept = IF x.id \in E THEN t.kept \cup {x} ELSE t.kept
    BY <1>6, <1>8, <1>9, <1>13
  <2> QED
    BY <1>2, <1>5, <1>7, <1>9, <2>2, <2>3
<1> QED
  BY <1>2, <1>11, <1>12, <1>13 DEF Lines
LEMMA TailedTold ==
    ASSUME NEW lines, Len(lines) \in Nat
    PROVE  /\ Tailed(lines)[0] = [engines |-> {}, open |-> {}, kept |-> {}]
           /\ \A k \in 1..Len(lines) : Tailed(lines)[k] = Push(Tailed(lines)[k - 1], lines[k])
<1> DEFINE none == [engines |-> {}, open |-> {}, kept |-> {}]
           Made(n, g) == g = [k \in 0..n |-> IF k = 0 THEN none ELSE Push(g[k - 1], lines[k])]
           T == {n \in 0..Len(lines) : \E g : Made(n, g)}
<1>0. \A n \in 0..Len(lines) : n \in T <=> \E g : Made(n, g)
  OBVIOUS
<1> HIDE DEF T, none
<1>1. 0 \in T
  <2> DEFINE g == [k \in 0..0 |-> none]
  <2>0. \A k \in 0..0 : k = 0
    OBVIOUS
  <2>1. Made(0, g)
    BY <2>0
  <2> HIDE DEF Made
  <2> QED
    BY <1>0, <2>1
<1>2. ASSUME NEW n \in 0..(Len(lines) - 1), n \in T PROVE n + 1 \in T
  <2>0. n \in 0..Len(lines) /\ n + 1 \in 0..Len(lines)
    OBVIOUS
  <2>1. PICK g : Made(n, g)
    <3> HIDE DEF Made
    <3> QED
      BY <1>0, <1>2, <2>0
  <2> DEFINE h == [k \in 0..(n + 1) |-> IF k = 0 THEN none ELSE Push(g[k - 1], lines[k])]
  <2>2. \A k \in 0..n : h[k] = g[k] /\ k \in 0..(n + 1)
    BY <2>1
  <2>3. \A k \in 0..(n + 1) : k # 0 => k - 1 \in 0..n
    OBVIOUS
  <2>4. \A k \in 0..(n + 1) : h[k] = IF k = 0 THEN none ELSE Push(h[k - 1], lines[k])
    <3>1. \A k \in 0..(n + 1) : k # 0 => h[k - 1] = g[k - 1]
      BY <2>2, <2>3
    <3> QED
      BY <3>1
  <2>5. Made(n + 1, h)
    <3> DEFINE again == [k \in 0..(n + 1) |-> IF k = 0 THEN none ELSE Push(h[k - 1], lines[k])]
    <3>1. \A k \in 0..(n + 1) : h[k] = again[k]
      BY <2>4
    <3>2. h = again
      BY <3>1
    <3> QED
      BY <3>2
  <2> HIDE DEF Made, h
  <2> QED
    BY <1>0, <2>0, <2>5
<1>3. Len(lines) \in T
  <2>1. 0..Len(lines) \subseteq T
    BY <1>1, <1>2, NumbersUpTo
  <2> QED
    BY <2>1
<1>4. Made(Len(lines), Tailed(lines))
  <2>1. \E g : Made(Len(lines), g)
    BY <1>0, <1>3
  <2>2. Made(Len(lines), CHOOSE g : Made(Len(lines), g))
    BY <2>1
  <2> QED
    BY <2>2 DEF Tailed, none
<1> QED
  <2>1. /\ Tailed(lines)[0] = none
        /\ \A k \in 1..Len(lines) : Tailed(lines)[k] = Push(Tailed(lines)[k - 1], lines[k])
    BY <1>4
  <2> QED
    BY <2>1 DEF none

LEMMA TailTold ==
    ASSUME NEW lines, InFile(lines), lines # <<>>
    PROVE  TailAttributes(lines)
<1> DEFINE opens == {x \in ToSet(lines) : x.kind = "open"}
           self  == \A x \in ToSet(lines) :
                       /\ x.run = lines[1].run
                       /\ {x.id, x.parent} \ {0} \subseteq {y.id : y \in opens}
<1> SUFFICES ASSUME self
             PROVE  /\ TailOf(lines).kept =
                          {x \in ToSet(lines) : x.kind # "open" /\ x.id \in EngineSpans(opens)}
                    /\ TailOf(lines).open = {x.id : x \in opens}
                          \ {x.id : x \in {y \in ToSet(lines) : y.kind = "close"}}
  BY DEF TailAttributes
<1>1. /\ lines \in Seq(Lines) /\ Len(lines) \in Nat \ {0} /\ DOMAIN lines = 1..Len(lines)
      /\ \A n \in 1..Len(lines) : lines[n] \in Lines
  BY DEF InFile
<1>2. ToSet(lines) = {lines[n] : n \in 1..Len(lines)}
  BY <1>1 DEF ToSet
<1>3. SelfContained(lines)
  <2>1. \A n \in 1..Len(lines) : lines[n] \in ToSet(lines)
    BY <1>2
  <2>2. ASSUME NEW n \in 1..Len(lines), NEW i \in {lines[n].id, lines[n].parent} \ {0}
        PROVE  \E m \in 1..Len(lines) : lines[m].kind = "open" /\ lines[m].id = i
    <3>1. PICK y \in opens : y.id = i
      BY <2>1, <2>2
    <3> QED
      BY <1>2, <3>1
  <2> QED
    BY <2>1, <2>2 DEF SelfContained
<1>4. PICK E : E = EngineSpans(opens)
  OBVIOUS
<1>5. \A x, y \in opens : x.id = y.id => x = y
  <2> SUFFICES ASSUME NEW x \in opens, NEW y \in opens, x.id = y.id PROVE x = y
    OBVIOUS
  <2>1. PICK m \in 1..Len(lines) : x = lines[m] /\ lines[m].kind = "open"
    BY <1>2
  <2>2. PICK n \in 1..Len(lines) : y = lines[n] /\ lines[n].kind = "open"
    BY <1>2
  <2>3. \A j, k \in 1..Len(lines) : j < k => Follows(lines[j], lines[k]) /\ lines[j].run = lines[k].run
    BY <1>3 DEF InFile, SelfContained
  <2>4. ~(m < n) /\ ~(n < m)
    BY <2>1, <2>2, <2>3 DEF Follows
  <2> QED
    BY <1>1, <2>1, <2>2, <2>4
<1>6. 0 \notin E
  <2>1. E \subseteq {x.id : x \in opens}
    BY <1>4 DEF EngineSpans
  <2>2. \A x \in opens : x.id # 0
    BY <1>2 DEF InFile
  <2> QED
    BY <2>1, <2>2
<1>7. \A x \in opens : x.id \in E <=> x.engine \/ x.parent \in E
  <2> TAKE x \in opens
  <2> HIDE DEF opens
  <2> QED
    BY <1>4, <1>5, EngineSpansClosed
<1>8. \A n \in 1..Len(lines) : lines[n].kind = "open" =>
         (lines[n].id \in E <=> lines[n].engine \/ lines[n].parent \in E)
  BY <1>2, <1>7
<1>9. ASSUME NEW n \in 1..Len(lines), lines[n].kind = "close" /\ lines[n].engine PROVE lines[n].id \in E
  <2>1. PICK i : i = lines[n].id
    OBVIOUS
  <2>2. i # 0 /\ (i = lines[n].parent \/ (i = lines[n].id /\ lines[n].kind # "open"))
    BY <1>9, <2>1 DEF InFile
  <2>3. \E m \in 1..(n - 1) : lines[m].kind = "open" /\ lines[m].id = i
    <3> HIDE DEF opens
    <3> QED
      BY <1>3, <2>2, OpenedBefore
  <2>4. PICK m \in 1..(n - 1) : lines[m].kind = "open" /\ lines[m].id = i
    BY <2>3
  <2>5. m \in 1..Len(lines) /\ m < n
    BY <1>1
  <2>6. lines[m].engine
    <3>1. Follows(lines[m], lines[n]) /\ lines[m].run = lines[n].run
      BY <1>3, <2>5 DEF InFile, SelfContained
    <3> QED
      BY <1>9, <2>1, <2>4, <3>1 DEF Follows
  <2> QED
    BY <1>8, <2>1, <2>4, <2>5, <2>6
<1>10. Tailed(lines)[Len(lines)] = TailAt(lines, Len(lines), E)
  <2> DEFINE T == {n \in 0..Len(lines) : Tailed(lines)[n] = TailAt(lines, n, E)}
  <2>1. /\ Tailed(lines)[0] = [engines |-> {}, open |-> {}, kept |-> {}]
        /\ \A n \in 1..Len(lines) : Tailed(lines)[n] = Push(Tailed(lines)[n - 1], lines[n])
    BY <1>1, TailedTold
  <2>2. 0 \in T
    <3>1. TailAt(lines, 0, E) = [engines |-> {}, open |-> {}, kept |-> {}]
      <4>1. 1..0 = {}
        OBVIOUS
      <4> QED
        BY <4>1 DEF TailAt, OpenedBy, ClosedBy
    <3>2. 0 \in 0..Len(lines)
      BY <1>1
    <3>3. Tailed(lines)[0] = TailAt(lines, 0, E)
      BY <2>1, <3>1
    <3> QED
      BY <3>2, <3>3
  <2>3. ASSUME NEW k \in 0..(Len(lines) - 1), k \in T PROVE k + 1 \in T
    <3>1. PICK n : n = k + 1
      OBVIOUS
    <3>2. n \in 1..Len(lines) /\ n - 1 = k /\ n \in 0..Len(lines)
      BY <1>1, <3>1
    <3>3. Tailed(lines)[n] = Push(TailAt(lines, n - 1, E), lines[n])
      BY <2>1, <2>3, <3>2
    <3>4. Push(TailAt(lines, n - 1, E), lines[n]) = TailAt(lines, n, E)
      BY <1>3, <1>6, <1>8, <1>9, <3>2, TailStep
    <3> QED
      BY <3>1, <3>2, <3>3, <3>4
  <2> HIDE DEF T
  <2>4. 0..Len(lines) \subseteq T
    BY <1>1, <2>2, <2>3, NumbersUpTo
  <2>5. Len(lines) \in T
    BY <1>1, <2>4
  <2> QED
    BY <2>5 DEF T
<1>11. TailOf(lines).kept = {x \in ToSet(lines) : x.kind # "open" /\ x.id \in EngineSpans(opens)}
  <2>1. TailOf(lines).kept = {lines[m] : m \in {k \in 1..Len(lines) :
                                  lines[k].kind # "open" /\ lines[k].id \in E}}
    BY <1>10 DEF TailOf, TailAt
  <2> HIDE DEF opens
  <2> QED
    BY <1>2, <1>4, <2>1
<1>12. TailOf(lines).open = {x.id : x \in opens}
                               \ {x.id : x \in {y \in ToSet(lines) : y.kind = "close"}}
  <2>1. TailOf(lines).open = OpenedBy(lines, Len(lines)) \ ClosedBy(lines, Len(lines))
    BY <1>10 DEF TailOf, TailAt
  <2>2. OpenedBy(lines, Len(lines)) = {x.id : x \in opens}
    BY <1>2 DEF OpenedBy
  <2>3. ClosedBy(lines, Len(lines)) = {x.id : x \in {y \in ToSet(lines) : y.kind = "close"}}
    BY <1>2 DEF ClosedBy
  <2> QED
    BY <2>1, <2>2, <2>3
<1> QED
  BY <1>11, <1>12

-----------------------------------------------------------------------------
(* Places in a strict order, given as a set of pairs.                      *)
Strict(S, R) ==
  /\ IsFiniteSet(S)
  /\ \A a \in S : <<a, a>> \notin R
  /\ \A a, b \in S : a # b => <<a, b>> \in R \/ <<b, a>> \in R
  /\ \A a, b, c \in S : <<a, b>> \in R /\ <<b, c>> \in R => <<a, c>> \in R

Beyond(S, R, k) == {l \in S : <<l, k>> \in R}

LEMMA Smaller ==
  ASSUME NEW S, IsFiniteSet(S), NEW T, T \subseteq S, NEW x \in S, x \notin T
  PROVE  IsFiniteSet(T) /\ Cardinality(T) \in Nat /\ Cardinality(S) \in Nat /\ Cardinality(T) < Cardinality(S)
<1>1. T \in SUBSET S
  OBVIOUS
<1>2. IsFiniteSet(T) /\ Cardinality(T) <= Cardinality(S) /\ (Cardinality(S) = Cardinality(T) => S = T)
  BY <1>1, FS_Subset
<1>3. Cardinality(S) \in Nat /\ Cardinality(T) \in Nat
  BY <1>2, FS_CardinalityType
<1> QED
  BY <1>2, <1>3

LEMMA BeyondGrows ==
  ASSUME NEW S, NEW R, Strict(S, R), NEW a \in S, NEW b \in S, <<a, b>> \in R
  PROVE  /\ Cardinality(Beyond(S, R, a)) \in Nat /\ Cardinality(Beyond(S, R, b)) \in Nat
         /\ Cardinality(Beyond(S, R, a)) < Cardinality(Beyond(S, R, b))
<1>1. Beyond(S, R, a) \subseteq Beyond(S, R, b) /\ a \in Beyond(S, R, b) /\ a \notin Beyond(S, R, a)
  BY DEF Strict, Beyond
<1>2. IsFiniteSet(Beyond(S, R, b))
  BY FS_Subset DEF Strict, Beyond
<1> QED
  BY <1>1, <1>2, Smaller

LEMMA Places ==
  ASSUME NEW S, NEW R, Strict(S, R)
  PROVE  /\ Cardinality(S) \in Nat
         /\ \A k \in S : Cardinality(Beyond(S, R, k)) \in 0..Cardinality(S) - 1
         /\ \A k, l \in S : Cardinality(Beyond(S, R, k)) = Cardinality(Beyond(S, R, l)) => k = l
         /\ \A n \in 1..Cardinality(S) : \E k \in S : Cardinality(Beyond(S, R, k)) = n - 1
<1> DEFINE size == Cardinality(S)
           place == [k \in S |-> Cardinality(Beyond(S, R, k)) + 1]
<1>1. size \in Nat
  BY FS_CardinalityType DEF Strict
<1>2. \A k \in S : Cardinality(Beyond(S, R, k)) \in 0..size - 1
  <2> TAKE k \in S
  <2>1. Beyond(S, R, k) \subseteq S /\ k \notin Beyond(S, R, k)
    BY DEF Strict, Beyond
  <2>2. Cardinality(Beyond(S, R, k)) \in Nat /\ Cardinality(Beyond(S, R, k)) < size
    BY <2>1, Smaller DEF Strict
  <2> QED
    BY <1>1, <2>2
<1>3. \A k, l \in S : Cardinality(Beyond(S, R, k)) = Cardinality(Beyond(S, R, l)) => k = l
  <2> TAKE k, l \in S
  <2>1. ASSUME <<k, l>> \in R PROVE Cardinality(Beyond(S, R, k)) # Cardinality(Beyond(S, R, l))
    BY <2>1, BeyondGrows
  <2>2. ASSUME <<l, k>> \in R PROVE Cardinality(Beyond(S, R, k)) # Cardinality(Beyond(S, R, l))
    BY <2>2, BeyondGrows
  <2> QED
    BY <2>1, <2>2 DEF Strict
<1>4. place \in Injection(S, 1..size)
  <2>1. place \in [S -> 1..size]
    BY <1>1, <1>2
  <2>2. \A k, l \in S : place[k] = place[l] => k = l
    BY <1>1, <1>2, <1>3
  <2> QED
    BY <2>1, <2>2 DEF Injection, IsInjective
<1>5. IsFiniteSet(1..size) /\ Cardinality(1..size) = size
  BY <1>1, FS_Interval
<1>6. place \in Surjection(S, 1..size)
  BY <1>4, <1>5, FS_Injection
<1>7. \A n \in 1..size : \E k \in S : Cardinality(Beyond(S, R, k)) = n - 1
  <2> TAKE n \in 1..size
  <2>1. PICK k \in S : place[k] = n
    BY <1>6 DEF Surjection
  <2> QED
    BY <1>1, <1>2, <2>1
<1> QED
  BY <1>1, <1>2, <1>3, <1>7

LEMMA ImageSize ==
  ASSUME NEW A, IsFiniteSet(A), NEW r, \A m, n \in A : r[m] = r[n] => m = n
  PROVE  IsFiniteSet({r[m] : m \in A}) /\ Cardinality({r[m] : m \in A}) = Cardinality(A)
<1> DEFINE f == [m \in A |-> r[m]]
           B == {r[m] : m \in A}
<1>1. f \in Bijection(A, B)
  BY DEF Bijection, Injection, IsInjective, Surjection
<1>2. ExistsBijection(A, B)
  BY <1>1 DEF ExistsBijection
<1> QED
  BY <1>2, FS_Bijection

\* r lists S in the order R.
Lists(r, S, R) ==
  /\ r \in [1..Cardinality(S) -> S]
  /\ \A n \in 1..Cardinality(S) : Cardinality(Beyond(S, R, r[n])) = n - 1

LEMMA ListOrders ==
  ASSUME NEW S, NEW R, Strict(S, R), NEW r, Lists(r, S, R)
  PROVE  /\ \A m, n \in 1..Cardinality(S) : r[m] = r[n] => m = n
         /\ \A m, n \in 1..Cardinality(S) : <<r[m], r[n]>> \in R <=> m < n
         /\ \A k \in S : \E n \in 1..Cardinality(S) : r[n] = k
<1> DEFINE size == Cardinality(S)
<1>0. size \in Nat /\ r \in [1..size -> S]
  BY Places DEF Lists
<1>1. ASSUME NEW m \in 1..size, NEW n \in 1..size, r[m] = r[n] PROVE m = n
  <2>1. m - 1 = n - 1
    BY <1>1 DEF Lists
  <2> QED
    BY <2>1
<1>2. ASSUME NEW m \in 1..size, NEW n \in 1..size, <<r[m], r[n]>> \in R PROVE m < n
  <2>1. Cardinality(Beyond(S, R, r[m])) < Cardinality(Beyond(S, R, r[n]))
    BY <1>0, <1>2, BeyondGrows
  <2>2. m - 1 < n - 1
    BY <2>1 DEF Lists
  <2> QED
    BY <2>2
<1>3. ASSUME NEW m \in 1..size, NEW n \in 1..size, m < n PROVE <<r[m], r[n]>> \in R
  <2>1. r[m] # r[n] /\ r[m] \in S /\ r[n] \in S
    BY <1>0, <1>1, <1>3
  <2>2. ~(<<r[n], r[m]>> \in R)
    BY <1>2, <1>3
  <2> QED
    BY <2>1, <2>2 DEF Strict
<1>4. ASSUME NEW k \in S PROVE \E n \in 1..size : r[n] = k
  <2>1. Cardinality(Beyond(S, R, k)) \in 0..size - 1
    BY Places
  <2>2. PICK n \in 1..size : n - 1 = Cardinality(Beyond(S, R, k))
    <3> DEFINE place == Cardinality(Beyond(S, R, k)) + 1
    <3>1. place \in 1..size /\ place - 1 = Cardinality(Beyond(S, R, k))
      BY <1>0, <2>1
    <3> QED
      BY <3>1
  <2>3. r[n] \in S /\ Cardinality(Beyond(S, R, r[n])) = Cardinality(Beyond(S, R, k))
    BY <1>0, <2>2 DEF Lists
  <2> QED
    BY <2>3, Places
<1> QED
  BY <1>1, <1>2, <1>3, <1>4


-----------------------------------------------------------------------------
(* The lines of one request, in the order of their stamps.                  *)
SoonerOf(r) == {pair \in Of(r) \X Of(r) : Sooner(pair[1], pair[2])}

LEMMA SpotsFinite ==
    ASSUME NEW T, NEW n \in Nat, DOMAIN T = 1..n,
           \A i \in 1..n : \E k \in Nat : DOMAIN T[i] = 1..k
    PROVE  IsFiniteSet(SpotsIn(T))
<1> DEFINE row == [i \in 1..n |-> {i} \X DOMAIN T[i]]
<1>1. \A i \in 1..n : IsFiniteSet(row[i])
  <2> TAKE i \in 1..n
  <2>1. PICK k \in Nat : DOMAIN T[i] = 1..k
    OBVIOUS
  <2>2. IsFiniteSet(1..k) /\ IsFiniteSet({i})
    <3>1. 1 \in Int /\ k \in Int
      BY <2>1
    <3>2. IsFiniteSet(1..k)
      BY <3>1, FS_Interval
    <3> QED
      BY <3>2, FS_Singleton
  <2>3. IsFiniteSet({i} \X (1..k))
    BY <2>2, FS_Product
  <2> QED
    BY <2>1, <2>3
<1>2. IsFiniteSet(1..n)
  <2>1. 1 \in Int /\ n \in Int
    OBVIOUS
  <2> QED
    BY <2>1, FS_Interval
<1>3. IsFiniteSet({row[i] : i \in 1..n})
  <2>1. row \in Surjection(1..n, {row[i] : i \in 1..n})
    BY DEF Surjection
  <2> HIDE DEF row
  <2> QED
    BY <1>2, <2>1, FS_Surjection
<1>4. SpotsIn(T) = UNION {row[i] : i \in 1..n}
  BY DEF SpotsIn
<1>5. \A s \in {row[i] : i \in 1..n} : IsFiniteSet(s)
  BY <1>1
<1> HIDE DEF row
<1>6. IsFiniteSet(UNION {row[i] : i \in 1..n})
  BY <1>3, <1>5, FS_UNION
<1> QED
  BY <1>4, <1>6

(* What a spot of a request holds.                                          *)
OneRequest(r) ==
    /\ IsFiniteSet(Of(r))
    /\ \A s \in Of(r) : LineAt(s) \in Lines /\ LineAt(s).req = r /\ s[2] \in Nat
    /\ \A s, u \in Of(r) : s # u => LineAt(s).ts # LineAt(u).ts
    /\ \A s, u \in Of(r) :
          LineAt(s).kind = "open" /\ LineAt(u).kind = "open" /\ LineAt(s).id = LineAt(u).id => s = u
    /\ \A s, u \in Of(r) :
          LineAt(s).kind = "open" /\ LineAt(u).kind = "event" /\ LineAt(s).id = LineAt(u).id =>
             LineAt(s).ts < LineAt(u).ts

LEMMA RequestTold ==
    ASSUME WrittenInv, NEW r
    PROVE  OneRequest(r)
<1>1. logs \in Seq(LogFile) /\ InOrderOf(Texts, queue) /\ \A x \in Emitted : Told(x)
  BY DEF WrittenInv, LogShape
<1>2. /\ Texts \in Seq(Seq(Lines)) /\ Len(Texts) = Len(logs)
      /\ \A i \in 1..Len(logs) : Texts[i] = logs[i].lines /\ logs[i].lines \in Seq(Lines)
  BY <1>1, TextsTyped DEF Texts
<1>3. Spots = SpotsIn(Texts)
  BY DEF Spots, SpotsIn, Texts, TextsOf
<1>4. \A s \in SpotsIn(Texts) : LineAt(s) = At(Texts, s) /\ At(Texts, s) \in Lines /\ s[2] \in Nat
  <2> TAKE s \in SpotsIn(Texts)
  <2>1. s[1] \in 1..Len(Texts) /\ At(Texts, s) = Texts[s[1]][s[2]] /\ At(Texts, s) \in Lines
        /\ s[2] \in Nat
    BY <1>2, SpotsOf
  <2> QED
    BY <1>2, <2>1 DEF LineAt
<1>5. Of(r) = {s \in SpotsIn(Texts) : At(Texts, s).req = r}
  BY <1>3, <1>4 DEF Of
<1>6. IsFiniteSet(Of(r))
  <2>1. IsFiniteSet(SpotsIn(Texts))
    <3>1. PICK n \in Nat : n = Len(Texts)
      BY <1>2
    <3>2. DOMAIN Texts = 1..n /\ \A i \in 1..n : \E k \in Nat : DOMAIN Texts[i] = 1..k
      BY <1>2, <3>1
    <3> QED
      BY <3>2, SpotsFinite
  <2> QED
    BY <1>5, <2>1, FS_Subset
<1>7. \A s \in Of(r) : Told(At(Texts, s)) /\ At(Texts, s).req = r
  BY <1>1, <1>5 DEF Emitted, EmittedIn
<1>8. \A s, u \in Of(r) : At(Texts, s).run = At(Texts, u).run
  BY <1>7 DEF Told
<1>9. \A s, u \in Of(r) : s = u \/ Follows(At(Texts, s), At(Texts, u)) \/ Follows(At(Texts, u), At(Texts, s))
  <2> TAKE s, u \in Of(r)
  <2>1. s = u \/ Ahead(s, u) \/ Ahead(u, s)
    BY <1>2, <1>5, AheadOrder
  <2> QED
    BY <1>1, <1>5, <2>1 DEF InOrderOf
<1>10. \A s, u \in Of(r) : s # u => At(Texts, s).ts # At(Texts, u).ts
  BY <1>9 DEF Follows
<1>11. ASSUME NEW s \in Of(r), NEW u \in Of(r), At(Texts, s).kind = "open", At(Texts, u).kind = "open",
              At(Texts, s).id = At(Texts, u).id
       PROVE  s = u
  BY <1>8, <1>9, <1>11 DEF Follows
<1>12. ASSUME NEW s \in Of(r), NEW u \in Of(r), At(Texts, s).kind = "open", At(Texts, u).kind = "event",
              At(Texts, s).id = At(Texts, u).id
       PROVE  At(Texts, s).ts < At(Texts, u).ts
  BY <1>8, <1>9, <1>12 DEF Follows
<1> QED
  BY <1>4, <1>5, <1>6, <1>10, <1>11, <1>12 DEF OneRequest

LEMMA SoonerStrict ==
    ASSUME NEW r, OneRequest(r)
    PROVE  /\ Strict(Of(r), SoonerOf(r))
           /\ \A s, u \in Of(r) : Sooner(s, u) <=> LineAt(s).ts < LineAt(u).ts
           /\ \A s, u \in Of(r) : <<s, u>> \in SoonerOf(r) <=> LineAt(s).ts < LineAt(u).ts
<1>1. \A s \in Of(r) : LineAt(s).ts \in Nat /\ s[2] \in Nat
  BY DEF OneRequest, Lines
<1>2. \A s, u \in Of(r) : Sooner(s, u) <=> LineAt(s).ts < LineAt(u).ts
  BY <1>1 DEF OneRequest, Sooner, ReadBefore
<1>3. \A s, u \in Of(r) : <<s, u>> \in SoonerOf(r) <=> LineAt(s).ts < LineAt(u).ts
  BY <1>2 DEF SoonerOf
<1> QED
  BY <1>1, <1>2, <1>3 DEF Strict, OneRequest

(* The trace, line by line.                                                 *)
LEMMA TraceListed ==
    ASSUME NEW r, OneRequest(r)
    PROVE  LET size  == Cardinality(Of(r))
               trace == TraceRequest(r)
               lines == {LineAt(s) : s \in Of(r)}
           IN /\ size \in Nat /\ Cardinality(lines) = size
              /\ trace \in [1..size -> lines]
              /\ \A x \in lines : \E n \in 1..size : trace[n] = x
              /\ \A m, n \in 1..size : trace[m] = trace[n] => m = n
              /\ \A m, n \in 1..size : trace[m].ts < trace[n].ts => m < n
<1> DEFINE S == Of(r)
           R == SoonerOf(r)
           size == Cardinality(S)
           lines == {LineAt(s) : s \in S}
           q == [n \in 1..size |-> CHOOSE s \in S : Cardinality(Beyond(S, R, s)) = n - 1]
<1>1. Strict(S, R) /\ \A s, u \in S : <<s, u>> \in R <=> LineAt(s).ts < LineAt(u).ts
  BY SoonerStrict
<1>2. TraceRequest(r) = [n \in 1..size |-> LineAt(q[n])]
  <2>1. \A s \in S : Beyond(S, R, s) = {u \in S : Sooner(u, s)}
    BY DEF Beyond, SoonerOf
  <2>2. \A n : (CHOOSE s \in S : Cardinality({u \in S : Sooner(u, s)}) = n - 1)
             = (CHOOSE s \in S : Cardinality(Beyond(S, R, s)) = n - 1)
    BY <2>1
  <2>3. TraceRequest(r) =
           [n \in 1..size |-> LineAt(CHOOSE s \in S : Cardinality({u \in S : Sooner(u, s)}) = n - 1)]
    BY DEF TraceRequest, Listed
  <2>4. \A n \in 1..size :
           LineAt(CHOOSE s \in S : Cardinality({u \in S : Sooner(u, s)}) = n - 1) = LineAt(q[n])
    <3> TAKE n \in 1..size
    <3> HIDE DEF S, R
    <3>1. q[n] = CHOOSE s \in S : Cardinality(Beyond(S, R, s)) = n - 1
      OBVIOUS
    <3>2. (CHOOSE s \in S : Cardinality({u \in S : Sooner(u, s)}) = n - 1) = q[n]
      BY <2>2, <3>1
    <3> HIDE DEF q
    <3> QED
      BY <3>2
  <2> HIDE DEF q, S, R
  <2> QED
    BY <2>3, <2>4
<1>3. /\ size \in Nat
      /\ \A n \in 1..size : \E s \in S : Cardinality(Beyond(S, R, s)) = n - 1
  <2> HIDE DEF S, R
  <2> QED
    BY <1>1, Places
<1>4. Lists(q, S, R)
  <2>1. \A n \in 1..size : q[n] \in S /\ Cardinality(Beyond(S, R, q[n])) = n - 1
    <3> HIDE DEF S, R
    <3> QED
      BY <1>3
  <2>2. q \in [1..size -> S]
    BY <2>1
  <2> HIDE DEF q, S, R
  <2> QED
    BY <2>1, <2>2 DEF Lists, size
<1>5. /\ \A m, n \in 1..size : q[m] = q[n] => m = n
      /\ \A m, n \in 1..size : <<q[m], q[n]>> \in R <=> m < n
      /\ \A s \in S : \E n \in 1..size : q[n] = s
      /\ \A n \in 1..size : q[n] \in S
  <2>1. \A n \in 1..size : q[n] \in S
    BY <1>4 DEF Lists
  <2> HIDE DEF q, S, R
  <2> QED
    BY <1>1, <1>4, <2>1, ListOrders DEF size
<1>6. \A s, u \in S : LineAt(s) = LineAt(u) => s = u
  BY DEF OneRequest
<1>7. Cardinality(lines) = size
  <2> DEFINE f == [s \in S |-> LineAt(s)]
  <2>1. \A s, u \in S : f[s] = f[u] => s = u
    BY <1>6
  <2>2. IsFiniteSet(S)
    BY DEF OneRequest
  <2>3. lines = {f[s] : s \in S}
    OBVIOUS
  <2>4. Cardinality({f[s] : s \in S}) = Cardinality(S)
    <3> HIDE DEF f, S
    <3> QED
      BY <2>1, <2>2, ImageSize
  <2> QED
    BY <2>3, <2>4
<1>8. \A m, n \in 1..size : LineAt(q[m]).ts < LineAt(q[n]).ts => m < n
  <2> TAKE m, n \in 1..size
  <2> HIDE DEF q, S, R
  <2>1. q[m] \in S /\ q[n] \in S
    BY <1>5
  <2>2. LineAt(q[m]).ts < LineAt(q[n]).ts => <<q[m], q[n]>> \in R
    BY <1>1, <2>1
  <2> QED
    BY <1>5, <2>2
<1> HIDE DEF S, R, q
<1>9. /\ [n \in 1..size |-> LineAt(q[n])] \in [1..size -> lines]
      /\ \A x \in lines : \E n \in 1..size : LineAt(q[n]) = x
      /\ \A m, n \in 1..size : LineAt(q[m]) = LineAt(q[n]) => m = n
  BY <1>5, <1>6
<1>10. PICK trace : trace = TraceRequest(r)
  OBVIOUS
<1>11. /\ trace \in [1..size -> lines]
       /\ \A x \in lines : \E n \in 1..size : trace[n] = x
       /\ \A m, n \in 1..size : trace[m] = trace[n] => m = n
       /\ \A m, n \in 1..size : trace[m].ts < trace[n].ts => m < n
  <2>1. \A n \in 1..size : trace[n] = LineAt(q[n])
    BY <1>2, <1>10
  <2> QED
    BY <1>2, <1>8, <1>9, <1>10, <2>1
<1> QED
  BY <1>3, <1>7, <1>10, <1>11 DEF S

LEMMA TraceWhole ==
    ASSUME NEW r, OneRequest(r)
    PROVE  TraceIsWhole(r)
<1>1. PICK lines : lines = {LineAt(s) : s \in Of(r)}
  OBVIOUS
<1>2. PICK size : size = Cardinality(Of(r))
  OBVIOUS
<1>3. PICK trace : trace = TraceRequest(r)
  OBVIOUS
<1>4. PICK opened : opened = {x \in lines : x.kind = "open"}
  OBVIOUS
<1>5. /\ size \in Nat /\ Cardinality(lines) = size
      /\ trace \in [1..size -> lines]
      /\ \A x \in lines : \E n \in 1..size : trace[n] = x
      /\ \A m, n \in 1..size : trace[m] = trace[n] => m = n
      /\ \A m, n \in 1..size : trace[m].ts < trace[n].ts => m < n
  BY <1>1, <1>2, <1>3, TraceListed
<1>6. DOMAIN trace = 1..size /\ Len(trace) = size /\ ToSet(trace) = lines
  <2>1. DOMAIN trace = 1..size /\ Len(trace) = size
    <3>1. trace \in Seq(lines)
      BY <1>5
    <3> QED
      BY <1>5, <3>1
  <2>2. ToSet(trace) = lines
    BY <1>5, <2>1 DEF ToSet
  <2> QED
    BY <2>1, <2>2
<1>7. /\ lines \subseteq Lines
      /\ \A x, y \in opened : x.id = y.id => x = y
      /\ \A x \in opened, y \in lines : y.kind = "event" /\ x.id = y.id => x.ts < y.ts
  BY <1>1, <1>4 DEF OneRequest
<1>8. PICK B : B = Build(trace)
  OBVIOUS
<1>9. B = {[item |-> [span |-> x.id], under |-> x.parent] : x \in opened}
          \cup {[item |-> trace[n],
                 under |-> IF trace[n].id \in NodesBefore(trace, n) THEN trace[n].id ELSE 0] :
                    n \in {m \in 1..size : trace[m].kind = "event"}}
  BY <1>4, <1>6, <1>8 DEF Build
<1>10. \A x \in Lines : \A i : x # [span |-> i]
  <2> TAKE x \in Lines
  <2> TAKE i
  <2>1. DOMAIN x = {"ts", "run", "kind", "req", "id", "parent", "engine"}
    BY DEF Lines
  <2>2. "ts" \notin DOMAIN [span |-> i]
    OBVIOUS
  <2> QED
    BY <2>1, <2>2
<1>11. ASSUME NEW x \in opened
       PROVE  {p.under : p \in {q \in B : q.item = [span |-> x.id]}} = {x.parent}
  <2>1. \A p \in B : p.item = [span |-> x.id] => p.under = x.parent
    <3> SUFFICES ASSUME NEW p \in B, p.item = [span |-> x.id] PROVE p.under = x.parent
      OBVIOUS
    <3>1. CASE \E y \in opened : p = [item |-> [span |-> y.id], under |-> y.parent]
      <4>1. PICK y \in opened : p = [item |-> [span |-> y.id], under |-> y.parent]
        BY <3>1
      <4>2. [span |-> y.id] = [span |-> x.id]
        BY <4>1
      <4>3. y.id = x.id
        <5>1. [span |-> y.id].span = [span |-> x.id].span
          BY <4>2
        <5> QED
          BY <5>1
      <4> QED
        BY <1>7, <4>1, <4>3
    <3>2. CASE \E n \in 1..size : p.item = trace[n]
      BY <1>5, <1>7, <1>10, <3>2
    <3> QED
      BY <1>9, <3>1, <3>2
  <2>2. [item |-> [span |-> x.id], under |-> x.parent] \in B
    BY <1>9
  <2>3. x.parent \in {p.under : p \in {q \in B : q.item = [span |-> x.id]}}
    BY <2>2
  <2> QED
    BY <2>1, <2>3
<1>12. ASSUME NEW x \in lines, x.kind = "event"
       PROVE  LET at == {p.under : p \in {q \in B : q.item = x}} IN
              /\ Cardinality(at) = 1 /\ at \subseteq {0, x.id}
              /\ (\E y \in opened : y.id = x.id) => at = {x.id}
  <2>1. PICK n \in 1..size : trace[n] = x
    BY <1>5
  <2>2. PICK i : i = IF x.id \in NodesBefore(trace, n) THEN x.id ELSE 0
    OBVIOUS
  <2>3. \A p \in B : p.item = x => p.under = i
    <3> SUFFICES ASSUME NEW p \in B, p.item = x PROVE p.under = i
      OBVIOUS
    <3>1. CASE \E y \in opened : p = [item |-> [span |-> y.id], under |-> y.parent]
      <4>1. PICK y \in opened : p = [item |-> [span |-> y.id], under |-> y.parent]
        BY <3>1
      <4> QED
        BY <1>7, <1>10, <4>1
    <3>2. ASSUME NEW m \in 1..size,
                 p = [item |-> trace[m],
                      under |-> IF trace[m].id \in NodesBefore(trace, m) THEN trace[m].id ELSE 0]
          PROVE  p.under = i
      <4>1. trace[m] = x /\ m = n
        BY <1>5, <2>1, <3>2
      <4> QED
        BY <2>2, <3>2, <4>1
    <3> QED
      BY <1>9, <3>1, <3>2
  <2>4. [item |-> x, under |-> i] \in B
    BY <1>9, <1>12, <2>1, <2>2
  <2>5. {p.under : p \in {q \in B : q.item = x}} = {i}
    <3>1. i \in {p.under : p \in {q \in B : q.item = x}}
      BY <2>4
    <3> QED
      BY <2>3, <3>1
  <2>6. Cardinality({i}) = 1
    BY FS_Singleton
  <2>7. ASSUME NEW y \in opened, y.id = x.id PROVE i = x.id
    <3>1. PICK m \in 1..size : trace[m] = y
      BY <1>4, <1>5
    <3>2. m < n
      BY <1>5, <1>7, <1>12, <2>1, <2>7, <3>1
    <3>3. m \in 1..(n - 1) /\ trace[m].kind # "event" /\ trace[m].id = x.id
      BY <1>4, <1>5, <2>7, <3>1, <3>2
    <3>4. x.id \in NodesBefore(trace, n)
      BY <3>3 DEF NodesBefore
    <3> QED
      BY <2>2, <3>4
  <2> QED
    BY <2>2, <2>5, <2>6, <2>7
<1>13. ToSet(trace) = lines /\ Len(trace) = Cardinality(lines)
  BY <1>5, <1>6
<1> QED
  BY <1>1, <1>3, <1>4, <1>8, <1>11, <1>12, <1>13 DEF TraceIsWhole

(* Whatever midnight, rename, prune, crash or restart came between, every   *)
(* reader of the log gets the whole of what it asks for.                    *)
THEOREM LogReadersMissNothing == LogSpec => []ReadersMissNothing
<1>1. WrittenInv /\ FollowInv => ReadersMissNothing
  <2> SUFFICES ASSUME WrittenInv, FollowInv PROVE ReadersMissNothing
    OBVIOUS
  <2>1. \A r \in Requests : TraceIsWhole(r)
    BY RequestTold, TraceWhole
  <2>2. ASSUME NEW i \in DOMAIN logs PROVE TailAttributes(logs[i].lines)
    <3>1. CASE logs[i].lines = <<>>
      BY <3>1 DEF TailAttributes
    <3>2. CASE logs[i].lines # <<>>
      BY <3>2, FileInOrder, TailTold
    <3> QED
      BY <3>1, <3>2
  <2>3. FollowIsFaithful
    BY Faithful
  <2> QED
    BY <2>1, <2>2, <2>3 DEF ReadersMissNothing
<1> QED
  BY <1>1, WrittenInvariant, FollowInvariant, PTL

-----------------------------------------------------------------------------
(* Type correctness, and that retention holds: no more files than asked,    *)
(* each under a name of its own.                                            *)
KeptInv ==
    /\ stamp <= MaxLines /\ day \in 1..MaxDay /\ run <= MaxRuns
    /\ Len(logs) <= MaxFiles

LEMMA KeptInit == LogInit => KeptInv
<1> SUFFICES ASSUME LogInit PROVE KeptInv
  OBVIOUS
<1>1. stamp = 0 /\ day = 1 /\ run = 1 /\ Len(logs) = 1
  BY DEF LogInit
<1> QED
  BY <1>1, LogBoundsAssumption, FilesAssumption DEF KeptInv

LEMMA KeptNext == ASSUME WrittenInv, KeptInv, [LogNext]_logVars PROVE KeptInv'
<1>1. LogShape /\ logs \in Seq(LogFile) /\ logs # <<>> /\ day \in Nat /\ stamp \in Nat /\ run \in Nat
  BY DEF WrittenInv, LogShape
<1>2. CASE UNCHANGED <<stamp, day, run, logs>>
  BY <1>2 DEF KeptInv
<1>3. ASSUME NEW t \in Threads, NEW r, NEW kind, NEW id, NEW parent, NEW engine,
             Stamped(t, r, kind, id, parent, engine)
      PROVE  KeptInv'
  <2>1. stamp' = stamp + 1 /\ stamp < MaxLines /\ UNCHANGED <<day, run, logs>>
    BY <1>3 DEF Stamped
  <2> QED
    BY <1>1, <2>1, LogBoundsAssumption DEF KeptInv
<1>4. ASSUME NEW minute \in BOOLEAN, WriteLine(minute) PROVE KeptInv'
  <2>1. PICK S : S = Settled(minute)
    OBVIOUS
  <2>2. PICK F : F = Turned(S)
    OBVIOUS
  <2>3. /\ S \in Seq(LogFile) /\ Len(S) = Len(logs) /\ F \in Seq(LogFile) /\ F # <<>>
        /\ queue # <<>> /\ logs' = WithLine(F, Head(queue))
    BY <1>1, <1>4, <2>1, <2>2, WriteLineShape
  <2>4. Len(F) <= MaxFiles
    <3>1. S # <<>>
      BY <1>1, <2>3
    <3>2. F = S \/ F = Rolled(S)
      BY <2>2 DEF Turned
    <3> QED
      BY <1>1, <2>3, <3>1, <3>2, RolledOver DEF KeptInv
  <2>5. Head(queue) \in Lines
    BY <1>1, <2>3 DEF LogShape
  <2>6. Len(logs') = Len(F)
    BY <2>3, <2>5, OneLineMore
  <2>7. UNCHANGED <<stamp, day, run>>
    BY <1>4 DEF WriteLine
  <2> QED
    BY <2>4, <2>6, <2>7 DEF KeptInv
<1>5. CASE DayPasses
  <2>1. day < MaxDay /\ day' = day + 1 /\ UNCHANGED <<stamp, run, logs>>
    BY <1>5 DEF DayPasses
  <2> QED
    BY <1>1, <2>1, LogBoundsAssumption DEF KeptInv
<1>6. CASE CrashAndReopen
  <2>1. /\ run < MaxRuns /\ run' = run + 1 /\ UNCHANGED <<stamp, day>>
        /\ logs' = NormalizeLogNames(Rolled(logs))
    BY <1>6 DEF CrashAndReopen
  <2>2. PICK R : R = Rolled(logs)
    OBVIOUS
  <2>3. R \in Seq(LogFile) /\ Len(R) <= MaxFiles
    BY <1>1, <2>2, RolledOver
  <2>4. Len(logs') = Len(R)
    BY <2>1, <2>2, <2>3, Renamed
  <2> QED
    BY <1>1, <2>1, <2>3, <2>4, LogBoundsAssumption DEF KeptInv
<1>7. CASE UNCHANGED logVars
  BY <1>2, <1>7 DEF logVars
<1>8. ASSUME NEW t \in Threads, NEW r \in Requests, NEW engine \in BOOLEAN, OnNewSpan(t, r, engine)
      PROVE  KeptInv'
  BY <1>3, <1>8 DEF OnNewSpan
<1>9. ASSUME NEW t \in Threads, NEW r \in Requests, OnEvent(t, r) PROVE KeptInv'
  BY <1>3, <1>9 DEF OnEvent
<1>10. ASSUME NEW t \in Threads, NEW s \in Usable, OnClose(t, s) PROVE KeptInv'
  BY <1>3, <1>10 DEF OnClose
<1>11. ASSUME NEW t \in Threads, Emit(t) PROVE KeptInv'
  BY <1>2, <1>11 DEF Emit
<1>12. CASE StartFollowing \/ Follow
  BY <1>2, <1>12 DEF StartFollowing, Follow
<1> QED
  BY <1>4, <1>5, <1>6, <1>7, <1>8, <1>9, <1>10, <1>11, <1>12 DEF LogNext

LEMMA NamesCounted ==
    ASSUME NEW F \in Seq(LogFile), Ordered(F)
    PROVE  Cardinality(Names(F)) = Len(F)
<1> DEFINE f == [i \in 1..Len(F) |-> Name(F[i])]
<1>1. Len(F) \in Nat /\ DOMAIN F = 1..Len(F)
  BY FilesTyped
<1>2. f \in Surjection(1..Len(F), Names(F))
  BY <1>1 DEF Names, Surjection
<1>3. f \in Injection(1..Len(F), Names(F))
  BY <1>2, OwnName DEF Injection, Surjection, IsInjective
<1>4. f \in Bijection(1..Len(F), Names(F))
  BY <1>2, <1>3 DEF Bijection
<1>5. ExistsBijection(1..Len(F), Names(F))
  BY <1>4 DEF ExistsBijection
<1> QED
  BY <1>1, <1>5, FS_CountingElements

(* Every reachable state of the log is well typed: never more files than    *)
(* retention_days, no two of one name, no two live spans of one id          *)
(* (daily_file_writer, normalize_log_names, on_new_span).                   *)
THEOREM LogTypeCorrect == LogSpec => []LogTypeOK
<1>1. WrittenInv /\ NamesInv /\ KeptInv => LogTypeOK
  <2> SUFFICES ASSUME WrittenInv, NamesInv, KeptInv PROVE LogTypeOK
    OBVIOUS
  <2>1. logs \in Seq(LogFile) /\ logs # <<>> /\ stamp \in Nat /\ run \in Nat \ {0}
    BY DEF WrittenInv, LogShape
  <2>2. Len(logs) \in Nat \ {0} /\ Cardinality(Names(logs)) = Len(logs)
    BY <2>1, NamesCounted DEF NamesInv
  <2>3. \A s, u \in alive : s.id = u.id => s = u
    BY DEF WrittenInv
  <2> QED
    BY <2>1, <2>2, <2>3, LogBoundsAssumption, FilesAssumption DEF KeptInv, LogTypeOK
<1>2. LogInit => KeptInv
  BY KeptInit
<1>3. WrittenInv /\ KeptInv /\ [LogNext]_logVars => KeptInv'
  BY KeptNext
<1> QED
  BY <1>1, <1>2, <1>3, WrittenInvariant, NamesInvariant, PTL DEF LogSpec
=============================================================================

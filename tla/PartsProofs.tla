----------------------------- MODULE PartsProofs -----------------------------
(***************************************************************************)
(* The parts that share no state, each proved for any value of its         *)
(* constants: the exec bridge, the configuration, the terminal interface,  *)
(* the page archive, the roster of engines, the HTTP surface behind a      *)
(* shared cache, the drift canary, the recorded evals, and the provider    *)
(* calls.                                                                  *)
(***************************************************************************)
EXTENDS ExecEngine, Config, Tui, Archive, Engines, Edge, Canary, Evals, Provider,
        FiniteSetTheorems, SequenceTheorems, WellFoundedInduction, TLAPS

-----------------------------------------------------------------------------
(* The exec bridge.                                                        *)

\* A child with nothing to say and nothing to answer.
Quiet(child) == child.in = <<>> /\ child.out = <<>>

\* One request is on its way through the child: unread, or answered.
Carries(child, q) ==
  \/ child.out = <<>> /\ Len(child.in) = 1 /\ child.in[1].q = q
  \/ child.in = <<>> /\ Len(child.out) = 1 /\ child.out[1].q = q

\* The mutex has one holder, who owns the child; a child in State is quiet; the
\* one in use is quiet until the holder writes, and then carries its query.
ExecInv ==
  /\ ExecTypeOK
  /\ holder = NoChild <=> io = NoChild
  /\ \A s \in Searches : at[s] \in {"writing", "reading"} <=> holder = s
  /\ warm # NoChild => Quiet(warm)
  /\ \A s \in Searches : at[s] = "writing" => Quiet(io)
  /\ \A s \in Searches : at[s] = "reading" => Carries(io, asked[s])
  /\ OwnAnswer

\* What is read from a child, and written to it.
InLines  == [q : Queries, v : {1, 2}]
OutLines == [kind : Replies \cup {"rejects"}, q : Queries]

\* A child is its five fields.
LEMMA ChildFields ==
  /\ Child = [speaks : {1, 2}, version : {1, 2}, up : BOOLEAN,
              in : Seq(InLines), out : Seq(OutLines)]
  /\ <<>> \in Seq(InLines) /\ <<>> \in Seq(OutLines)
  BY DEF Child, InLines, OutLines

\* A line put in an empty pipe is the only one in it.
LEMMA OneLine ==
  ASSUME NEW S, NEW x \in S
  PROVE  /\ Append(<<>>, x) \in Seq(S) /\ Len(Append(<<>>, x)) = 1
         /\ Append(<<>>, x)[1] = x
<1>1. <<>> \in Seq(S) /\ Len(<<>>) = 0
  BY EmptySeq
<1>2. \A s \in Seq(S) : /\ Append(s, x) \in Seq(S) /\ Len(Append(s, x)) = Len(s) + 1
                         /\ Append(s, x)[Len(s) + 1] = x
  OBVIOUS
<1> QED
  BY <1>1, <1>2

\* The only line of a pipe leaves it empty.
LEMMA OnlyLine ==
  ASSUME NEW S, NEW s \in Seq(S), Len(s) = 1
  PROVE  Head(s) = s[1] /\ Tail(s) = <<>> /\ Tail(s) \in Seq(S)
<1>1. s # <<>>
  BY EmptySeq
<1>2. Tail(s) \in Seq(S) /\ Len(Tail(s)) = 0
  BY <1>1, HeadTailProperties
<1>3. Tail(s) = <<>>
  BY <1>2, EmptySeq
<1> QED
  BY <1>2, <1>3

\* A process just spawned is a child, and quiet.
LEMMA SpawnedQuiet ==
  ASSUME NEW child \in Spawned
  PROVE  child \in Child /\ child # NoChild /\ Quiet(child)
<1>1. PICK v \in {1, 2} :
        child = [speaks |-> v, version |-> 2, up |-> TRUE, in |-> <<>>, out |-> <<>>]
  BY DEF Spawned
<1>2. child \in Child
  BY <1>1, ChildFields
<1> QED
  BY <1>1, <1>2, NoChildAssumption DEF Quiet

LEMMA ExecInitInv == ExecInit => ExecInv
<1> SUFFICES ASSUME ExecInit PROVE ExecInv
  OBVIOUS
<1>1. warm # NoChild => warm \in Child /\ Quiet(warm)
  BY SpawnedQuiet DEF ExecInit
<1> QED
  BY <1>1, NoChildAssumption DEF ExecInit, ExecInv, ExecTypeOK, OwnAnswer

\* Taking the child out of State, or spawning one, with the mutex.
LEMMA EnsureChildInv ==
  ASSUME ExecInv, NEW s \in Searches, EnsureChild(s)
  PROVE  ExecInv'
<1>1. /\ at[s] = "queued" /\ holder = NoChild /\ warm' = NoChild
      /\ UNCHANGED <<asked, respawns>> /\ s # NoChild
  BY NoChildAssumption DEF EnsureChild
<1>2. CASE /\ io' \in IF Live THEN {warm} ELSE Spawned
           /\ holder' = s /\ at' = [at EXCEPT ![s] = "writing"] /\ UNCHANGED answer
  <2>1. io' \in Child /\ io' # NoChild /\ Quiet(io')
    BY <1>2, SpawnedQuiet DEF Live, ExecInv, ExecTypeOK
  <2>2. \A u \in Searches : at[u] \notin {"writing", "reading"}
    BY <1>1, NoChildAssumption DEF ExecInv
  <2>3. /\ at' \in [Searches -> {"idle", "queued", "writing", "reading"}]
        /\ at'[s] = "writing" /\ \A u \in Searches \ {s} : at'[u] = at[u]
    BY <1>2 DEF ExecInv, ExecTypeOK
  <2> QED
    BY <1>1, <1>2, <2>1, <2>2, <2>3 DEF ExecInv, ExecTypeOK, OwnAnswer
<1>3. CASE /\ at' = [at EXCEPT ![s] = "idle"]
           /\ answer' = [answer EXCEPT ![s] = Failed] /\ UNCHANGED <<io, holder>>
  BY <1>1, <1>3 DEF ExecInv, ExecTypeOK, OwnAnswer
<1> QED
  BY <1>2, <1>3 DEF EnsureChild

\* The request goes to a child that was quiet, so nothing is in front of it.
LEMMA WriteRequestInv ==
  ASSUME ExecInv, NEW s \in Searches, WriteRequest(s)
  PROVE  ExecInv'
<1> DEFINE request == [q |-> asked[s], v |-> io.version]
<1>1. /\ at[s] = "writing" /\ io' = [io EXCEPT !.in = Append(@, request)]
      /\ at' = [at EXCEPT ![s] = "reading"]
      /\ UNCHANGED <<warm, holder, asked, answer, respawns>>
      /\ holder = s /\ io # NoChild /\ io \in Child /\ Quiet(io)
  BY NoChildAssumption DEF WriteRequest, ExecInv, ExecTypeOK
<1>2. request \in InLines /\ request.q = asked[s]
  BY <1>1, ChildFields DEF InLines, ExecInv, ExecTypeOK
<1> HIDE DEF request
<1>3. /\ Append(<<>>, request) \in Seq(InLines) /\ Len(Append(<<>>, request)) = 1
      /\ Append(<<>>, request)[1] = request
  BY <1>2, OneLine
<1> DEFINE in == Append(<<>>, request)
<1>6. io' = [io EXCEPT !.in = in] /\ io.out = <<>>
  BY <1>1, ChildFields DEF Quiet
<1> HIDE DEF in
<1>4. io' \in Child /\ Carries(io', asked[s])
  BY <1>1, <1>2, <1>3, <1>6, ChildFields DEF Carries, in
<1>5. io' # NoChild
  BY <1>4, NoChildAssumption
<1> QED
  BY <1>1, <1>4, <1>5 DEF ExecInv, ExecTypeOK, OwnAnswer

\* The line read is the only one, and the child is quiet again.
LEMMA LineRead ==
  ASSUME ExecInv, NEW s \in Searches, at[s] = "reading", io.out # <<>>
  PROVE  /\ io \in Child /\ io # NoChild /\ holder = s
         /\ io.in = <<>> /\ Tail(io.out) = <<>> /\ Line.q = asked[s]
<1>1. io \in Child /\ io # NoChild /\ holder = s /\ Carries(io, asked[s])
  BY NoChildAssumption DEF ExecInv, ExecTypeOK
<1>2. io.out \in Seq(OutLines)
  BY <1>1, ChildFields
<1>3. io.in = <<>> /\ Len(io.out) = 1 /\ io.out[1].q = asked[s]
  BY <1>1 DEF Carries
<1>4. Tail(io.out) = <<>> /\ Head(io.out) = io.out[1]
  BY <1>2, <1>3, OnlyLine
<1> QED
  BY <1>1, <1>3, <1>4 DEF Line

LEMMA DowngradeInv ==
  ASSUME ExecInv, NEW s \in Searches, Downgrade(s)
  PROVE  ExecInv'
<1>1. /\ at[s] = "reading" /\ io.out # <<>>
      /\ io' = [io EXCEPT !.out = Tail(@), !.version = 1]
      /\ at' = [at EXCEPT ![s] = "writing"]
      /\ UNCHANGED <<warm, holder, asked, answer, respawns>>
  BY DEF Downgrade
<1>2. /\ io \in Child /\ io # NoChild /\ holder = s
      /\ io.in = <<>> /\ Tail(io.out) = <<>>
  BY <1>1, LineRead
<1>3. io' \in Child /\ Quiet(io')
  BY <1>1, <1>2, ChildFields DEF Quiet
<1>4. io' # NoChild
  BY <1>3, NoChildAssumption
<1> QED
  BY <1>1, <1>2, <1>3, <1>4 DEF ExecInv, ExecTypeOK, OwnAnswer

LEMMA ReadAnswerInv ==
  ASSUME ExecInv, NEW s \in Searches, ReadAnswer(s)
  PROVE  ExecInv'
<1>1. /\ at[s] = "reading" /\ io.out # <<>>
      /\ warm' = [io EXCEPT !.out = Tail(@)]
      /\ io' = NoChild /\ holder' = NoChild
      /\ at' = [at EXCEPT ![s] = "idle"]
      /\ answer' = [answer EXCEPT ![s] = Line.q]
      /\ UNCHANGED <<asked, respawns>>
  BY DEF ReadAnswer
<1>2. /\ io \in Child /\ io # NoChild /\ holder = s
      /\ io.in = <<>> /\ Tail(io.out) = <<>> /\ Line.q = asked[s]
  BY <1>1, LineRead
<1>3. warm' \in Child /\ Quiet(warm')
  BY <1>1, <1>2, ChildFields DEF Quiet
<1> QED
  BY <1>1, <1>2, <1>3, NoChildAssumption DEF ExecInv, ExecTypeOK, OwnAnswer

\* Whoever leaves without an answer takes the child along.
LEMMA LeaveInv ==
  ASSUME ExecInv, NEW s \in Searches, NEW result \in {NoAnswer, Failed},
         at[s] \in {"writing", "reading"}, Leave(s, result)
  PROVE  ExecInv'
<1>1. holder = s
  BY DEF ExecInv
<1> QED
  BY <1>1, NoChildAssumption DEF Leave, ExecInv, ExecTypeOK, OwnAnswer

\* The child reads the request and writes its one line, or dies.
LEMMA ChildInv ==
  ASSUME ExecInv, ChildReplies \/ ChildDies
  PROVE  ExecInv'
<1>1. CASE ChildReplies
  <2>1. PICK kind \in Replies \cup {"rejects"} :
          /\ io # NoChild /\ io.in # <<>>
          /\ io' = [io EXCEPT !.in = Tail(@),
                      !.out = Append(@, [kind |-> kind, q |-> Head(io.in).q])]
          /\ UNCHANGED <<warm, holder, at, asked, answer, respawns>>
    BY <1>1 DEF ChildReplies
  <2>2. io \in Child
    BY <2>1 DEF ExecInv, ExecTypeOK
  <2>3. PICK s \in Searches : holder = s
    BY <2>1 DEF ExecInv, ExecTypeOK
  <2>4. at[s] = "reading" /\ Carries(io, asked[s])
    BY <2>1, <2>3 DEF ExecInv, Quiet
  <2>5. /\ io.in \in Seq(InLines) /\ io.out = <<>>
        /\ Len(io.in) = 1 /\ io.in[1].q = asked[s] /\ asked[s] \in Queries
    BY <2>1, <2>2, <2>4, ChildFields DEF Carries, ExecInv, ExecTypeOK
  <2>6. Head(io.in) = io.in[1] /\ Tail(io.in) = <<>>
    BY <2>5, OnlyLine
  <2> DEFINE line == [kind |-> kind, q |-> asked[s]]
  <2>7. line \in OutLines /\ line.q = asked[s]
    BY <2>5 DEF OutLines
  <2> DEFINE out == Append(<<>>, line)
  <2>8. io' = [io EXCEPT !.in = <<>>, !.out = out]
    BY <2>1, <2>2, <2>5, <2>6, ChildFields
  <2> HIDE DEF line
  <2>9. out \in Seq(OutLines) /\ Len(out) = 1 /\ out[1] = line
    BY <2>7, OneLine
  <2> HIDE DEF out
  <2>10. /\ io' \in Child
         /\ io'.in = <<>> /\ Len(io'.out) = 1 /\ io'.out[1].q = asked[s]
    BY <2>2, <2>7, <2>8, <2>9, ChildFields
  <2>11. io' # NoChild
    BY <2>10, NoChildAssumption
  <2>12. \A u \in Searches : at[u] \in {"writing", "reading"} => u = s
    BY <2>3 DEF ExecInv
  <2> QED
    BY <2>1, <2>4, <2>10, <2>11, <2>12 DEF ExecInv, ExecTypeOK, OwnAnswer, Carries
<1>2. CASE ChildDies
  <2>1. UNCHANGED <<holder, at, asked, answer, respawns>>
    BY <1>2 DEF ChildDies
  <2>2. CASE io # NoChild /\ io' = [io EXCEPT !.up = FALSE] /\ UNCHANGED warm
    <3>1. io \in Child /\ io' \in Child /\ io'.in = io.in /\ io'.out = io.out
      BY <2>2 DEF ExecInv, ExecTypeOK, Child
    <3>2. io' # NoChild
      BY <3>1, NoChildAssumption
    <3> QED
      BY <2>1, <2>2, <3>1, <3>2 DEF ExecInv, ExecTypeOK, OwnAnswer, Carries, Quiet
  <2>3. CASE warm # NoChild /\ warm' = [warm EXCEPT !.up = FALSE] /\ UNCHANGED io
    <3>1. warm \in Child /\ warm' \in Child /\ Quiet(warm')
      BY <2>3 DEF ExecInv, ExecTypeOK, Child, Quiet
    <3> QED
      BY <2>1, <2>3, <3>1 DEF ExecInv, ExecTypeOK, OwnAnswer
  <2> QED
    BY <1>2, <2>2, <2>3 DEF ChildDies, Live
<1> QED
  BY <1>1, <1>2

LEMMA ExecNextInv == ExecInv /\ [ExecNext]_execVars => ExecInv'
<1> SUFFICES ASSUME ExecInv, [ExecNext]_execVars PROVE ExecInv'
  OBVIOUS
<1>1. ASSUME NEW s \in Searches, NEW q \in Queries, CallSearch(s, q) PROVE ExecInv'
  <2>1. at[s] \notin {"writing", "reading"}
    BY <1>1 DEF CallSearch
  <2> QED
    BY <1>1, <2>1 DEF CallSearch, ExecInv, ExecTypeOK, OwnAnswer
<1>2. ASSUME NEW s \in Searches, RoundTripFails(s) \/ DropSearch(s) PROVE ExecInv'
  <2>1. CASE \E result \in {NoAnswer, Failed} :
                at[s] \in {"writing", "reading"} /\ Leave(s, result)
    BY <2>1, LeaveInv
  <2>2. CASE /\ at[s] = "queued" /\ at' = [at EXCEPT ![s] = "idle"]
             /\ UNCHANGED <<warm, holder, io, asked, answer, respawns>>
    BY <2>2 DEF ExecInv, ExecTypeOK, OwnAnswer
  <2> QED
    BY <1>2, <2>1, <2>2 DEF RoundTripFails, DropSearch
<1>3. CASE Respawn
  <2>1. warm' # NoChild => warm' \in Child /\ Quiet(warm')
    BY <1>3, SpawnedQuiet DEF Respawn, ExecInv, ExecTypeOK
  <2>2. respawns' \in Nat
    BY <1>3 DEF Respawn, ExecInv, ExecTypeOK
  <2> QED
    BY <1>3, <2>1, <2>2 DEF Respawn, ExecInv, ExecTypeOK, OwnAnswer
<1>4. CASE UNCHANGED execVars
  BY <1>4 DEF execVars, ExecInv, ExecTypeOK, OwnAnswer
<1> QED
  BY <1>1, <1>2, <1>3, <1>4, EnsureChildInv, WriteRequestInv, DowngradeInv, ReadAnswerInv,
     ChildInv DEF ExecNext

\* A search returns the results of its own query, whatever earlier searches of
\* the same process timed out, were dropped or were rejected with: the line
\* protocol has no correlation, only the mutex and the kill (exec.rs).
THEOREM ExecAnswersItsOwn == ExecSpec => []OwnAnswer
<1>1. ExecInv => OwnAnswer
  BY DEF ExecInv
<1> QED
  BY <1>1, ExecInitInv, ExecNextInv, PTL DEF ExecSpec

-----------------------------------------------------------------------------
(* The configuration.                                                      *)

Phases == {"idle", "candidate", "valid", "save", "rename", "apply"}
Edits  == TomlEdits \cup FormEdits \cup {[on |-> flag] : flag \in {"on", "off"}}
Jobs   == [at : Phases, kind : {"toml", "form", None}, edit : Edits \cup {None},
           tree : Trees \cup {None}]

\* A tree that may be on disk or live: it loads, and holds no placeholder.
Settled(tree) == tree \in Trees /\ Loadable(tree) /\ tree.key # Redacted

ConfigTyped ==
  /\ env \in [key : {None, KE}, pin : {None, "off"}]
  /\ disk \in Trees \cup {None} /\ bootMode \in BOOLEAN
  /\ lock \in Editors \cup {None}
  /\ job \in [Editors -> Jobs]

\* The live configuration is the resolution of its raw tree, but for the mode.
LiveInv ==
  /\ Settled(live.raw)
  /\ live.res = [Resolve(live.raw) EXCEPT !.public = bootMode]
  /\ live.templated = Templated(live.raw)
  /\ runtime = Derived(live)

\* The file is the live raw tree, but between a rename and its hot apply.
DiskInv ==
  /\ Settled(RawOf(disk))
  /\ (\A e \in Editors : job[e].at # "apply") => live.raw = RawOf(disk)

LockInv == \A e \in Editors : job[e].at \in {"save", "rename", "apply"} <=> lock = e

\* What an edit in progress holds, phase by phase.
JobInv(e) ==
  /\ job[e].at # "idle" => job[e].tree \in Trees
  /\ job[e].at \in {"valid", "save", "rename", "apply"} => Settled(job[e].tree)
  /\ job[e].at = "candidate" /\ job[e].kind = "form" => job[e].tree.key # Redacted
  /\ job[e].at = "rename" => tmp = job[e].tree
  /\ job[e].at = "apply" => disk = job[e].tree /\ \A g \in Editors \ {e} : g \in raced

\* An edit no other save has committed under differs from the live tree in the
\* fields it names; a document, in what the display did to the others too, the
\* key being the one shown until the placeholder is put back.
FieldsKept(e) ==
  e \notin raced /\ job[e].at \in {"candidate", "valid", "save", "rename"} =>
     IF job[e].kind = "form"
     THEN \A f \in DOMAIN live.raw \ DOMAIN job[e].edit : job[e].tree[f] = live.raw[f]
     ELSE "key" \notin DOMAIN job[e].edit =>
             job[e].tree.key = IF job[e].at = "candidate" THEN Display(live).key
                               ELSE Overlaid(live.raw).key

ConfigInv ==
  /\ ConfigTyped /\ LiveInv /\ DiskInv /\ LockInv
  /\ \A e \in Editors : JobInv(e)
  /\ \A e \in Editors : FieldsKept(e)

\* A tree is its three leaves.
LEMMA TreeFields ==
  ASSUME NEW t \in Trees
  PROVE  /\ DOMAIN t = {"public", "key", "on"}
         /\ t.public \in BOOLEAN /\ t.on \in Flags
         /\ t.key \in {"", Template, BadTemplate, Redacted, K1, K2, KE}
  BY DEF Trees

LEMMA TreeMade ==
  ASSUME NEW p \in BOOLEAN, NEW o \in Flags,
         NEW k \in {"", Template, BadTemplate, Redacted, K1, K2, KE}
  PROVE  [public |-> p, key |-> k, on |-> o] \in Trees
  BY DEF Trees

LEMMA EditsNamed ==
  ASSUME NEW edit \in Edits
  PROVE  /\ DOMAIN edit \subseteq {"public", "key", "on"}
         /\ "public" \in DOMAIN edit => edit["public"] \in BOOLEAN
         /\ "on" \in DOMAIN edit => edit["on"] \in Flags
         /\ "key" \in DOMAIN edit => edit["key"] \in {Template, BadTemplate, K2}
<1>1. \/ edit = [key |-> K2] \/ edit = [key |-> BadTemplate] \/ edit = [key |-> Template]
      \/ edit = [public |-> TRUE] \/ \E flag \in {"on", "off"} : edit = [on |-> flag]
  BY DEF Edits, TomlEdits, FormEdits
<1>2. CASE \E key \in {Template, BadTemplate, K2} : edit = [key |-> key]
  BY <1>2
<1>3. CASE edit = [public |-> TRUE]
  BY <1>3
<1>4. CASE \E flag \in {"on", "off"} : edit = [on |-> flag]
  BY <1>4 DEF Flags
<1> QED
  BY <1>1, <1>2, <1>3, <1>4

\* An edit put over a tree: a tree again, the same where it names nothing.
LEMMA EditPut ==
  ASSUME NEW t \in Trees, NEW edit \in Edits
  PROVE  /\ With(t, edit) \in Trees
         /\ \A f \in DOMAIN t \ DOMAIN edit : With(t, edit)[f] = t[f]
         /\ t.key # Redacted => With(t, edit).key # Redacted
         /\ "key" \notin DOMAIN edit => With(t, edit).key = t.key
<1> DEFINE w == With(t, edit)
<1>1. /\ DOMAIN t = {"public", "key", "on"}
      /\ t.public \in BOOLEAN /\ t.on \in Flags
      /\ t.key \in {"", Template, BadTemplate, Redacted, K1, K2, KE}
  BY TreeFields
<1>2. /\ w = [f \in {"public", "key", "on"} |-> IF f \in DOMAIN edit THEN edit[f] ELSE t[f]]
      /\ \A f \in DOMAIN t \ DOMAIN edit : w[f] = t[f]
  BY <1>1 DEF With
<1>3. w.public \in BOOLEAN /\ w.on \in Flags
      /\ w.key \in {"", Template, BadTemplate, Redacted, K1, K2, KE}
  BY <1>1, <1>2, EditsNamed
<1>4. w = [public |-> w.public, key |-> w.key, on |-> w.on]
  BY <1>2
<1>5. w \in Trees
  BY <1>3, <1>4, TreeMade
<1>6. /\ t.key # Redacted => w.key # Redacted
      /\ "key" \notin DOMAIN edit => w.key = t.key
  BY <1>1, <1>2, EditsNamed, KeysDiffer
<1> QED
  BY <1>2, <1>5, <1>6

\* The environment replaces the key and nothing else.
LEMMA OverlaidKey ==
  ASSUME NEW t \in Trees
  PROVE  Overlaid(t).key = IF env.key = None THEN t.key ELSE env.key
<1>1. DOMAIN t = {"public", "key", "on"}
  BY TreeFields
<1>2. CASE env.key = None
  <2>1. EnvOverrides = <<>> /\ "key" \notin DOMAIN EnvOverrides
    BY <1>2 DEF EnvOverrides
  <2> QED
    BY <1>1, <1>2, <2>1 DEF Overlaid, With
<1>3. CASE env.key # None
  <2>1. EnvOverrides = [key |-> env.key]
    BY <1>3 DEF EnvOverrides
  <2> QED
    BY <1>1, <1>3, <2>1 DEF Overlaid, With
<1> QED
  BY <1>2, <1>3

\* A settled tree resolves to a key that is no placeholder, and is in the file
\* or in the environment.
LEMMA SettledKey ==
  ASSUME ConfigTyped, NEW t, Settled(t)
  PROVE  /\ Overlaid(t).key \in {"", Template, K1, K2, KE}
         /\ Overlaid(t).key \in {t.key} \cup ({env.key} \ {None})
<1>1. t.key \in {"", Template, BadTemplate, Redacted, K1, K2, KE} /\ t.key # Redacted
  BY TreeFields DEF Settled
<1>2. Overlaid(t).key # BadTemplate
  BY DEF Settled, Loadable
<1>3. Overlaid(t).key = IF env.key = None THEN t.key ELSE env.key
  BY OverlaidKey DEF Settled
<1>4. env.key \in {None, KE}
  BY DEF ConfigTyped
<1> QED
  BY <1>1, <1>2, <1>3, <1>4

\* What GET shows is a tree; of its key only a template, or that there is one.
LEMMA Displayed ==
  ASSUME ConfigTyped, LiveInv
  PROVE  /\ Display(live) \in Trees
         /\ Display(live).key = IF live.templated THEN Template
                                ELSE IF Overlaid(live.raw).key = "" THEN "" ELSE Redacted
<1>1. /\ live.raw \in Trees /\ live.raw.public \in BOOLEAN /\ live.raw.on \in Flags
      /\ bootMode \in BOOLEAN /\ env.pin \in {None, "off"}
  BY TreeFields DEF LiveInv, Settled, ConfigTyped
<1>2. /\ live.res = [public |-> bootMode, key |-> Resolve(live.raw).key, on |-> Resolve(live.raw).on]
      /\ Resolve(live.raw).on \in Flags
      /\ ~Templated(live.raw) => Resolve(live.raw).key = Overlaid(live.raw).key
  BY <1>1 DEF LiveInv, Resolve, Flags
<1>3. live.res.public \in BOOLEAN /\ live.res.on \in Flags
  BY <1>1, <1>2
<1>4. ~live.templated => live.res.key = Overlaid(live.raw).key
  BY <1>2 DEF LiveInv
<1>5. Display(live).key = IF live.templated THEN Template
                          ELSE IF live.res.key = "" THEN "" ELSE Redacted
  BY DEF Display
<1>6. Display(live).key \in {"", Template, BadTemplate, Redacted, K1, K2, KE}
  BY <1>5
<1>7. Display(live) \in Trees
  BY <1>3, <1>6 DEF Display, Trees
<1> QED
  BY <1>4, <1>5, <1>7

\* Putting the placeholder back leaves no placeholder, and nothing else changed;
\* the key GET showed becomes the one in force.
LEMMA PutBack ==
  ASSUME ConfigTyped, LiveInv, NEW t \in Trees
  PROVE  /\ Restored(live, t) \in Trees /\ Restored(live, t).key # Redacted
         /\ t.key # Redacted => Restored(live, t) = t
         /\ t.key = Display(live).key => Restored(live, t).key = Overlaid(live.raw).key
<1>1. Overlaid(live.raw).key \in {"", Template, K1, K2, KE}
  BY SettledKey DEF LiveInv
<1>2. Source(live) = Overlaid(live.raw).key
  BY DEF LiveInv, Source, Templated, Resolve
<1>3. CASE t.key # Redacted
  <2>1. Restored(live, t) = t
    BY <1>3 DEF Restored
  <2>2. t.key = Display(live).key => t.key = Overlaid(live.raw).key
    BY <1>3, Displayed DEF LiveInv, Templated
  <2> QED
    BY <1>3, <2>1, <2>2
<1>4. CASE t.key = Redacted
  <2> DEFINE source == Source(live)
  <2>1. Restored(live, t) = [t EXCEPT !.key = source]
    BY <1>4 DEF Restored
  <2>2. source \in {"", Template, BadTemplate, Redacted, K1, K2, KE} /\ source # Redacted
    BY <1>1, <1>2, KeysDiffer
  <2> HIDE DEF source
  <2>3. [t EXCEPT !.key = source] \in Trees /\ [t EXCEPT !.key = source].key = source
    BY <2>2 DEF Trees
  <2> QED
    BY <1>2, <1>4, <2>1, <2>2, <2>3 DEF source
<1> QED
  BY <1>3, <1>4

\* Nothing changes the environment of the process, so what it does to a tree
\* stays the same.
LEMMA EnvFixed ==
  ASSUME env' = env, NEW t
  PROVE  /\ (Overlaid(t))' = Overlaid(t) /\ (Settled(t))' = Settled(t)
         /\ (Templated(t))' = Templated(t) /\ (Resolve(t))' = Resolve(t)
  BY DEF Overlaid, With, EnvOverrides, Settled, Loadable, Templated, Resolve

LEMMA LiveStays == LiveInv /\ UNCHANGED <<env, Boot>> => LiveInv'
<1> SUFFICES ASSUME LiveInv, UNCHANGED <<env, Boot>> PROVE LiveInv'
  OBVIOUS
<1>1. env' = env /\ live' = live /\ bootMode' = bootMode /\ runtime' = runtime
  BY DEF Boot
<1> QED
  BY <1>1 DEF LiveInv, Overlaid, With, EnvOverrides, Settled, Loadable, Templated, Resolve

LEMMA FieldsStay ==
  ASSUME NEW g \in Editors, FieldsKept(g), UNCHANGED <<env, live>>, job'[g] = job[g],
         g \in raced => g \in raced'
  PROVE  FieldsKept(g)'
  BY DEF FieldsKept, Overlaid, With, EnvOverrides, Display

\* A step of one editor short of the rename and the hot apply: its own phase
\* facts are to be shown, all else stays.
LEMMA JobMoves ==
  ASSUME ConfigInv, NEW e \in Editors, NEW to \in Jobs, job' = [job EXCEPT ![e] = to],
         UNCHANGED <<env, disk, Boot>>, job[e].at # "apply", to.at # "apply",
         \/ lock = None /\ tmp' = tmp
            /\ IF to.at = "save" THEN lock' = e
               ELSE lock' = None /\ to.at \in {"idle", "candidate", "valid"}
         \/ lock = e
            /\ IF to.at = "idle" THEN lock' = None ELSE lock' = e /\ to.at \in {"save", "rename"},
         raced' = raced \/ (lock = None /\ raced' = raced \ {e}),
         JobInv(e)', FieldsKept(e)'
  PROVE  ConfigInv'
<1>1. /\ env' = env /\ live' = live /\ disk' = disk /\ job \in [Editors -> Jobs]
      /\ job' \in [Editors -> Jobs] /\ job'[e] = to
      /\ \A g \in Editors \ {e} : job'[g] = job[g]
  BY DEF Boot, ConfigInv, ConfigTyped
<1>2. ConfigTyped'
  BY <1>1, NoneIsNone DEF ConfigInv, ConfigTyped, Boot
<1>3. LiveInv'
  BY LiveStays DEF ConfigInv
<1>4. DiskInv'
  <2>1. Settled(RawOf(disk))'
    BY <1>1 DEF ConfigInv, DiskInv, RawOf, Settled, Loadable, Overlaid, With, EnvOverrides
  <2>2. (\A g \in Editors : job'[g].at # "apply") => \A g \in Editors : job[g].at # "apply"
    BY <1>1
  <2> QED
    BY <1>1, <2>1, <2>2 DEF ConfigInv, DiskInv, RawOf
<1>5. LockInv'
  BY <1>1, NoneIsNone DEF ConfigInv, LockInv
<1>6. ASSUME NEW g \in Editors PROVE JobInv(g)'
  <2>1. CASE g = e
    BY <2>1
  <2>2. CASE g # e
    <3>1. job[g].at \notin {"rename", "apply"}
      BY <2>2, NoneIsNone DEF ConfigInv, LockInv
    <3> QED
      BY <1>1, <2>2, <3>1 DEF ConfigInv, JobInv, Settled, Loadable, Overlaid, With, EnvOverrides
  <2> QED
    BY <2>1, <2>2
<1>7. ASSUME NEW g \in Editors PROVE FieldsKept(g)'
  BY <1>1, FieldsStay DEF ConfigInv
<1> QED
  BY <1>2, <1>3, <1>4, <1>5, <1>6, <1>7 DEF ConfigInv

\* What a document or a form becomes when it is read or merged.
LEMMA ConfigGetInv ==
  ASSUME ConfigInv, NEW e \in Editors, NEW edit \in TomlEdits, ConfigGet(e, edit)
  PROVE  ConfigInv'
<1> DEFINE tree == With(Display(live), edit)
           to   == [at |-> "candidate", kind |-> "toml", edit |-> edit, tree |-> tree]
<1>1. /\ lock = None /\ job[e] = Idle /\ job' = [job EXCEPT ![e] = to]
      /\ raced' = raced \ {e} /\ UNCHANGED <<env, disk, tmp, Boot, lock>>
  BY DEF ConfigGet
<1>2. edit \in Edits
  BY DEF Edits
<1>3. tree \in Trees /\ ("key" \notin DOMAIN edit => tree.key = Display(live).key)
  BY <1>2, Displayed, EditPut DEF ConfigInv
<1> HIDE DEF tree
<1>4. to \in Jobs
  BY <1>2, <1>3 DEF Jobs, Phases
<1>10. to.at = "candidate" /\ to.kind = "toml" /\ to.edit = edit /\ to.tree = tree
  OBVIOUS
<1> HIDE DEF to
<1>5. job'[e] = to
  BY <1>1 DEF ConfigInv, ConfigTyped
<1>6. JobInv(e)'
  BY <1>3, <1>5, <1>10 DEF JobInv
<1>7. live' = live
  BY <1>1 DEF Boot
<1>8. FieldsKept(e)'
  BY <1>3, <1>5, <1>10, <1>7 DEF FieldsKept, Display
<1>11. job[e].at = "idle"
  BY <1>1 DEF Idle
<1> QED
  BY <1>1, <1>4, <1>6, <1>8, <1>10, <1>11, JobMoves

LEMMA MergedKeeps ==
  ASSUME ConfigTyped, LiveInv, NEW edit \in FormEdits
  PROVE  /\ Merged(live, edit) \in Trees /\ Merged(live, edit).key # Redacted
         /\ \A f \in DOMAIN live.raw \ DOMAIN edit : Merged(live, edit)[f] = live.raw[f]
<1>1. edit \in Edits /\ live.raw \in Trees /\ live.raw.key # Redacted
  BY DEF Edits, LiveInv, Settled
<1> QED
  BY <1>1, EditPut DEF Merged

LEMMA MergeFormInv ==
  ASSUME ConfigInv, NEW e \in Editors, NEW edit \in FormEdits, MergeForm(e, edit)
  PROVE  ConfigInv'
<1> DEFINE tree == Merged(live, edit)
           to   == [at |-> "candidate", kind |-> "form", edit |-> edit, tree |-> tree]
<1>1. /\ lock = None /\ job[e] = Idle /\ job' = [job EXCEPT ![e] = to]
      /\ raced' = raced \ {e} /\ UNCHANGED <<env, disk, tmp, Boot, lock>>
  BY DEF MergeForm
<1>2. edit \in Edits
  BY DEF Edits
<1>3. /\ tree \in Trees /\ tree.key # Redacted
      /\ \A f \in DOMAIN live.raw \ DOMAIN edit : tree[f] = live.raw[f]
  BY MergedKeeps DEF ConfigInv
<1> HIDE DEF tree
<1>4. to \in Jobs
  BY <1>2, <1>3 DEF Jobs, Phases
<1>10. to.at = "candidate" /\ to.kind = "form" /\ to.edit = edit /\ to.tree = tree
  OBVIOUS
<1> HIDE DEF to
<1>5. job'[e] = to
  BY <1>1 DEF ConfigInv, ConfigTyped
<1>6. JobInv(e)'
  BY <1>3, <1>5, <1>10 DEF JobInv
<1>7. live' = live
  BY <1>1 DEF Boot
<1>8. FieldsKept(e)'
  BY <1>3, <1>5, <1>10, <1>7 DEF FieldsKept
<1>11. job[e].at = "idle"
  BY <1>1 DEF Idle
<1> QED
  BY <1>1, <1>4, <1>6, <1>8, <1>10, <1>11, JobMoves

LEMMA SetEngineInv ==
  ASSUME ConfigInv, NEW e \in Editors, NEW flag \in {"on", "off"}, SetEngineEnabled(e, flag)
  PROVE  ConfigInv'
<1> DEFINE edit == [on |-> flag]
           tree == With(live.raw, edit)
           to   == [at |-> "save", kind |-> "form", edit |-> edit, tree |-> tree]
<1>1. /\ lock = None /\ job[e] = Idle /\ Loadable(tree) /\ lock' = e
      /\ job' = [job EXCEPT ![e] = to]
      /\ raced' = raced \ {e} /\ UNCHANGED <<env, disk, tmp, Boot>>
  BY DEF SetEngineEnabled
<1>2. edit \in Edits
  BY DEF Edits
<1> HIDE DEF edit
<1>3. /\ tree \in Trees /\ tree.key # Redacted
      /\ \A f \in DOMAIN live.raw \ DOMAIN edit : tree[f] = live.raw[f]
  BY <1>2, EditPut DEF ConfigInv, LiveInv, Settled
<1>9. Settled(tree)
  BY <1>1, <1>3 DEF Settled
<1> HIDE DEF tree
<1>4. to \in Jobs
  BY <1>2, <1>3 DEF Jobs, Phases
<1>10. to.at = "save" /\ to.kind = "form" /\ to.edit = edit /\ to.tree = tree
  OBVIOUS
<1> HIDE DEF to
<1>5. job'[e] = to
  BY <1>1 DEF ConfigInv, ConfigTyped
<1>7. live' = live /\ env' = env
  BY <1>1 DEF Boot
<1>6. JobInv(e)'
  BY <1>3, <1>5, <1>10, <1>7, <1>9 DEF JobInv, Settled, Loadable, Overlaid, With, EnvOverrides
<1>8. FieldsKept(e)'
  BY <1>3, <1>5, <1>10, <1>7 DEF FieldsKept
<1>11. job[e].at = "idle"
  BY <1>1 DEF Idle
<1> QED
  BY <1>1, <1>4, <1>6, <1>8, <1>10, <1>11, JobMoves

\* The placeholder is put back before the candidate is validated.
LEMMA RestoreInv ==
  ASSUME ConfigInv, NEW e \in Editors, RestoreRedacted(e)
  PROVE  ConfigInv'
<1> DEFINE tree == Restored(live, job[e].tree)
           good == [job[e] EXCEPT !.at = "valid", !.tree = tree]
<1>1. /\ lock = None /\ job[e].at = "candidate"
      /\ job' = [job EXCEPT ![e] = IF Loadable(tree) THEN good ELSE Idle]
      /\ UNCHANGED <<env, disk, tmp, Boot, lock, raced>>
  BY DEF RestoreRedacted
<1>2. job[e] \in Jobs /\ job[e].tree \in Trees
  BY <1>1 DEF ConfigInv, ConfigTyped, JobInv
<1>3. /\ tree \in Trees /\ tree.key # Redacted
      /\ job[e].tree.key # Redacted => tree = job[e].tree
      /\ job[e].tree.key = Display(live).key => tree.key = Overlaid(live.raw).key
  BY <1>2, PutBack DEF ConfigInv
<1>4. live' = live /\ env' = env
  BY <1>1 DEF Boot
<1>5. CASE Loadable(tree)
  <2>1. Settled(tree)
    BY <1>3, <1>5 DEF Settled
  <2> HIDE DEF tree
  <2>2. /\ good \in Jobs /\ good.at = "valid" /\ good.tree = tree
        /\ good.kind = job[e].kind /\ good.edit = job[e].edit
    BY <1>2, <1>3 DEF Jobs, Phases
  <2> HIDE DEF good
  <2>3. job' = [job EXCEPT ![e] = good] /\ job'[e] = good
    BY <1>1, <1>5 DEF ConfigInv, ConfigTyped
  <2>4. JobInv(e)'
    BY <1>3, <1>4, <2>1, <2>2, <2>3
       DEF JobInv, Settled, Loadable, Overlaid, With, EnvOverrides
  <2>5. ASSUME e \notin raced, job[e].kind = "form"
        PROVE  \A f \in DOMAIN live.raw \ DOMAIN good.edit : tree[f] = live.raw[f]
    <3>1. job[e].tree.key # Redacted
      BY <1>1, <2>5 DEF ConfigInv, JobInv
    <3> QED
      BY <1>1, <1>3, <2>2, <2>5, <3>1 DEF ConfigInv, FieldsKept
  <2>6. ASSUME e \notin raced, job[e].kind # "form", "key" \notin DOMAIN good.edit
        PROVE  tree.key = Overlaid(live.raw).key
    BY <1>1, <1>3, <2>2, <2>6 DEF ConfigInv, FieldsKept
  <2>7. (Overlaid(live.raw))' = Overlaid(live.raw)
    BY <1>4 DEF Overlaid, With, EnvOverrides
  <2>8. FieldsKept(e)'
    BY <1>1, <1>4, <2>2, <2>3, <2>5, <2>6, <2>7 DEF FieldsKept
  <2> QED
    BY <1>1, <2>2, <2>3, <2>4, <2>8, JobMoves
<1>6. CASE ~Loadable(tree)
  <2>1. Idle \in Jobs /\ Idle.at = "idle"
    BY DEF Idle, Jobs, Phases
  <2>2. job' = [job EXCEPT ![e] = Idle] /\ job'[e] = Idle
    BY <1>1, <1>6 DEF ConfigInv, ConfigTyped
  <2>3. JobInv(e)' /\ FieldsKept(e)'
    BY <2>1, <2>2 DEF JobInv, FieldsKept
  <2> QED
    BY <1>1, <2>1, <2>2, <2>3, JobMoves
<1> QED
  BY <1>5, <1>6

LEMMA CommitInv ==
  ASSUME ConfigInv, NEW e \in Editors, CommitConfig(e)
  PROVE  ConfigInv'
<1> DEFINE to == [job[e] EXCEPT !.at = "save"]
<1>1. /\ lock = None /\ job[e].at = "valid" /\ lock' = e
      /\ job' = [job EXCEPT ![e] = to]
      /\ UNCHANGED <<env, disk, tmp, Boot, raced>>
  BY DEF CommitConfig
<1>2. job[e] \in Jobs
  BY DEF ConfigInv, ConfigTyped
<1>3. /\ to \in Jobs /\ to.at = "save" /\ to.tree = job[e].tree
      /\ to.kind = job[e].kind /\ to.edit = job[e].edit
  BY <1>2 DEF Jobs, Phases
<1> HIDE DEF to
<1>4. job'[e] = to /\ live' = live /\ env' = env
  BY <1>1 DEF ConfigInv, ConfigTyped, Boot
<1>5. JobInv(e)'
  BY <1>1, <1>3, <1>4 DEF ConfigInv, JobInv, Settled, Loadable, Overlaid, With, EnvOverrides
<1>6. FieldsKept(e)'
  BY <1>1, <1>3, <1>4 DEF ConfigInv, FieldsKept, Overlaid, With, EnvOverrides
<1> QED
  BY <1>1, <1>3, <1>5, <1>6, JobMoves

LEMMA WriteInv ==
  ASSUME ConfigInv, NEW e \in Editors, WriteTemporary(e)
  PROVE  ConfigInv'
<1> DEFINE to == [job[e] EXCEPT !.at = "rename"]
<1>1. /\ job[e].at = "save" /\ tmp' = job[e].tree
      /\ job' = [job EXCEPT ![e] = to]
      /\ UNCHANGED <<env, disk, Boot, lock, raced>>
  BY DEF WriteTemporary
<1>2. job[e] \in Jobs /\ lock = e
  BY <1>1 DEF ConfigInv, ConfigTyped, LockInv
<1>3. /\ to \in Jobs /\ to.at = "rename" /\ to.tree = job[e].tree
      /\ to.kind = job[e].kind /\ to.edit = job[e].edit
  BY <1>2 DEF Jobs, Phases
<1> HIDE DEF to
<1>4. job'[e] = to /\ live' = live /\ env' = env
  BY <1>1 DEF ConfigInv, ConfigTyped, Boot
<1>5. JobInv(e)'
  BY <1>1, <1>3, <1>4 DEF ConfigInv, JobInv, Settled, Loadable, Overlaid, With, EnvOverrides
<1>6. FieldsKept(e)'
  BY <1>1, <1>3, <1>4 DEF ConfigInv, FieldsKept, Overlaid, With, EnvOverrides
<1> QED
  BY <1>1, <1>2, <1>3, <1>5, <1>6, JobMoves

LEMMA SaveFailsInv ==
  ASSUME ConfigInv, NEW e \in Editors, SaveFails(e)
  PROVE  ConfigInv'
<1>1. /\ job[e].at \in {"save", "rename"} /\ job' = [job EXCEPT ![e] = Idle]
      /\ lock' = None /\ UNCHANGED <<env, disk, Boot, raced>>
  BY DEF SaveFails
<1>2. lock = e /\ Idle \in Jobs /\ Idle.at = "idle"
  BY <1>1 DEF ConfigInv, LockInv, Idle, Jobs, Phases
<1>3. job'[e] = Idle
  BY <1>1 DEF ConfigInv, ConfigTyped
<1>4. JobInv(e)' /\ FieldsKept(e)'
  BY <1>2, <1>3 DEF JobInv, FieldsKept
<1> QED
  BY <1>1, <1>2, <1>4, JobMoves

\* The saver is the only one past the lock, so the file it puts in place is the
\* one it holds; every other edit is raced from here on.
LEMMA RenameInv ==
  ASSUME ConfigInv, NEW e \in Editors, Rename(e)
  PROVE  ConfigInv'
<1> DEFINE to == [job[e] EXCEPT !.at = "apply"]
<1>1. /\ job[e].at = "rename" /\ disk' = tmp /\ job' = [job EXCEPT ![e] = to]
      /\ raced' = raced \cup (Editors \ {e}) /\ UNCHANGED <<env, Boot, lock>>
  BY DEF Rename
<1>2. /\ job[e] \in Jobs /\ lock = e /\ tmp = job[e].tree /\ Settled(job[e].tree)
      /\ job[e].tree # None
  BY <1>1, NoneIsNone DEF ConfigInv, ConfigTyped, LockInv, JobInv, Settled
<1>3. /\ to \in Jobs /\ to.at = "apply" /\ to.tree = job[e].tree
  BY <1>2 DEF Jobs, Phases
<1> HIDE DEF to
<1>4. /\ job'[e] = to /\ live' = live /\ env' = env /\ lock' = lock /\ job' \in [Editors -> Jobs]
      /\ \A g \in Editors \ {e} : job'[g] = job[g] /\ job[g].at \notin {"save", "rename", "apply"}
  BY <1>1, <1>2, <1>3 DEF ConfigInv, ConfigTyped, LockInv, Boot
<1>5. ConfigTyped'
  BY <1>1, <1>2, <1>4 DEF ConfigInv, ConfigTyped, Settled, Boot
<1>6. LiveInv'
  BY <1>1, LiveStays DEF ConfigInv
<1>7. DiskInv'
  <2>1. RawOf(disk)' = job[e].tree
    BY <1>1, <1>2 DEF RawOf
  <2>2. Settled(RawOf(disk))'
    BY <1>2, <1>4, <2>1 DEF Settled, Loadable, Overlaid, With, EnvOverrides, RawOf
  <2> QED
    BY <1>3, <1>4, <2>2 DEF DiskInv
<1>8. LockInv'
  BY <1>1, <1>2, <1>3, <1>4 DEF ConfigInv, LockInv
<1>9. ASSUME NEW g \in Editors PROVE JobInv(g)'
  BY <1>1, <1>2, <1>3, <1>4
     DEF ConfigInv, JobInv, Settled, Loadable, Overlaid, With, EnvOverrides
<1>10. ASSUME NEW g \in Editors PROVE FieldsKept(g)'
  BY <1>1, <1>3, <1>4 DEF FieldsKept
<1> QED
  BY <1>5, <1>6, <1>7, <1>8, <1>9, <1>10 DEF ConfigInv

LEMMA HotApplyInv ==
  ASSUME ConfigInv, NEW e \in Editors, HotApply(e)
  PROVE  ConfigInv'
<1> DEFINE tree == job[e].tree
<1>1. /\ job[e].at = "apply" /\ live' = Committed(live, tree) /\ runtime' = Derived(Committed(live, tree))
      /\ job' = [job EXCEPT ![e] = Idle] /\ lock' = None
      /\ UNCHANGED <<env, disk, tmp, bootMode, raced>>
  BY DEF HotApply
<1>2. /\ lock = e /\ disk = tree /\ Settled(tree) /\ RawOf(disk) = tree
      /\ \A g \in Editors \ {e} : g \in raced
  BY <1>1, NoneIsNone DEF ConfigInv, LockInv, JobInv, Settled, RawOf
<1> HIDE DEF tree
<1>3. Idle \in Jobs /\ Idle.at = "idle"
  BY DEF Idle, Jobs, Phases
<1>4. /\ job'[e] = Idle /\ job' \in [Editors -> Jobs]
      /\ \A g \in Editors \ {e} : job'[g] = job[g] /\ job[g].at \notin {"save", "rename", "apply"}
  BY <1>1, <1>2, <1>3 DEF ConfigInv, ConfigTyped, LockInv
<1>5. ConfigTyped'
  BY <1>1, <1>4 DEF ConfigInv, ConfigTyped
<1>6. /\ live'.raw = tree /\ live'.templated = Templated(tree)
      /\ live'.res = [Resolve(tree) EXCEPT !.public = bootMode]
  <2>1. live.res.public = bootMode
    BY DEF ConfigInv, LiveInv, Resolve
  <2> QED
    BY <1>1, <2>1 DEF Committed, FromRaw
<1>7. LiveInv'
  BY <1>1, <1>2, <1>6
     DEF LiveInv, Settled, Loadable, Overlaid, With, EnvOverrides, Resolve, Templated, Derived
<1>8. DiskInv'
  <2>1. Settled(RawOf(disk))'
    BY <1>1, <1>2 DEF RawOf, Settled, Loadable, Overlaid, With, EnvOverrides
  <2>2. live'.raw = RawOf(disk)'
    BY <1>1, <1>2, <1>6 DEF RawOf
  <2> QED
    BY <2>1, <2>2 DEF DiskInv
<1>9. LockInv'
  BY <1>1, <1>3, <1>4, NoneIsNone DEF LockInv
<1>10. ASSUME NEW g \in Editors PROVE JobInv(g)' /\ FieldsKept(g)'
  <2>1. CASE g = e
    BY <1>3, <1>4, <2>1 DEF JobInv, FieldsKept
  <2>2. CASE g # e
    BY <1>1, <1>2, <1>4, <2>2
       DEF ConfigInv, JobInv, FieldsKept, Settled, Loadable, Overlaid, With, EnvOverrides
  <2> QED
    BY <2>1, <2>2
<1> QED
  BY <1>5, <1>7, <1>8, <1>9, <1>10 DEF ConfigInv

\* A boot, the first or a later one, from a file that loads.
JustBooted ==
  /\ env \in [key : {None, KE}, pin : {None, "off"}] /\ disk \in Trees \cup {None}
  /\ Settled(RawOf(disk)) /\ live = FromRaw(RawOf(disk)) /\ bootMode = live.res.public
  /\ runtime = Derived(live) /\ job = [e \in Editors |-> Idle] /\ lock = None

LEMMA Booted == JustBooted => ConfigInv
<1> SUFFICES ASSUME JustBooted PROVE ConfigInv
  OBVIOUS
<1> USE DEF JustBooted
<1>1. Idle \in Jobs /\ Idle.at = "idle"
  BY DEF Idle, Jobs, Phases
<1>2. \A e \in Editors : job[e] = Idle
  OBVIOUS
<1> DEFINE raw == RawOf(disk)
<1>3. /\ live.raw = raw /\ live.res = Resolve(raw) /\ live.templated = Templated(raw)
      /\ bootMode = raw.public /\ bootMode \in BOOLEAN
      /\ live.res = [Resolve(raw) EXCEPT !.public = bootMode]
  BY TreeFields DEF FromRaw, Resolve, Settled
<1>4. ConfigTyped
  BY <1>1, <1>3 DEF ConfigTyped
<1>5. LiveInv
  BY <1>3 DEF LiveInv
<1>6. DiskInv
  BY <1>3 DEF DiskInv
<1>7. LockInv
  BY <1>1, <1>2, NoneIsNone DEF LockInv
<1>8. ASSUME NEW e \in Editors PROVE JobInv(e) /\ FieldsKept(e)
  BY <1>1, <1>2 DEF JobInv, FieldsKept
<1> QED
  BY <1>4, <1>5, <1>6, <1>7, <1>8 DEF ConfigInv

LEMMA ConfigInitInv == ConfigInit => ConfigInv
<1> SUFFICES ASSUME ConfigInit PROVE ConfigInv
  OBVIOUS
<1>1. env \in [key : {None, KE}, pin : {None, "off"}]
  BY DEF ConfigInit
<1>2. Defaults \in Trees /\ Defaults.key = ""
  BY DEF Defaults, Trees, Flags
<1>3. \A k \in {Template, K1} :
         [Defaults EXCEPT !.key = k] \in Trees /\ [Defaults EXCEPT !.key = k].key = k
  BY <1>2 DEF Trees
<1>4. /\ disk \in Trees \cup {None} /\ RawOf(disk) \in Trees
      /\ RawOf(disk).key \in {"", Template, K1}
  BY <1>2, <1>3, NoneIsNone DEF ConfigInit, RawOf
<1>5. Overlaid(RawOf(disk)).key \in {"", Template, K1, KE}
  BY <1>1, <1>4, OverlaidKey
<1>6. Settled(RawOf(disk))
  BY <1>5, <1>4, KeysDiffer DEF Settled, Loadable
<1> QED
  BY <1>1, <1>6, <1>4, Booted DEF ConfigInit, JustBooted

LEMMA RestartInv == ConfigInv /\ RestartServer => ConfigInv'
<1> SUFFICES ASSUME ConfigInv, RestartServer PROVE ConfigInv'
  OBVIOUS
<1>1. (JustBooted => ConfigInv)'
  BY Booted, PTL
<1>2. /\ live' = FromRaw(RawOf(disk)) /\ bootMode' = live'.res.public
      /\ runtime' = Derived(live') /\ job' = [e \in Editors |-> Idle] /\ lock' = None
      /\ env' = env /\ disk' = disk
  BY DEF RestartServer
<1>3. Settled(RawOf(disk))
  BY DEF ConfigInv, DiskInv
<1>4. JustBooted'
  BY <1>2, <1>3 DEF JustBooted, ConfigInv, ConfigTyped, RawOf, Settled, Loadable, Overlaid, With,
     EnvOverrides, FromRaw, Resolve, Templated, Derived
<1> QED
  BY <1>1, <1>4

LEMMA ConfigNextInv == ConfigInv /\ [ConfigNext]_configVars => ConfigInv'
<1> SUFFICES ASSUME ConfigInv, [ConfigNext]_configVars PROVE ConfigInv'
  OBVIOUS
<1>1. CASE UNCHANGED configVars
  <2>1. /\ env' = env /\ disk' = disk /\ tmp' = tmp /\ live' = live /\ bootMode' = bootMode
        /\ runtime' = runtime /\ lock' = lock /\ job' = job /\ raced' = raced
    BY <1>1 DEF configVars
  <2>2. LiveInv'
    BY <2>1, LiveStays DEF ConfigInv, Boot
  <2>3. ASSUME NEW e \in Editors PROVE JobInv(e)' /\ FieldsKept(e)'
    BY <2>1, FieldsStay
       DEF ConfigInv, JobInv, Settled, Loadable, Overlaid, With, EnvOverrides
  <2>4. DiskInv' /\ LockInv' /\ ConfigTyped'
    BY <2>1 DEF ConfigInv, ConfigTyped, DiskInv, LockInv, RawOf, Settled, Loadable, Overlaid,
       With, EnvOverrides
  <2> QED
    BY <2>2, <2>3, <2>4 DEF ConfigInv
<1> QED
  BY <1>1, ConfigGetInv, MergeFormInv, SetEngineInv, RestoreInv, CommitInv, WriteInv, RenameInv,
     SaveFailsInv, HotApplyInv, RestartInv DEF ConfigNext

\* Outside a save, whatever failed, raced or crashed before, the file can be
\* booted from, and the live configuration and the runtime are its resolution in
\* the mode the process was started with (AppState::commit_locked, Config::save).
THEOREM ConfigMatchesFile == ConfigSpec => []LiveMatchesFile
<1>1. ConfigInv => LiveMatchesFile
  <2> SUFFICES ASSUME ConfigInv PROVE LiveMatchesFile
    OBVIOUS
  <2>1. Loadable(RawOf(disk))
    BY DEF ConfigInv, DiskInv, Settled
  <2>2. ASSUME lock = None
        PROVE  /\ live.raw = RawOf(disk)
               /\ live.res = [Resolve(RawOf(disk)) EXCEPT !.public = bootMode]
               /\ runtime = Derived(live)
    <3>1. \A e \in Editors : job[e].at # "apply"
      BY <2>2, NoneIsNone DEF ConfigInv, LockInv
    <3> QED
      BY <3>1 DEF ConfigInv, DiskInv, LiveInv
  <2> QED
    BY <2>1, <2>2 DEF LiveMatchesFile
<1> QED
  BY <1>1, ConfigInitInv, ConfigNextInv, PTL DEF ConfigSpec

\* Only a rename takes an edit from the save to the apply.
LEMMA RenamesAlone ==
  ASSUME ConfigInv, [ConfigNext]_configVars, NEW e \in Editors,
         job[e].at = "rename", job'[e].at = "apply"
  PROVE  Rename(e)
<1>1. job \in [Editors -> Jobs]
  BY DEF ConfigInv, ConfigTyped
<1>2. ASSUME NEW g \in Editors,
             \/ \E edit \in TomlEdits : ConfigGet(g, edit)
             \/ \E edit \in FormEdits : MergeForm(g, edit)
             \/ \E flag \in {"on", "off"} : SetEngineEnabled(g, flag)
      PROVE  FALSE
  BY <1>1, <1>2 DEF ConfigGet, MergeForm, SetEngineEnabled
<1>3. ASSUME NEW g \in Editors, RestoreRedacted(g) \/ CommitConfig(g)
      PROVE  FALSE
  BY <1>1, <1>3 DEF RestoreRedacted, CommitConfig
<1>4. ASSUME NEW g \in Editors, WriteTemporary(g) \/ SaveFails(g) \/ HotApply(g)
      PROVE  FALSE
  BY <1>1, <1>4 DEF WriteTemporary, SaveFails, HotApply, Idle
<1>5. ASSUME NEW g \in Editors, Rename(g) PROVE Rename(e)
  BY <1>1, <1>5 DEF Rename
<1>6. ~RestartServer
  BY DEF RestartServer, Idle
<1>7. ~UNCHANGED configVars
  BY DEF configVars
<1> QED
  BY <1>2, <1>3, <1>4, <1>5, <1>6, <1>7 DEF ConfigNext

\* A save no other save committed under leaves alone what it does not name: a
\* form or a toggle every other leaf of the file, a document put back the secret
\* behind the placeholder (merge_form_config, restore_redacted, commit_config).
THEOREM ConfigSavesItsFields == ConfigSpec => SavesOnlyItsFields
<1> DEFINE Kept ==
      \A e \in Editors :
          job[e].at = "rename" /\ job'[e].at = "apply" /\ e \notin raced =>
             LET before == RawOf(disk)
                 named  == DOMAIN job[e].edit IN
             IF job[e].kind = "form"
             THEN \A f \in DOMAIN before \ named : disk'[f] = before[f]
             ELSE "key" \notin named =>
                     disk'.key \in {before.key} \cup ({env.key} \ {None})
<1>1. ConfigInv /\ [ConfigNext]_configVars => Kept
  <2> SUFFICES ASSUME ConfigInv, [ConfigNext]_configVars, NEW e \in Editors,
                      job[e].at = "rename", job'[e].at = "apply", e \notin raced
               PROVE  IF job[e].kind = "form"
                      THEN \A f \in DOMAIN RawOf(disk) \ DOMAIN job[e].edit :
                              disk'[f] = RawOf(disk)[f]
                      ELSE "key" \notin DOMAIN job[e].edit =>
                              disk'.key \in {RawOf(disk).key} \cup ({env.key} \ {None})
    OBVIOUS
  <2>1. Rename(e)
    BY RenamesAlone
  <2>2. disk' = job[e].tree
    BY <2>1 DEF Rename, ConfigInv, JobInv
  <2>3. live.raw = RawOf(disk)
    <3>1. \A g \in Editors : job[g].at # "apply"
      BY NoneIsNone DEF ConfigInv, LockInv
    <3> QED
      BY <3>1 DEF ConfigInv, DiskInv
  <2>4. CASE job[e].kind = "form"
    BY <2>2, <2>3, <2>4 DEF ConfigInv, FieldsKept
  <2>5. CASE job[e].kind # "form"
    <3>1. "key" \notin DOMAIN job[e].edit => disk'.key = Overlaid(RawOf(disk)).key
      BY <2>2, <2>3, <2>5 DEF ConfigInv, FieldsKept
    <3>2. Overlaid(RawOf(disk)).key \in {RawOf(disk).key} \cup ({env.key} \ {None})
      BY SettledKey DEF ConfigInv, DiskInv
    <3> QED
      BY <2>5, <3>1, <3>2
  <2> QED
    BY <2>4, <2>5
<1>2. ConfigInv /\ [ConfigNext]_configVars => [Kept]_configVars
  BY <1>1
<1> HIDE DEF Kept
<1>3. ConfigSpec => [][Kept]_configVars
  BY <1>2, ConfigInitInv, ConfigNextInv, PTL DEF ConfigSpec
<1> QED
  BY <1>3 DEF SavesOnlyItsFields, Kept

-----------------------------------------------------------------------------
(* The terminal interface.                                                 *)

SearchFlights == [at : {"streaming", "closing", "over"}, keys : SUBSET Keys]
AskStates     == {"streaming", "closing", "over"}
Turns == [flight : Nat, assist : BOOLEAN, got : SUBSET Nat, bare : BOOLEAN,
          streaming : BOOLEAN, done : BOOLEAN]

\* The list holds a url once, from flights of the chain; the newest flight is in
\* the chain, and is over when `n' is enabled.
ListInv ==
  /\ searches \in Seq(SearchFlights) /\ searching \in BOOLEAN
  /\ rows \subseteq [flight : Nat, key : Keys]
  /\ \A r, t \in rows : r.key = t.key => r = t
  /\ \A r \in rows : r.flight \in chain
  /\ SearchGen > 0 => SearchGen \in chain
  /\ ~searching => (SearchGen > 0 => searches[SearchGen].at = "over")

\* Every ask opens one turn, so a flight's turn has its number.
PaneInv ==
  /\ asks \in Seq(AskStates) /\ turns \in Seq(Turns) /\ Len(turns) = Len(asks)
  /\ \A i \in DOMAIN turns : turns[i].flight = i /\ turns[i].got \subseteq {i}

\* Rows with different keys are as many as their keys.
LEMMA OneRowPerKey ==
  ASSUME ListInv
  PROVE  Cardinality({r.key : r \in rows}) = Cardinality(rows)
<1> DEFINE K == {r.key : r \in rows}
           f == [r \in rows |-> r.key]
<1>1. IsFiniteSet(K)
  <2>1. K \subseteq Keys
    BY DEF ListInv
  <2> QED
    BY <2>1, KeysAssumption, FS_Subset
<1>2. f \in [rows -> K] /\ (\A a, b \in rows : f[a] = f[b] => a = b)
  BY DEF ListInv
<1>3. f \in Injection(rows, K)
  BY <1>2 DEF Injection, IsInjective
<1>4. f \in Surjection(rows, K)
  BY <1>2 DEF Surjection
<1> HIDE DEF K, f
<1>5. Cardinality(rows) = Cardinality(K)
  BY <1>1, <1>3, <1>4, FS_Injection
<1> QED
  BY <1>5 DEF K

LEMMA TuiInvShows == ListInv /\ PaneInv => OnlyCurrentFlightsShow
  BY OneRowPerKey DEF ListInv, PaneInv, OnlyCurrentFlightsShow

LEMMA TuiInitInv == TuiInit => ListInv /\ PaneInv
<1> SUFFICES ASSUME TuiInit PROVE ListInv /\ PaneInv
  OBVIOUS
<1>1. searches = <<>> /\ asks = <<>> /\ turns = <<>> /\ rows = {} /\ searching = FALSE
  BY DEF TuiInit
<1>2. ListInv
  <2>1. searches \in Seq(SearchFlights) /\ SearchGen = 0
    BY <1>1, EmptySeq DEF SearchGen
  <2>2. searching \in BOOLEAN
    BY <1>1
  <2>3. rows = {}
    BY <1>1
  <2> QED
    BY <2>1, <2>2, <2>3 DEF ListInv
<1>3. PaneInv
  BY <1>1, EmptySeq DEF PaneInv
<1> QED
  BY <1>2, <1>3

\* What starting a search does to the flights, and to the flag.
LEMMA SearchStarted ==
  ASSUME ListInv, StartSearch
  PROVE  /\ searches' \in Seq(SearchFlights) /\ searching' \in BOOLEAN
         /\ Len(searches') >= Len(searches)
         /\ ~searching' /\ Len(searches') > 0 => searches'[Len(searches')].at = "over"
<1>1. CASE box = Blank
  BY <1>1 DEF StartSearch, ListInv, SearchGen
<1>2. CASE box # Blank
  <2> DEFINE flight == [at |-> "streaming", keys |-> {}]
  <2>1. searches' = Append(searches, flight) /\ searching' = TRUE
    BY <1>2 DEF StartSearch
  <2>2. flight \in SearchFlights
    BY DEF SearchFlights
  <2> HIDE DEF flight
  <2> QED
    BY <2>1, <2>2 DEF ListInv
<1> QED
  BY <1>1, <1>2

\* A message of flight f changes f alone, and keeps what the list is to satisfy
\* when no row is added.
LEMMA FlightMoves ==
  ASSUME ListInv, NEW f \in DOMAIN searches, NEW to \in {"closing", "over"}, SearchTo(f, to),
         UNCHANGED <<rows, chain>>,
         \/ searching' = searching /\ searches[f].at = "streaming"
         \/ to = "over" /\ searching' = (searching /\ f # SearchGen)
  PROVE  ListInv'
<1> DEFINE new == [searches[f] EXCEPT !.at = to]
<1>0. f \in 1..Len(searches) /\ searches[f] \in SearchFlights
  BY DEF ListInv
<1>1. /\ searches' \in Seq(SearchFlights) /\ Len(searches') = Len(searches)
      /\ searches'[f].at = to
      /\ \A g \in 1..Len(searches) : g # f => searches'[g] = searches[g]
  <2>1. searches' = [searches EXCEPT ![f] = new]
    BY DEF SearchTo
  <2>2. new \in SearchFlights /\ new.at = to
    BY <1>0 DEF SearchFlights
  <2> HIDE DEF new
  <2> QED
    BY <1>0, <2>1, <2>2, ExceptSeq DEF ListInv
<1>2. searching' \in BOOLEAN
  BY Zenon DEF ListInv
<1>3. ~searching' => (SearchGen > 0 => searches'[SearchGen].at = "over")
  BY <1>0, <1>1, <1>2 DEF ListInv, SearchGen
<1> QED
  BY <1>1, <1>2, <1>3 DEF ListInv, SearchGen

LEMMA ResultsInv ==
  ASSUME ListInv, NEW f \in DOMAIN searches, NEW keys \in SUBSET Keys, ResultsArrive(f, keys)
  PROVE  ListInv'
<1>1. /\ searches' = [searches EXCEPT ![f].keys = @ \cup keys]
      /\ UNCHANGED <<searching, chain>> /\ f \in 1..Len(searches)
  BY DEF ResultsArrive, ListInv
<1> DEFINE new == [searches[f] EXCEPT !.keys = @ \cup keys]
<1>2. searches[f] \in SearchFlights
  BY <1>1 DEF ListInv
<1>3. /\ searches' \in Seq(SearchFlights) /\ Len(searches') = Len(searches)
      /\ \A g \in 1..Len(searches) : searches'[g].at = searches[g].at
  <2>1. searches' = [searches EXCEPT ![f] = new]
    BY <1>1
  <2>2. new \in SearchFlights /\ new.at = searches[f].at
    BY <1>2 DEF SearchFlights
  <2> HIDE DEF new
  <2>3. /\ searches' \in Seq(SearchFlights) /\ Len(searches') = Len(searches)
        /\ \A g \in 1..Len(searches) : searches'[g] = IF g = f THEN new ELSE searches[g]
    <3>1. searches \in Seq(SearchFlights) /\ f \in 1..Len(searches)
      BY <1>1 DEF ListInv
    <3> QED
      BY <3>1, <2>1, <2>2, ExceptSeq
  <2> QED
    BY <2>2, <2>3
<1>4. CASE f # SearchGen
  BY <1>1, <1>3, <1>4 DEF ResultsArrive, TakeResults, ListInv, SearchGen
<1>5. CASE f = SearchGen
  <2> DEFINE fresh == {[flight |-> f, key |-> k] : k \in keys \ {r.key : r \in rows}}
  <2>1. rows' = rows \cup fresh
    BY <1>5 DEF ResultsArrive, TakeResults
  <2>2. /\ fresh \subseteq [flight : Nat, key : Keys]
        /\ \A r \in fresh : r.flight = f /\ \A t \in rows : t.key # r.key
        /\ \A r, t \in fresh : r.key = t.key => r = t
    BY <1>1
  <2>3. f \in chain
    BY <1>1, <1>5 DEF ListInv
  <2> HIDE DEF fresh
  <2>4. \A r, t \in rows' : r.key = t.key => r = t
    BY <2>1, <2>2 DEF ListInv
  <2> QED
    BY <1>1, <1>3, <2>1, <2>2, <2>3, <2>4 DEF ListInv, SearchGen
<1> QED
  BY <1>4, <1>5

\* The panes do not touch the list, nor the list the panes.
LEMMA ListStays == ListInv /\ UNCHANGED <<rows, searching, searches, chain>> => ListInv'
  BY DEF ListInv, SearchGen

LEMMA PaneStays == PaneInv /\ UNCHANGED <<asks, turns>> => PaneInv'
  BY DEF PaneInv

LEMMA ListNextInv == ListInv /\ [TuiNext]_tuiVars => ListInv'
<1> SUFFICES ASSUME ListInv, [TuiNext]_tuiVars PROVE ListInv'
  OBVIOUS
<1>1. CASE EnterSearch
  <2>1. StartSearch /\ rows' = {} /\ chain' = {Len(searches')}
    BY <1>1 DEF EnterSearch
  <2> QED
    BY <2>1, SearchStarted DEF ListInv, SearchGen
<1>2. CASE NextPage
  <2>1. StartSearch /\ rows' = rows /\ chain' = chain \cup {Len(searches')}
    BY <1>2 DEF NextPage
  <2> QED
    BY <2>1, SearchStarted DEF ListInv, SearchGen
<1>3. ASSUME NEW f \in DOMAIN searches,
             MetaArrives(f) \/ SearchErrs(f) \/ SearchDone(f)
      PROVE  ListInv'
  <2>1. CASE MetaArrives(f)
    BY <2>1, FlightMoves DEF MetaArrives
  <2>2. CASE SearchErrs(f)
    BY <2>2, FlightMoves DEF SearchErrs
  <2>3. CASE SearchDone(f)
    BY <2>3, FlightMoves DEF SearchDone
  <2> QED
    BY <1>3, <2>1, <2>2, <2>3
<1>4. CASE ToggleAi \/ EnterAsk \/ StartAssist
           \/ (\E text \in Boxes \cup {Blank} : Edit(text))
           \/ (\E to \in {"input", "results"} : MoveFocus(to))
           \/ (\E f \in DOMAIN asks : FrameArrives(f) \/ DoneArrives(f) \/ AskEnds(f))
           \/ UNCHANGED tuiVars
  BY <1>4, ListStays DEF ToggleAi, EnterAsk, StartAssist, Edit, MoveFocus, FrameArrives,
     DoneArrives, AskEnds, tuiVars, listing
<1> QED
  BY <1>1, <1>2, <1>3, <1>4, ResultsInv DEF TuiNext

\* Opening a turn: its number is that of its flight.
LEMMA TurnOpens ==
  ASSUME PaneInv, NEW assist \in BOOLEAN, NEW bare \in BOOLEAN, OpenTurn(assist, bare)
  PROVE  PaneInv'
<1> DEFINE turn == [flight |-> AskGen + 1, assist |-> assist, got |-> {},
                    bare |-> bare, streaming |-> TRUE, done |-> FALSE]
<1>1. asks' = Append(asks, "streaming") /\ turns' = Append(turns, turn)
  BY DEF OpenTurn
<1>2. turn \in Turns /\ turn.flight = Len(turns) + 1 /\ turn.got = {}
  BY DEF Turns, PaneInv, AskGen
<1> HIDE DEF turn
<1>3. "streaming" \in AskStates
  BY DEF AskStates
<1>4. /\ asks' \in Seq(AskStates) /\ turns' \in Seq(Turns)
      /\ Len(turns') = Len(turns) + 1 /\ Len(asks') = Len(asks) + 1
      /\ turns'[Len(turns) + 1] = turn
      /\ \A i \in 1..Len(turns) : turns'[i] = turns[i]
  BY <1>1, <1>2, <1>3 DEF PaneInv
<1> QED
  BY <1>2, <1>4 DEF PaneInv

\* A frame of the current flight goes into the last turn, which is its own.
LEMMA TurnWritten ==
  ASSUME PaneInv, asks' \in Seq(AskStates), Len(asks') = Len(asks),
         NEW last \in Turns, last.flight = AskGen, last.got \subseteq {AskGen}, AskGen > 0,
         turns' = [turns EXCEPT ![Len(turns)] = last]
  PROVE  PaneInv'
<1>1. /\ turns' \in Seq(Turns) /\ Len(turns') = Len(turns) /\ turns'[Len(turns)] = last
      /\ \A i \in 1..Len(turns) : i # Len(turns) => turns'[i] = turns[i]
  BY DEF PaneInv, AskGen
<1> QED
  BY <1>1 DEF PaneInv, AskGen

LEMMA PaneNextInv == PaneInv /\ [TuiNext]_tuiVars => PaneInv'
<1> SUFFICES ASSUME PaneInv, [TuiNext]_tuiVars PROVE PaneInv'
  OBVIOUS
<1> DEFINE last == turns[Len(turns)]
<1>1. CASE EnterAsk \/ StartAssist
  BY <1>1, TurnOpens DEF EnterAsk, StartAssist
<1>2. ASSUME NEW f \in DOMAIN asks PROVE /\ last \in Turns /\ last.flight = AskGen
                                         /\ last.got \subseteq {AskGen} /\ AskGen > 0
  BY <1>2 DEF PaneInv, AskGen
<1>3. AskGen \in Nat
  BY DEF PaneInv, AskGen
<1>4. ASSUME NEW f \in DOMAIN asks, FrameArrives(f) PROVE PaneInv'
  <2>1. CASE f # AskGen
    BY <1>4, <2>1, PaneStays DEF FrameArrives, Into
  <2>2. CASE f = AskGen
    <3> DEFINE new == [last EXCEPT !.got = @ \cup {f}]
    <3>1. turns' = [turns EXCEPT ![Len(turns)] = new] /\ asks' = asks
      BY <1>4, <2>2 DEF FrameArrives, Into, LastTurn
    <3>2. new \in Turns /\ new.flight = AskGen /\ new.got \subseteq {AskGen} /\ AskGen > 0
      BY <1>2, <1>3, <2>2 DEF Turns
    <3> HIDE DEF new
    <3> QED
      BY <3>1, <3>2, TurnWritten DEF PaneInv
  <2> QED
    BY <2>1, <2>2
<1>5. ASSUME NEW f \in DOMAIN asks, DoneArrives(f) PROVE PaneInv'
  <2>1. asks' \in Seq(AskStates) /\ Len(asks') = Len(asks)
    BY <1>5 DEF DoneArrives, PaneInv, AskStates
  <2>2. CASE f # AskGen
    BY <1>5, <2>1, <2>2 DEF DoneArrives, Into, PaneInv
  <2>3. CASE f = AskGen
    <3> DEFINE done == [last EXCEPT !.streaming = FALSE, !.done = TRUE]
               new  == [done EXCEPT !.got = @ \cup {f}]
    <3>1. turns' = [turns EXCEPT ![Len(turns)] = new]
      BY <1>5, <2>3 DEF DoneArrives, Into, LastTurn
    <3>2. new \in Turns /\ new.flight = AskGen /\ new.got \subseteq {AskGen} /\ AskGen > 0
      BY <1>2, <1>3, <2>3 DEF Turns
    <3> HIDE DEF new
    <3> QED
      BY <2>1, <3>1, <3>2, TurnWritten
  <2> QED
    BY <2>2, <2>3
<1>6. ASSUME NEW f \in DOMAIN asks, AskEnds(f) PROVE PaneInv'
  <2>1. asks' \in Seq(AskStates) /\ Len(asks') = Len(asks)
    BY <1>6 DEF AskEnds, PaneInv, AskStates
  <2>2. CASE f # AskGen
    BY <1>6, <2>1, <2>2 DEF AskEnds, PaneInv
  <2>3. CASE f = AskGen
    <3> DEFINE new == [last EXCEPT !.streaming = FALSE]
    <3>1. turns' = [turns EXCEPT ![Len(turns)] = new]
      BY <1>6, <2>3 DEF AskEnds
    <3>2. new \in Turns /\ new.flight = AskGen /\ new.got \subseteq {AskGen} /\ AskGen > 0
      BY <1>2 DEF Turns
    <3> HIDE DEF new
    <3> QED
      BY <2>1, <3>1, <3>2, TurnWritten
  <2> QED
    BY <2>2, <2>3
<1>7. CASE EnterSearch \/ NextPage \/ ToggleAi
           \/ (\E text \in Boxes \cup {Blank} : Edit(text))
           \/ (\E to \in {"input", "results"} : MoveFocus(to))
           \/ (\E f \in DOMAIN searches :
                 \/ \E keys \in SUBSET Keys \ {{}} : ResultsArrive(f, keys)
                 \/ MetaArrives(f) \/ SearchErrs(f) \/ SearchDone(f))
           \/ UNCHANGED tuiVars
  BY <1>7, PaneStays DEF EnterSearch, NextPage, ToggleAi, Edit, MoveFocus, ResultsArrive,
     MetaArrives, SearchErrs, SearchDone, tuiVars, pane
<1> QED
  BY <1>1, <1>4, <1>5, <1>6, <1>7 DEF TuiNext

\* No superseded flight reaches the screen, though every older one goes on
\* sending: the list holds rows of the searches started since it was last
\* cleared, once per url, and a turn the frames of its own flight (tui.rs).
THEOREM TuiShowsTheCurrent == TuiSpec => []OnlyCurrentFlightsShow
<1>1. ListInv /\ PaneInv /\ [TuiNext]_tuiVars => (ListInv /\ PaneInv)'
  BY ListNextInv, PaneNextInv
<1> QED
  BY <1>1, TuiInvShows, TuiInitInv, PTL DEF TuiSpec

-----------------------------------------------------------------------------
(* The page archive.                                                       *)

UrlType == [scheme : STRING, host : STRING, tracked : BOOLEAN]

\* Every url a fetch is about may be fetched; past the queue it is one the
\* guard has let through; what is to be stored has been served.
FetchSound(f) ==
  \/ fetch[f] = NoFetch
  \/ /\ fetch[f] \in [at : {"queued", "dial", "await"}, url : UrlType, hops : Nat]
     /\ CheckScheme(fetch[f].url)
     /\ fetch[f].at # "queued" => CheckUrl(fetch[f].url)
  \/ /\ fetch[f] \in [at : {"put"}, url : UrlType, text : Texts]
     /\ CheckUrl(fetch[f].url)
     /\ [url |-> fetch[f].url, text |-> fetch[f].text] \in served

ArchiveInv ==
  /\ fetch = [f \in Fetches |-> fetch[f]]
  /\ \A f \in Fetches : FetchSound(f)
  /\ RowsAreFetchedPages

\* A normal form keeps the scheme and the host, and is its own normal form.
LEMMA NormalForm ==
  ASSUME NEW u \in UrlType
  PROVE  /\ Normal(u) \in UrlType /\ Normal(Normal(u)) = Normal(u)
         /\ CheckScheme(u) => CheckScheme(Normal(u))
  BY DEF UrlType, Normal, CheckScheme

\* A step that moves one fetch and leaves the archive alone: the fetch moved is
\* to be sound, the others stay so.
LEMMA FetchMoves ==
  ASSUME ArchiveInv, NEW f \in Fetches, NEW where, Go(f, where),
         UNCHANGED <<allowPrivate, pages>>, served \subseteq served',
         FetchSound(f)', "private" \in dialed' => allowPrivate
  PROVE  ArchiveInv'
<1>1. /\ fetch' = [g \in Fetches |-> fetch'[g]]
      /\ \A g \in Fetches \ {f} : fetch'[g] = fetch[g]
  BY DEF Go, ArchiveInv
<1>2. ASSUME NEW g \in Fetches PROVE FetchSound(g)'
  BY <1>1 DEF FetchSound, ArchiveInv, CheckUrl
<1>3. RowsAreFetchedPages'
  BY DEF RowsAreFetchedPages, ArchiveInv
<1> QED
  BY <1>1, <1>2, <1>3 DEF ArchiveInv

LEMMA ArchiveInitInv == ArchiveInit => ArchiveInv
<1> SUFFICES ASSUME ArchiveInit PROVE ArchiveInv
  OBVIOUS
<1>1. DOMAIN pages = {}
  BY DEF ArchiveInit
<1> QED
  BY <1>1 DEF ArchiveInit, ArchiveInv, FetchSound, RowsAreFetchedPages

\* The address dialed is one the guard and the resolver agree to.
LEMMA DialsAllowed ==
  ASSUME NEW u, CheckUrl(u), NEW addrs \in Resolutions(u.host), "private" \in addrs
  PROVE  allowPrivate
  BY DEF CheckUrl, Resolutions

\* What is known of a fetch that is not over, nor about to be stored.
LEMMA OnItsWay ==
  ASSUME NEW f \in Fetches, FetchSound(f), fetch[f].at \in {"queued", "dial", "await"}
  PROVE  /\ fetch[f] \in [at : {"queued", "dial", "await"}, url : UrlType, hops : Nat]
         /\ CheckScheme(fetch[f].url)
         /\ fetch[f].at # "queued" => CheckUrl(fetch[f].url)
<1>1. fetch[f] # NoFetch
  BY DEF NoFetch
<1>2. ~ fetch[f] \in [at : {"put"}, url : UrlType, text : Texts]
  OBVIOUS
<1> QED
  BY <1>1, <1>2 DEF FetchSound

LEMMA ArchiveNextInv == ArchiveInv /\ [ArchiveNext]_archiveVars => ArchiveInv'
<1> SUFFICES ASSUME ArchiveInv, [ArchiveNext]_archiveVars PROVE ArchiveInv'
  OBVIOUS
<1> DEFINE Ready(f) == fetch[f] \in [at : {"queued", "dial", "await"}, url : UrlType, hops : Nat]
<1>1. ASSUME NEW f \in Fetches, FetchFails(f) PROVE ArchiveInv'
  <2>1. FetchSound(f)'
    BY <1>1 DEF FetchFails, Go, FetchSound, ArchiveInv
  <2> QED
    BY <1>1, <2>1, FetchMoves DEF FetchFails, ArchiveInv, RowsAreFetchedPages
<1>2. ASSUME NEW f \in Fetches, NEW u \in Urls, FetchAndIndex(f, u) PROVE ArchiveInv'
  <2>1. u \in UrlType /\ CheckScheme(u)
    BY <1>2, UrlsAssumption DEF FetchAndIndex, UrlType
  <2>2. Normal(u) \in UrlType /\ CheckScheme(Normal(u))
    BY <2>1, NormalForm
  <2>3. fetch'[f] = [at |-> "queued", url |-> Normal(u), hops |-> 0]
    BY <1>2 DEF FetchAndIndex, Go, ArchiveInv
  <2>4. FetchSound(f)'
    BY <2>2, <2>3 DEF FetchSound, CheckScheme
  <2> QED
    BY <1>2, <2>4, FetchMoves DEF FetchAndIndex, ArchiveInv, RowsAreFetchedPages
<1>3. ASSUME NEW f \in Fetches, TakeToken(f) PROVE ArchiveInv'
  <2>1. Ready(f) /\ CheckScheme(fetch[f].url)
    BY <1>3, OnItsWay DEF TakeToken, ArchiveInv
  <2>2. CASE CheckUrl(fetch[f].url)
    <3>1. fetch'[f] = [fetch[f] EXCEPT !.at = "dial"]
      BY <1>3, <2>2 DEF TakeToken, Go, ArchiveInv
    <3>2. /\ fetch'[f] \in [at : {"queued", "dial", "await"}, url : UrlType, hops : Nat]
          /\ fetch'[f].url = fetch[f].url
      BY <2>1, <3>1
    <3>3. FetchSound(f)'
      BY <1>3, <2>1, <2>2, <3>2 DEF FetchSound, CheckUrl, CheckScheme, TakeToken
    <3> QED
      BY <1>3, <3>3, FetchMoves DEF TakeToken, ArchiveInv, RowsAreFetchedPages
  <2>3. CASE ~CheckUrl(fetch[f].url)
    <3>1. FetchSound(f)'
      BY <1>3, <2>3 DEF TakeToken, Go, FetchSound, ArchiveInv
    <3> QED
      BY <1>3, <3>1, FetchMoves DEF TakeToken, ArchiveInv, RowsAreFetchedPages
  <2> QED
    BY <2>2, <2>3
<1>4. ASSUME NEW f \in Fetches, Dial(f) PROVE ArchiveInv'
  <2>1. Ready(f) /\ CheckScheme(fetch[f].url) /\ CheckUrl(fetch[f].url)
    BY <1>4, OnItsWay DEF Dial, ArchiveInv
  <2>2. fetch'[f] = [fetch[f] EXCEPT !.at = "await"]
    BY <1>4 DEF Dial, Go, ArchiveInv
  <2>3. /\ fetch'[f] \in [at : {"queued", "dial", "await"}, url : UrlType, hops : Nat]
        /\ fetch'[f].url = fetch[f].url
    BY <2>1, <2>2
  <2>4. FetchSound(f)'
    BY <1>4, <2>1, <2>3 DEF FetchSound, CheckUrl, CheckScheme, Dial
  <2>5. "private" \in dialed' => allowPrivate
    BY <1>4, <2>1, DialsAllowed DEF Dial, ArchiveInv, RowsAreFetchedPages
  <2> QED
    BY <1>4, <2>4, <2>5, FetchMoves DEF Dial
<1>5. ASSUME NEW f \in Fetches, Redirected(f) PROVE ArchiveInv'
  <2>1. PICK next \in Urls :
          /\ CheckUrl(next)
          /\ Go(f, [at |-> "dial", url |-> next, hops |-> fetch[f].hops + 1])
    BY <1>5 DEF Redirected
  <2>2. Ready(f)
    BY <1>5, OnItsWay DEF Redirected, ArchiveInv
  <2>3. fetch[f].hops + 1 \in Nat /\ next \in UrlType
    BY <2>2, UrlsAssumption DEF UrlType
  <2>4. fetch'[f] = [at |-> "dial", url |-> next, hops |-> fetch[f].hops + 1]
    BY <2>1 DEF Go, ArchiveInv
  <2>5. FetchSound(f)'
    BY <1>5, <2>1, <2>3, <2>4 DEF FetchSound, CheckUrl, CheckScheme, Redirected
  <2> QED
    BY <1>5, <2>1, <2>5, FetchMoves DEF Redirected, ArchiveInv, RowsAreFetchedPages
<1>6. ASSUME NEW f \in Fetches, Responds(f) PROVE ArchiveInv'
  <2>1. PICK text \in Texts :
          /\ served' = served \cup {[url |-> fetch[f].url, text |-> text]}
          /\ Go(f, [at |-> "put", url |-> fetch[f].url, text |-> text])
    BY <1>6 DEF Responds
  <2>2. Ready(f) /\ CheckUrl(fetch[f].url)
    BY <1>6, OnItsWay DEF Responds, ArchiveInv
  <2>3. fetch'[f] = [at |-> "put", url |-> fetch[f].url, text |-> text]
    BY <2>1 DEF Go, ArchiveInv
  <2>4. FetchSound(f)'
    BY <1>6, <2>1, <2>2, <2>3 DEF FetchSound, CheckUrl, CheckScheme, Responds
  <2> QED
    BY <1>6, <2>1, <2>4, FetchMoves DEF Responds, ArchiveInv, RowsAreFetchedPages
<1>7. ASSUME NEW f \in Fetches, PutPage(f) PROVE ArchiveInv'
  <2> DEFINE url  == fetch[f].url
             text == fetch[f].text
  <2>1. /\ url \in UrlType /\ CheckScheme(url)
        /\ [url |-> url, text |-> text] \in served
    BY <1>7 DEF PutPage, FetchSound, ArchiveInv, NoFetch, CheckUrl
  <2>2. /\ pages' = [u \in DOMAIN pages \cup {Normal(url)} |->
                       IF u = Normal(url) THEN text ELSE pages[u]]
        /\ Go(f, NoFetch) /\ UNCHANGED <<allowPrivate, tokens, dialed, served>>
    BY <1>7 DEF PutPage
  <2>3. PICK s \in served : s.url = url /\ s.text = text
    BY <2>1
  <2> HIDE DEF url, text
  <2>4. /\ CheckScheme(Normal(url)) /\ Normal(Normal(url)) = Normal(url)
        /\ Normal(s.url) = Normal(url) /\ s.text = text
    BY <2>1, <2>3, NormalForm
  <2>5. ASSUME NEW u \in DOMAIN pages'
        PROVE  /\ CheckScheme(u) /\ Normal(u) = u
               /\ \E t \in served : Normal(t.url) = u /\ t.text = pages'[u]
    <3>1. CASE u = Normal(url)
      BY <2>2, <2>4, <3>1
    <3>2. CASE u # Normal(url)
      BY <2>2, <3>2 DEF ArchiveInv, RowsAreFetchedPages
    <3> QED
      BY <3>1, <3>2
  <2>6. RowsAreFetchedPages'
    BY <2>2, <2>5 DEF ArchiveInv, RowsAreFetchedPages
  <2>7. /\ fetch' = [g \in Fetches |-> fetch'[g]]
        /\ \A g \in Fetches : fetch'[g] = fetch[g] \/ fetch'[g] = NoFetch
    BY <2>2 DEF Go, ArchiveInv
  <2>8. \A g \in Fetches : FetchSound(g)'
    BY <2>2, <2>7 DEF FetchSound, ArchiveInv, CheckUrl
  <2> QED
    BY <2>6, <2>7, <2>8 DEF ArchiveInv
<1>8. ASSUME NEW h \in FetchHosts, Refill(h) PROVE ArchiveInv'
  BY <1>8 DEF Refill, ArchiveInv, FetchSound, RowsAreFetchedPages, CheckUrl
<1>9. CASE UNCHANGED archiveVars
  BY <1>9 DEF archiveVars, ArchiveInv, FetchSound, RowsAreFetchedPages, CheckUrl
<1> QED
  BY <1>1, <1>2, <1>3, <1>4, <1>5, <1>6, <1>7, <1>8, <1>9 DEF ArchiveNext

\* However a chain of redirects runs and names resolve, no private address is
\* dialed unless the user allows it, and every row of the archive is a page that
\* its own url served, under its normal form (archive/fetch.rs, archive/mod.rs).
THEOREM ArchiveOfFetchedPages == ArchiveSpec => []RowsAreFetchedPages
<1>1. ArchiveInv => RowsAreFetchedPages
  BY DEF ArchiveInv
<1> QED
  BY <1>1, ArchiveInitInv, ArchiveNextInv, PTL DEF ArchiveSpec

-----------------------------------------------------------------------------
(* The roster of engines.                                                  *)

FileStates == {"none", "good", "unparsable", "uncompilable"}

\* What the user asked for is what the entry says, or, without one, what the
\* spec does by itself.
WishTold ==
  \A id \in EngineIds :
     wish[id] <=> IF id \in DOMAIN entries THEN entries[id]
                  ELSE specFile[id] = "good" \/ id \in Embedded \ Dormant

\* The last reply was made by the roster of now.
ReplyMade ==
  reply # NoReply =>
     /\ reply.id \in EngineIds /\ reply.page \in Pages
     /\ IF reply.id \in DOMAIN roster THEN reply.verdict \in FetchedAs(reply.page)
        ELSE reply.verdict = "not asked"

EngineInv ==
  /\ specFile \in [EngineIds -> FileStates]
  /\ \E ids \in SUBSET EngineIds : entries \in [ids -> BOOLEAN]
  /\ wish \in [EngineIds -> BOOLEAN]
  /\ built => roster = BuildEngines(entries)
  /\ WishTold
  /\ ReplyMade

\* With every spec file loadable and nothing pinned, the engines built from the
\* entries are those wished for that have a spec.
LEMMA RosterAsWished ==
  ASSUME EngineInv, built, pin = Unpinned,
         \A i \in EngineIds : specFile[i] \in {"none", "good"}, NEW id \in EngineIds
  PROVE  id \in DOMAIN roster <=> wish[id] /\ Resolves(id)
<1> DEFINE named == {i \in EnabledEntries(entries) : Resolves(i)}
<1>1. DOMAIN roster = named \cup AutoIds(entries)
  BY DEF EngineInv, BuildEngines
<1>2. CASE id \in DOMAIN entries
  <2>1. id \notin AutoIds(entries)
    BY <1>2 DEF AutoIds
  <2>2. id \in named <=> entries[id] /\ Resolves(id)
    BY <1>2 DEF EnabledEntries
  <2> QED
    BY <1>1, <1>2, <2>1, <2>2 DEF EngineInv, WishTold
<1>3. CASE id \notin DOMAIN entries
  <2>1. id \notin named
    BY <1>3 DEF EnabledEntries
  <2>2. id \in AutoIds(entries) <=> id \in DOMAIN LoadedSpecs /\ AutoRegisters(id)
    BY <1>3 DEF AutoIds
  <2>3. id \in DOMAIN LoadedSpecs <=> specFile[id] = "good" \/ id \in Embedded
    BY DEF LoadedSpecs
  <2>4. wish[id] <=> specFile[id] = "good" \/ id \in Embedded \ Dormant
    BY <1>3 DEF EngineInv, WishTold
  <2> QED
    BY <1>1, <2>1, <2>2, <2>3, <2>4 DEF AutoRegisters, Resolves
<1> QED
  BY <1>2, <1>3

\* What a call may report: results exactly of a page that has some, and never
\* of one past the cap.
LEMMA VerdictsTold ==
  ASSUME NEW page \in Pages, NEW verdict \in FetchedAs(page)
  PROVE  /\ verdict # "not asked"
         /\ verdict \in {"results", "blocked"} => (verdict = "results") = page.results
         /\ page.results /\ page.status = "ok" /\ ~page.big =>
               verdict \in {"results", "timeout", "transport"}
         /\ page.big => verdict # "results"
<1>1. page.status \in {"ok", "limited", "error"} /\ page.results \in BOOLEAN
      /\ page.marker \in BOOLEAN /\ page.big \in BOOLEAN
  BY DEF Pages
<1>2. Verdict(page) \in {"rate limited", "blocked", "transport", "results", "parse"}
  BY <1>1 DEF Verdict
<1>3. /\ Verdict(page) = "results" => page.results
      /\ Verdict(page) = "blocked" => ~page.results
      /\ page.results /\ page.status = "ok" => Verdict(page) = "results"
  BY <1>1 DEF Verdict
<1> QED
  BY <1>1, <1>2, <1>3 DEF FetchedAs

LEMMA EngineInvAnswers == EngineInv => AnswersAsWished
<1> SUFFICES ASSUME EngineInv, built, pin = Unpinned,
                    \A id \in EngineIds : specFile[id] \in {"none", "good"},
                    reply # NoReply
             PROVE  LET wished == wish[reply.id] /\ Resolves(reply.id) IN
                    /\ (reply.verdict = "not asked") = ~wished
                    /\ reply.verdict \in {"results", "blocked"} =>
                          (reply.verdict = "results") = reply.page.results
                    /\ reply.page.results /\ reply.page.status = "ok" /\ ~reply.page.big =>
                          reply.verdict \in {"results", "timeout", "transport", "not asked"}
                    /\ reply.page.big => reply.verdict # "results"
  BY DEF AnswersAsWished
<1>1. /\ reply.id \in EngineIds /\ reply.page \in Pages
      /\ IF reply.id \in DOMAIN roster THEN reply.verdict \in FetchedAs(reply.page)
         ELSE reply.verdict = "not asked"
  BY DEF EngineInv, ReplyMade
<1>2. reply.id \in DOMAIN roster <=> wish[reply.id] /\ Resolves(reply.id)
  BY <1>1, RosterAsWished
<1> QED
  BY <1>1, <1>2, VerdictsTold

LEMMA EngineInitInv == EngineInit => EngineInv
<1> SUFFICES ASSUME EngineInit PROVE EngineInv
  OBVIOUS
<1>1. PICK ids \in SUBSET EngineIds : entries \in [ids -> BOOLEAN]
  BY DEF EngineInit
<1>2. /\ specFile \in [EngineIds -> FileStates] /\ wish \in [EngineIds -> BOOLEAN]
  <2>1. \A id \in EngineIds : wish[id] \in BOOLEAN
    <3>1. SUFFICES ASSUME NEW id \in EngineIds PROVE wish[id] \in BOOLEAN
      OBVIOUS
    <3>2. CASE id \in DOMAIN entries
      BY <1>1, <3>2 DEF EngineInit
    <3>3. CASE id \notin DOMAIN entries
      BY <3>3 DEF EngineInit
    <3> QED
      BY <3>2, <3>3
  <2> QED
    BY <2>1 DEF EngineInit, FileStates
<1>3. WishTold
  BY <1>1 DEF EngineInit, WishTold
<1> QED
  BY <1>1, <1>2, <1>3 DEF EngineInit, EngineInv, ReplyMade

LEMMA EngineNextInv == EngineInv /\ [EngineNext]_engineVars => EngineInv'
<1> SUFFICES ASSUME EngineInv, [EngineNext]_engineVars PROVE EngineInv'
  OBVIOUS
<1>1. ASSUME NEW id \in EngineIds, NEW on \in BOOLEAN, Toggle(id, on) PROVE EngineInv'
  <2> DEFINE config == [e \in DOMAIN entries \cup {id} |-> IF e = id THEN on ELSE entries[e]]
  <2>1. /\ entries' = config /\ roster' = BuildEngines(config)
        /\ wish' = [wish EXCEPT ![id] = on] /\ reply' = NoReply /\ UNCHANGED <<specFile, pin>>
    BY <1>1 DEF Toggle
  <2>2. PICK ids \in SUBSET EngineIds : entries \in [ids -> BOOLEAN]
    BY DEF EngineInv
  <2>3. ids \cup {id} \in SUBSET EngineIds /\ entries' \in [ids \cup {id} -> BOOLEAN]
    BY <2>1, <2>2
  <2>4. roster' = BuildEngines(entries)'
    BY <2>1 DEF BuildEngines, EnabledEntries, Resolves, AutoIds, LoadedSpecs, AutoRegisters,
                SpecSource
  <2>5. WishTold'
    BY <2>1, <2>2 DEF EngineInv, WishTold
  <2>6. (\E s \in SUBSET EngineIds : entries \in [s -> BOOLEAN])'
    BY <2>3
  <2> QED
    BY <2>1, <2>4, <2>5, <2>6 DEF EngineInv, ReplyMade
<1>2. ASSUME NEW id \in EngineIds, NEW state \in FileStates, EditSpecFile(id, state)
      PROVE  EngineInv'
  <2>1. /\ specFile' = [specFile EXCEPT ![id] = state] /\ built' = FALSE
        /\ wish' = [wish EXCEPT ![id] =
                      IF id \in DOMAIN entries THEN @
                      ELSE state = "good" \/ id \in Embedded \ Dormant]
        /\ reply' = NoReply /\ UNCHANGED <<entries, pin, roster>>
    BY <1>2 DEF EditSpecFile
  <2>2. specFile' \in [EngineIds -> FileStates] /\ wish' \in [EngineIds -> BOOLEAN]
    BY <2>1 DEF EngineInv
  <2>3. WishTold'
    BY <2>1 DEF EngineInv, WishTold
  <2> QED
    BY <2>1, <2>2, <2>3 DEF EngineInv, ReplyMade
<1>3. ASSUME NEW id \in EngineIds, SearchEngine(id) PROVE EngineInv'
  <2>1. PICK page \in Pages :
          \E verdict \in IF id \in DOMAIN roster THEN FetchedAs(page) ELSE {"not asked"} :
             reply' = [id |-> id, page |-> page, verdict |-> verdict]
    BY <1>3 DEF SearchEngine
  <2>2. PICK verdict \in IF id \in DOMAIN roster THEN FetchedAs(page) ELSE {"not asked"} :
          reply' = [id |-> id, page |-> page, verdict |-> verdict]
    BY <2>1
  <2>3. UNCHANGED <<specFile, entries, pin, roster, built, wish>>
    BY <1>3 DEF SearchEngine
  <2>4. ReplyMade'
    BY <2>2, <2>3 DEF ReplyMade
  <2>5. BuildEngines(entries)' = BuildEngines(entries)
    BY <2>3 DEF BuildEngines, EnabledEntries, Resolves, AutoIds, LoadedSpecs, AutoRegisters,
                SpecSource
  <2> QED
    BY <2>3, <2>4, <2>5 DEF EngineInv, WishTold
<1>4. CASE Apply
  <2>1. BuildEngines(entries)' = BuildEngines(entries)
    BY <1>4 DEF Apply, BuildEngines, EnabledEntries, Resolves, AutoIds, LoadedSpecs,
                AutoRegisters, SpecSource
  <2> QED
    BY <1>4, <2>1 DEF Apply, EngineInv, WishTold, ReplyMade
<1>5. CASE UNCHANGED engineVars
  <2>1. BuildEngines(entries)' = BuildEngines(entries)
    BY <1>5 DEF engineVars, BuildEngines, EnabledEntries, Resolves, AutoIds, LoadedSpecs,
                AutoRegisters, SpecSource
  <2> QED
    BY <1>5, <2>1 DEF engineVars, EngineInv, WishTold, ReplyMade
<1> QED
  BY <1>1, <1>2, <1>3, <1>4, <1>5 DEF EngineNext, FileStates

\* While every spec file loads and nothing is pinned, a search asks the engines
\* the user last asked for and no others, and counts as results what is results
\* (factory.rs, declarative/runtime.rs, handlers/engines.rs).
THEOREM EnginesAsWished == EngineSpec => []AnswersAsWished
  BY EngineInvAnswers, EngineInitInv, EngineNextInv, PTL DEF EngineSpec

-----------------------------------------------------------------------------
(* The HTTP surface behind a shared cache.                                 *)

Settings == [admins : SUBSET Tokens, enabled : BOOLEAN, ttl : Ttls]

\* What the edge may hold for path p: a reply that is anyone's, of a version
\* that was replaced no longer ago than the entry is old.
EntrySound(p) ==
  /\ p \in SharedRows
  /\ cdn[p].body.whom = "anyone" /\ cdn[p].body.version \in Versions
  /\ \E accept \in Accepts : cdn[p].body.markdown = PrefersMarkdown(p, accept)
  /\ cdn[p].ttl \in Ttls /\ cdn[p].age \in Nat
  /\ cdn[p].age <= 2 * cdn[p].ttl
  /\ since[p][cdn[p].body.version] <= cdn[p].age

EdgeInv ==
  /\ cfg \in Settings /\ (rule = "everything" => cfg.enabled)
  /\ content \in [Paths -> Versions \cup {"gone"}]
  /\ since \in [Paths -> [Versions -> Nat]]
  /\ \A p \in Paths : content[p] # "gone" => since[p][content[p]] = 0
  /\ DOMAIN cdn \subseteq Paths
  /\ \A p \in DOMAIN cdn : EntrySound(p)
  /\ told # NothingRepeated =>
        /\ told.req \in EdgeRequests /\ told.req.path \in DOMAIN cdn
        /\ told.entry = cdn[told.req.path]

\* The rows of the table that answer a GET of a shared path are shared and open.
LEMMA SharedRowsOpen ==
  ASSUME NEW row \in ROUTES, row.method = "GET", row.path \in SharedRows
  PROVE  row.auth = "open"
<1>1. SharedRows \cap AdminGets = {}
  BY DEF SharedRows, AdminGets, UiPaths, WellKnown
<1>2. CASE \E p \in SharedRows : row = RouteSpec("GET", p, "open", "shared")
  BY <1>2 DEF RouteSpec
<1>3. CASE \E p \in AdminGets : row = RouteSpec("GET", p, "admin", "private")
  BY <1>1, <1>3 DEF RouteSpec
<1>4. CASE \E w \in AdminWrites : row = RouteSpec(w[1], w[2], "admin", "private")
  <2>1. ASSUME NEW w \in AdminWrites PROVE w[1] # "GET"
    <3>1. \E verb \in {"POST", "DELETE", "PUT"} : \E p : w = <<verb, p>>
      BY DEF AdminWrites
    <3> QED
      BY <3>1
  <2> QED
    BY <1>4, <2>1 DEF RouteSpec
<1>5. CASE \E o \in OpenRows : row = RouteSpec(o[1], o[2], "open", "private")
  BY <1>5 DEF RouteSpec
<1> QED
  BY <1>2, <1>3, <1>4, <1>5 DEF ROUTES

\* A shared cache class is that of a GET of a shared path.
LEMMA SharedClass ==
  ASSUME NEW row \in ROUTES, row.cache = "shared"
  PROVE  row.path \in SharedRows
  BY DEF ROUTES, RouteSpec

\* What is shared is anyone's.
LEMMA SharedForAnyone ==
  ASSUME NEW p \in SharedRows, NEW token
  PROVE  ForWhom(p, token) = "anyone"
<1>1. p \notin {"/api/capabilities", "/api/threads", "/api/threads/{id}"}
  BY DEF SharedRows, UiPaths, WellKnown
<1> QED
  BY <1>1 DEF ForWhom

\* What the edge keeps of the origin's replies: shared rows, as anyone sees them,
\* in the version of now.
LEMMA KeptReply ==
  ASSUME EdgeInv, NEW req \in EdgeRequests, NEW r \in OriginReplies(req), Keeps(req, r)
  PROVE  /\ req.path \in SharedRows /\ content[req.path] # "gone"
         /\ r.body = [whom |-> "anyone", markdown |-> PrefersMarkdown(req.path, req.accept),
                      version |-> content[req.path]]
<1> DEFINE exact == {row \in {x \in MountedRows : x.path = req.path} : row.method = req.method}
           row   == CHOOSE x \in exact : TRUE
<1>1. /\ exact # {} /\ content[row.path] # "gone"
      /\ r = [status |-> 200, header |-> Stamp(row, OwnHeader(row.path, req.accept)),
              body |-> BodyFor(row.path, req.token, req.accept)]
  BY DEF OriginReplies, Refused, Keeps
<1>2. row \in ROUTES /\ row.path = req.path
  BY <1>1 DEF MountedRows
<1> HIDE DEF row
<1>3. r.header = Stamp(row, OwnHeader(row.path, req.accept))
      /\ r.body = BodyFor(req.path, req.token, req.accept)
  BY <1>1, <1>2
<1>4. row.cache = "shared"
  <2>1. r.header = "public" \/ (r.header = "none" /\ cfg.enabled)
    BY DEF Keeps, EdgeInv
  <2> QED
    BY <1>3, <2>1 DEF Stamp, OwnHeader
<1>5. req.path \in SharedRows
  BY <1>2, <1>4, SharedClass
<1> QED
  BY <1>1, <1>2, <1>3, <1>5, SharedForAnyone DEF BodyFor

LEMMA EdgeInitInv == EdgeInit => EdgeInv
<1> SUFFICES ASSUME EdgeInit PROVE EdgeInv
  OBVIOUS
<1>1. TooOld \in Nat
  <2>1. Longest \in Ttls
    BY TtlsAssumption DEF Longest
  <2> QED
    BY <2>1, TtlsAssumption DEF TooOld
<1>2. (CHOOSE v \in Versions : TRUE) \in Versions
  BY VersionsAssumption
<1>3. content \in [Paths -> Versions \cup {"gone"}] /\ \A p \in Paths : content[p] \in Versions
  BY <1>2 DEF EdgeInit
<1>4. /\ since \in [Paths -> [Versions -> Nat]]
      /\ \A p \in Paths : since[p][content[p]] = 0
  BY <1>1, <1>3 DEF EdgeInit
<1>5. DOMAIN cdn = {}
  BY DEF EdgeInit
<1> QED
  BY <1>3, <1>4, <1>5 DEF EdgeInit, EdgeInv, Settings

\* A path gets a version, or loses its content.
LEMMA ContentMoves ==
  ASSUME EdgeInv, NEW p \in Paths, NEW v \in Versions \cup {"gone"}, NowIs(p, v)
  PROVE  /\ content' \in [Paths -> Versions \cup {"gone"}]
         /\ since' \in [Paths -> [Versions -> Nat]]
         /\ \A q \in Paths : content'[q] # "gone" => since'[q][content'[q]] = 0
         /\ \A q \in Paths, w \in Versions : since'[q][w] <= since[q][w]
<1>1. /\ content' = [content EXCEPT ![p] = v]
      /\ since' = IF v = "gone" THEN since ELSE [since EXCEPT ![p][v] = 0]
      /\ content \in [Paths -> Versions \cup {"gone"}] /\ since \in [Paths -> [Versions -> Nat]]
      /\ \A q \in Paths : content[q] # "gone" => since[q][content[q]] = 0
  BY DEF NowIs, EdgeInv
<1>2. \A q \in Paths, w \in Versions : since[q][w] \in Nat
  BY <1>1
<1>3. CASE v = "gone"
  BY <1>1, <1>2, <1>3
<1>4. CASE v # "gone"
  <2>1. v \in Versions /\ since' = [since EXCEPT ![p][v] = 0]
    BY <1>1, <1>4
  <2>2. /\ since' \in [Paths -> [Versions -> Nat]] /\ since'[p][v] = 0
        /\ \A q \in Paths, w \in Versions : since'[q][w] = since[q][w] \/ since'[q][w] = 0
        /\ \A q \in Paths : q # p => since'[q] = since[q]
    BY <1>1, <2>1
  <2> QED
    BY <1>1, <1>2, <2>1, <2>2
<1> QED
  BY <1>3, <1>4

\* A request to the origin: what it may keep is sound, and what it held stays so.
LEMMA AskOriginInv ==
  ASSUME EdgeInv, NEW req \in EdgeRequests, AskOrigin(req)
  PROVE  EdgeInv'
<1>1. PICK r \in OriginReplies(req) :
        /\ told' = NothingRepeated
        /\ IF Keeps(req, r)
           THEN cdn' = [p \in DOMAIN cdn \cup {req.path} |->
                            IF p = req.path THEN [body |-> r.body, age |-> 0, ttl |-> cfg.ttl]
                                            ELSE cdn[p]]
           ELSE cdn' = cdn
        /\ IF r.status = 200 /\ req.method = "DELETE" THEN NowIs(req.path, "gone")
                                                      ELSE UNCHANGED <<content, since>>
        /\ IF r.status = 200 /\ req.method = "PUT"
           THEN cfg' \in {c \in [admins : SUBSET Tokens, enabled : BOOLEAN, ttl : Ttls] :
                            rule = "everything" => c.enabled}
           ELSE cfg' = cfg
        /\ UNCHANGED <<public, rule>>
  BY DEF AskOrigin
<1>2. req.path \in Paths /\ req.accept \in Accepts
  BY DEF EdgeRequests
<1>3. cfg' \in Settings /\ (rule' = "everything" => cfg'.enabled)
  BY <1>1 DEF EdgeInv, Settings
<1>4. /\ content' \in [Paths -> Versions \cup {"gone"}]
      /\ since' \in [Paths -> [Versions -> Nat]]
      /\ \A q \in Paths : content'[q] # "gone" => since'[q][content'[q]] = 0
      /\ \A q \in Paths, w \in Versions : since'[q][w] <= since[q][w]
  <2>1. CASE NowIs(req.path, "gone")
    BY <1>2, <2>1, ContentMoves
  <2>2. CASE UNCHANGED <<content, since>>
    <3>1. \A q \in Paths, w \in Versions : since[q][w] \in Nat
      BY DEF EdgeInv
    <3> QED
      BY <2>2, <3>1 DEF EdgeInv
  <2> QED
    BY <1>1, <2>1, <2>2
<1>5. ASSUME NEW p \in DOMAIN cdn, cdn'[p] = cdn[p] PROVE EntrySound(p)'
  <2>1. EntrySound(p) /\ p \in Paths
    BY DEF EdgeInv
  <2>2. /\ since[p][cdn[p].body.version] \in Nat /\ since'[p][cdn[p].body.version] \in Nat
        /\ since'[p][cdn[p].body.version] <= since[p][cdn[p].body.version]
    BY <1>4, <2>1 DEF EntrySound, EdgeInv
  <2> QED
    BY <1>5, <2>1, <2>2, TtlsAssumption DEF EntrySound
<1>6. CASE Keeps(req, r)
  <2>1. /\ req.path \in SharedRows /\ content[req.path] # "gone"
        /\ r.body = [whom |-> "anyone", markdown |-> PrefersMarkdown(req.path, req.accept),
                     version |-> content[req.path]]
    BY <1>1, <1>6, KeptReply
  <2>2. /\ DOMAIN cdn' = DOMAIN cdn \cup {req.path}
        /\ cdn'[req.path] = [body |-> r.body, age |-> 0, ttl |-> cfg.ttl]
        /\ \A p \in DOMAIN cdn : p # req.path => cdn'[p] = cdn[p]
    BY <1>1, <1>6
  <2>3. content' = content /\ since' = since /\ content[req.path] \in Versions
        /\ since[req.path][content[req.path]] = 0
    <3>1. req.method = "GET"
      BY <1>6 DEF Keeps
    <3>2. content' = content /\ since' = since
      BY <1>1, <3>1
    <3> QED
      BY <1>2, <2>1, <3>2 DEF EdgeInv
  <2>4. cfg.ttl \in Ttls /\ 0 <= 2 * cfg.ttl
    <3>1. cfg.ttl \in Ttls
      BY DEF EdgeInv, Settings
    <3>2. cfg.ttl \in Nat
      BY <3>1, TtlsAssumption
    <3> QED
      BY <3>1, <3>2
  <2>5. /\ cdn'[req.path].body = r.body /\ cdn'[req.path].age = 0
        /\ cdn'[req.path].ttl = cfg.ttl
        /\ r.body.whom = "anyone" /\ r.body.version = content[req.path]
        /\ r.body.markdown = PrefersMarkdown(req.path, req.accept)
    BY <2>1, <2>2
  <2>6. EntrySound(req.path)'
    BY <1>2, <2>1, <2>3, <2>4, <2>5 DEF EntrySound
  <2> QED
    BY <1>1, <1>2, <1>3, <1>4, <1>5, <2>2, <2>6 DEF EdgeInv
<1>7. CASE ~Keeps(req, r)
  BY <1>1, <1>3, <1>4, <1>5, <1>7 DEF EdgeInv
<1> QED
  BY <1>6, <1>7

LEMMA AskEdgeInv ==
  ASSUME EdgeInv, NEW req \in EdgeRequests, AskEdge(req)
  PROVE  EdgeInv'
<1>1. /\ req.path \in DOMAIN cdn /\ told' = [req |-> req, entry |-> cdn[req.path]]
      /\ UNCHANGED <<public, cfg, rule, content, since, cdn>>
  BY DEF AskEdge
<1>2. /\ told'.req = req /\ told'.entry = cdn[req.path]
  BY <1>1
<1> QED
  BY <1>1, <1>2 DEF EdgeInv, EntrySound

LEMMA ContentChangesInv ==
  ASSUME EdgeInv, NEW p \in Changing \cap Paths, ContentChanges(p)
  PROVE  EdgeInv'
<1>1. PICK v \in Versions : NowIs(p, v)
  BY DEF ContentChanges
<1>2. told' = NothingRepeated /\ UNCHANGED <<public, cfg, rule, cdn>>
  BY DEF ContentChanges
<1>3. /\ content' \in [Paths -> Versions \cup {"gone"}]
      /\ since' \in [Paths -> [Versions -> Nat]]
      /\ \A q \in Paths : content'[q] # "gone" => since'[q][content'[q]] = 0
      /\ \A q \in Paths, w \in Versions : since'[q][w] <= since[q][w]
  BY <1>1, ContentMoves
<1>4. ASSUME NEW q \in DOMAIN cdn PROVE EntrySound(q)'
  <2>1. EntrySound(q) /\ q \in Paths
    BY DEF EdgeInv
  <2>2. /\ since[q][cdn[q].body.version] \in Nat /\ since'[q][cdn[q].body.version] \in Nat
        /\ since'[q][cdn[q].body.version] <= since[q][cdn[q].body.version]
    BY <1>3, <2>1 DEF EntrySound, EdgeInv
  <2> QED
    BY <1>2, <2>1, <2>2, TtlsAssumption DEF EntrySound
<1> QED
  BY <1>2, <1>3, <1>4 DEF EdgeInv

\* What was replaced ages no faster than what the edge keeps.
LEMMA EdgeTickInv == EdgeInv /\ EdgeTick => EdgeInv'
<1> SUFFICES ASSUME EdgeInv, EdgeTick PROVE EdgeInv'
  OBVIOUS
<1> DEFINE kept == {p \in DOMAIN cdn : cdn[p].age < 2 * cdn[p].ttl}
<1>1. /\ since' = [p \in Paths |-> [v \in Versions |->
                      IF v = content[p] \/ since[p][v] = TooOld THEN since[p][v]
                                                                ELSE since[p][v] + 1]]
      /\ cdn' = [p \in kept |-> [cdn[p] EXCEPT !.age = @ + 1]]
      /\ told' = NothingRepeated /\ UNCHANGED <<public, cfg, rule, content>>
  BY DEF EdgeTick
<1>2. \A q \in Paths, w \in Versions : since[q][w] \in Nat
  BY DEF EdgeInv
<1>3. /\ since' \in [Paths -> [Versions -> Nat]]
      /\ \A q \in Paths : content'[q] # "gone" => since'[q][content'[q]] = 0
      /\ \A q \in Paths, w \in Versions : since'[q][w] <= since[q][w] + 1
  BY <1>1, <1>2 DEF EdgeInv
<1>4. ASSUME NEW p \in DOMAIN cdn' PROVE EntrySound(p)' /\ p \in Paths
  <2>1. EntrySound(p) /\ p \in Paths /\ p \in DOMAIN cdn /\ cdn[p].age < 2 * cdn[p].ttl
    BY <1>1, <1>4 DEF EdgeInv
  <2>2. cdn'[p] = [cdn[p] EXCEPT !.age = @ + 1]
    BY <1>1, <1>4
  <2>3. cdn'[p].body = cdn[p].body /\ cdn'[p].ttl = cdn[p].ttl
    BY <2>2
  <2>4. cdn'[p].age = cdn[p].age + 1
    BY <2>2
  <2>5. /\ since[p][cdn[p].body.version] \in Nat /\ since'[p][cdn[p].body.version] \in Nat
        /\ since'[p][cdn[p].body.version] <= since[p][cdn[p].body.version] + 1
    BY <1>2, <1>3, <2>1 DEF EntrySound
  <2>6. cdn[p].ttl \in Nat /\ cdn[p].age \in Nat
    BY <2>1, TtlsAssumption DEF EntrySound
  <2>7. cdn'[p].age \in Nat /\ cdn'[p].age <= 2 * cdn'[p].ttl
    BY <2>1, <2>3, <2>4, <2>6
  <2>8. since'[p][cdn'[p].body.version] <= cdn'[p].age
    BY <2>1, <2>3, <2>4, <2>5, <2>6 DEF EntrySound
  <2> QED
    BY <2>1, <2>3, <2>7, <2>8 DEF EntrySound
<1> QED
  BY <1>1, <1>3, <1>4 DEF EdgeInv

LEMMA EdgeNextInv == EdgeInv /\ [EdgeNext]_edgeVars => EdgeInv'
<1> SUFFICES ASSUME EdgeInv, [EdgeNext]_edgeVars PROVE EdgeInv'
  OBVIOUS
<1>1. CASE UNCHANGED edgeVars
  BY <1>1 DEF edgeVars, EdgeInv, EntrySound
<1>2. ASSUME NEW p \in Changing, ContentChanges(p) PROVE EdgeInv'
  BY <1>2, ChangingAssumption, ContentChangesInv
<1> QED
  BY <1>1, <1>2, AskOriginInv, AskEdgeInv, EdgeTickInv DEF EdgeNext

\* What the edge repeats is what the origin would have told this very caller
\* within max-age + stale-while-revalidate (RouteCache, edge_cache, role_for), as
\* far as no caller asks for the markdown form of a page: the edge's key has no
\* Accept in it, so those two forms are told apart by no header of the origin.
THEOREM EdgeTellsTheOriginsWord ==
  ASSUME \A p \in Paths, accept \in Accepts : ~PrefersMarkdown(p, accept)
  PROVE  EdgeSpec => []EdgeRepeatsTheOrigin
<1>1. EdgeInv => EdgeRepeatsTheOrigin
  <2> SUFFICES ASSUME EdgeInv, told # NothingRepeated
               PROVE  LET req  == told.req
                          kept == told.entry.body
                      IN  /\ \A row \in MountedRows :
                               row.path = req.path /\ row.method = "GET" /\ row.auth = "admin" =>
                                  RoleFor(req.token) = "admin"
                          /\ kept.whom = ForWhom(req.path, req.token)
                          /\ kept.markdown = PrefersMarkdown(req.path, req.accept)
                          /\ since[req.path][kept.version] <= 2 * told.entry.ttl
    BY DEF EdgeRepeatsTheOrigin
  <2> DEFINE path == told.req.path
  <2>1. /\ path \in DOMAIN cdn /\ path \in Paths /\ told.entry = cdn[path] /\ EntrySound(path)
        /\ told.req.accept \in Accepts
    BY DEF EdgeInv, EdgeRequests
  <2>2. \A row \in MountedRows :
           row.path = path /\ row.method = "GET" => row.auth = "open"
    BY <2>1, SharedRowsOpen DEF EntrySound, MountedRows
  <2>3. told.entry.body.whom = ForWhom(path, told.req.token)
    BY <2>1, SharedForAnyone DEF EntrySound
  <2>4. told.entry.body.markdown = PrefersMarkdown(path, told.req.accept)
    BY <2>1, Zenon DEF EntrySound, PrefersMarkdown
  <2>5. since[path][told.entry.body.version] <= 2 * told.entry.ttl
    <3>1. since[path][told.entry.body.version] \in Nat
      BY <2>1 DEF EntrySound, EdgeInv
    <3>2. cdn[path].ttl \in Nat /\ cdn[path].age \in Nat
      BY <2>1, TtlsAssumption DEF EntrySound
    <3>3. /\ since[path][told.entry.body.version] <= cdn[path].age
          /\ cdn[path].age <= 2 * cdn[path].ttl
      BY <2>1 DEF EntrySound
    <3> QED
      BY <2>1, <3>1, <3>2, <3>3
  <2> QED
    BY <2>2, <2>3, <2>4, <2>5
<1> QED
  BY <1>1, EdgeInitInv, EdgeNextInv, PTL DEF EdgeSpec

-----------------------------------------------------------------------------
(* The drift canary.                                                       *)

Expectations == {e \in [error : {"ok", "blocked", "parse"}, urls : Seq(STRING), titled : Nat] :
                   e.titled <= Len(e.urls)}
Pairs == [body : SitePages \cup {Absent}, expected : Expectations \cup {Absent}]

\* What the last command said still holds, nothing having changed since.
PrintedNow ==
  /\ printed.cmd = "canary" =>
       /\ printed.failed = {s \in Specs : CanaryFails(s)}
       /\ printed.exit = 0 <=> printed.failed = {}
  /\ printed.cmd = "fixtures" =>
       /\ printed.of \in Specs /\ selectors[printed.of] # Unloadable
       /\ printed.exit = 0 => \A q \in BodyFiles(printed.of) : Replays(printed.of, q)

CanaryInv ==
  /\ selectors \in [Specs -> Markups \cup {Unloadable}]
  /\ site \in [Specs -> Sites]
  /\ files \in [Specs -> [Recorded -> Pairs]]
  /\ recorder # Absent =>
       recorder \in [spec : Specs, query : Recorded, body : SitePages, expected : Expectations,
                     bodyOnDisk : BOOLEAN]
  /\ PrintedNow

\* Of some naturals one is the least.
LEMMA LeastOf ==
  ASSUME NEW S \in SUBSET Nat, S # {}
  PROVE  \E m \in S : \A n \in S : m <= n
<1> DEFINE Less == OpToRel(<, Nat)
<1>1. IsWellFoundedOn(Less, Nat)
  BY NatLessThanWellFounded
<1>2. \A m, n \in Nat : m < n => <<m, n>> \in Less
  BY DEF OpToRel
<1> HIDE DEF Less
<1>3. PICK m \in S : \A n \in S : ~ (<<n, m>> \in Less)
  BY <1>1, WFMin
<1>4. ASSUME NEW n \in S PROVE m <= n
  <2>1. m \in Nat /\ n \in Nat /\ ~ (n < m)
    BY <1>2, <1>3
  <2> QED
    BY <2>1
<1> QED
  BY <1>4

\* What a spec makes of a page: rows exactly when the markup fits and there are
\* any, and then the page's own.
LEMMA WhatIsRead ==
  ASSUME NEW fit, NEW page \in SitePages
  PROVE  /\ Expect(fit, page) \in Expectations
         /\ Expect(fit, page).error = "ok" =>
              /\ fit.container = page.container /\ page.urls # <<>>
              /\ Expect(fit, page).urls = page.urls
              /\ Expect(fit, page).titled = IF fit.title = page.title THEN page.titled ELSE 0
         /\ page.container # "captcha" /\ fit.container = page.container /\ page.urls # <<>> =>
              Expect(fit, page).error = "ok"
<1>1. /\ page.urls \in Seq(STRING) /\ page.titled \in Nat /\ page.titled <= Len(page.urls)
      /\ <<>> \in Seq(STRING) /\ Len(<<>>) = 0
  BY EmptySeq DEF SitePages
<1>2. /\ ErrorOf(fit, page) \in {"ok", "blocked", "parse"}
      /\ ErrorOf(fit, page) = "ok" <=>
           /\ page.container # "captcha" /\ fit.container = page.container /\ page.urls # <<>>
  BY DEF ErrorOf
<1> DEFINE error  == ErrorOf(fit, page)
           urls   == IF error = "ok" THEN page.urls ELSE <<>>
           titled == IF error = "ok" /\ fit.title = page.title THEN page.titled ELSE 0
<1>3. Expect(fit, page) = [error |-> error, urls |-> urls, titled |-> titled]
  BY DEF Expect
<1>4. urls \in Seq(STRING) /\ titled \in Nat /\ titled <= Len(urls)
  <2>1. CASE error = "ok"
    BY <1>1, <2>1
  <2>2. CASE error # "ok"
    <3>1. urls = <<>> /\ titled = 0
      BY <2>2
    <3> HIDE DEF urls, titled
    <3> QED
      BY <1>1, <3>1
  <2> QED
    BY <2>1, <2>2
<1>5. /\ error = "ok" => urls = page.urls
      /\ error = "ok" => titled = IF fit.title = page.title THEN page.titled ELSE 0
  OBVIOUS
<1> HIDE DEF error, urls, titled
<1>6. error \in {"ok", "blocked", "parse"}
  BY <1>2 DEF error
<1>7. Expect(fit, page) \in Expectations
  BY <1>3, <1>4, <1>6 DEF Expectations
<1> QED
  BY <1>2, <1>3, <1>5, <1>7 DEF error

\* The baseline is one of the good pairs.
LEMMA BaselineGood ==
  ASSUME CanaryInv, NEW s \in Specs, GoodPairs(s) # {}
  PROVE  \E q \in GoodPairs(s) : Baseline(s) = files[s][q].expected
<1>1. GoodPairs(s) \in SUBSET Nat
  BY RecordedAssumption DEF GoodPairs, BodyFiles
<1>2. \E q \in UsablePairs(s) : \A r \in UsablePairs(s) : q <= r
  BY <1>1, LeastOf DEF UsablePairs
<1> QED
  BY <1>2 DEF Baseline, UsablePairs

\* A good pair has rows, no more of them filled than there are.
LEMMA GoodExpected ==
  ASSUME CanaryInv, NEW s \in Specs, NEW q \in GoodPairs(s)
  PROVE  LET e == files[s][q].expected IN
         /\ e \in Expectations /\ e.urls \in Seq(STRING) /\ Len(e.urls) \in Nat \ {0}
         /\ e.titled \in Nat /\ e.titled <= Len(e.urls)
<1> DEFINE e == files[s][q].expected
<1>1. q \in Recorded /\ e # Absent /\ e.urls # <<>>
  BY DEF GoodPairs, BodyFiles
<1>2. files[s][q] \in Pairs
  BY <1>1 DEF CanaryInv
<1>3. e \in Expectations
  BY <1>1, <1>2 DEF Pairs
<1> HIDE DEF e
<1>4. e.urls \in Seq(STRING) /\ e.titled \in Nat /\ e.titled <= Len(e.urls)
  BY <1>3 DEF Expectations
<1>5. Len(e.urls) \in Nat \ {0}
  BY <1>1, <1>4, EmptySeq DEF e
<1> QED
  BY <1>3, <1>4, <1>5 DEF e

\* The same page twice shares all of its rows.
LEMMA SamePageShares ==
  ASSUME NEW one \in Seq(STRING), one # <<>>
  PROVE  10 * Shared(one, one) > 7 * Shorter(one, one)
<1>1. Len(one) \in Nat \ {0} /\ DOMAIN one = 1..Len(one)
  BY EmptySeq
<1>2. {i \in DOMAIN one : \E j \in DOMAIN one : one[j] = one[i]} = 1..Len(one)
  BY <1>1
<1>3. Cardinality(1..Len(one)) = Len(one)
  BY <1>1, FS_Interval
<1>4. Shared(one, one) = Len(one) /\ Shorter(one, one) = Len(one)
  BY <1>2, <1>3 DEF Shared, Shorter
<1> QED
  BY <1>1, <1>4

\* Pages without a url in common share none.
LEMMA OtherPageSharesNone ==
  ASSUME NEW one \in Seq(STRING), NEW two \in Seq(STRING),
         {one[i] : i \in DOMAIN one} \cap {two[i] : i \in DOMAIN two} = {}
  PROVE  ~ (10 * Shared(one, two) > 7 * Shorter(one, two))
<1>1. {i \in DOMAIN two : \E j \in DOMAIN one : one[j] = two[i]} = {}
  OBVIOUS
<1>2. Shared(one, two) = 0
  BY <1>1, FS_EmptySet DEF Shared
<1>3. Shorter(one, two) \in Nat
  BY DEF Shorter
<1> QED
  BY <1>2, <1>3

LEMMA NoFewerFilled ==
  ASSUME NEW len \in Nat, NEW base \in Nat, NEW titled \in Nat, titled <= base
  PROVE  ~ (2 * len * base < titled * len)
<1>1. titled * len <= base * len
  OBVIOUS
<1>2. base * len \in Nat /\ 2 * len * base = (base * len) + (base * len)
  OBVIOUS
<1>3. titled * len \in Nat
  OBVIOUS
<1> QED
  BY <1>1, <1>2, <1>3

LEMMA SomeFilled ==
  ASSUME NEW a \in Nat \ {0}, NEW b \in Nat \ {0}, NEW c \in Nat
  PROVE  2 * 0 * c < a * b
<1>1. a * b > 0
  OBVIOUS
<1>2. 2 * 0 * c = 0
  OBVIOUS
<1> QED
  BY <1>1, <1>2

\* The canary fails every spec that has drifted.
LEMMA DriftedFails ==
  ASSUME CanaryInv, NEW s \in Specs, Drifted(s)
  PROVE  CanaryFails(s)
<1> DEFINE page == site[s].page1
           one  == LivePage(s, page)
           base == Baseline(s)
<1>1. CASE selectors[s] = Unloadable \/ GoodPairs(s) = {}
  BY <1>1 DEF CanaryFails, UsablePairs
<1> SUFFICES ASSUME ~ (selectors[s] = Unloadable \/ GoodPairs(s) = {}),
                    ~ Degraded(one, base), ~ ServesPage1Again(one, LivePage(s, site[s].page2))
             PROVE  FALSE
  BY <1>1 DEF CanaryFails
<1>2. one.error = "ok"
  BY DEF Degraded
<1>3. page # Absent /\ page \in SitePages
  <2>1. page # Absent
    BY <1>2 DEF LivePage
  <2> QED
    BY <2>1, SitesAssumption DEF CanaryInv
<1>4. one = Expect(selectors[s], page)
  BY <1>3 DEF LivePage
<1>5. /\ selectors[s].container = page.container /\ page.urls # <<>> /\ one.urls = page.urls
      /\ one.titled = IF selectors[s].title = page.title THEN page.titled ELSE 0
  <2> HIDE DEF page, one
  <2> QED
    BY <1>2, <1>3, <1>4, WhatIsRead
<1>6. PICK q \in GoodPairs(s) : base = files[s][q].expected
  BY BaselineGood
<1>7. /\ base.urls \in Seq(STRING) /\ Len(base.urls) \in Nat \ {0}
      /\ base.titled \in Nat /\ base.titled <= Len(base.urls)
  BY <1>6, GoodExpected
<1>8. page.urls \in Seq(STRING) /\ Len(page.urls) \in Nat \ {0}
  BY <1>3, <1>5, EmptySeq DEF SitePages
<1>9. CASE selectors[s].title # page.title /\ \A r \in GoodPairs(s) : files[s][r].expected.titled > 0
  <2>1. base.titled \in Nat \ {0} /\ one.titled = 0
    BY <1>5, <1>6, <1>7, <1>9
  <2> HIDE DEF base, one
  <2>2. 2 * 0 * Len(base.urls) < base.titled * Len(one.urls)
    BY <1>5, <1>7, <1>8, <2>1, SomeFilled
  <2> QED
    BY <1>7, <2>1, <2>2 DEF Degraded
<1>10. CASE \A r \in GoodPairs(s) : Len(files[s][r].expected.urls) > 2 * Len(page.urls)
  <2>1. Len(base.urls) > 2 * Len(page.urls)
    BY <1>6, <1>10
  <2>2. 2 * Len(one.urls) < Len(base.urls)
    BY <1>5, <1>7, <1>8, <2>1
  <2> HIDE DEF base, one
  <2> QED
    BY <2>2 DEF Degraded
<1>11. CASE site[s].page2 = page
  <2>1. LivePage(s, site[s].page2) = one
    BY <1>11
  <2>2. 10 * Shared(one.urls, one.urls) > 7 * Shorter(one.urls, one.urls)
    BY <1>5, <1>8, SamePageShares
  <2> HIDE DEF one
  <2> QED
    BY <1>2, <2>1, <2>2 DEF ServesPage1Again
<1> QED
  BY <1>3, <1>5, <1>9, <1>10, <1>11 DEF Drifted

\* It fails no spec that does its work.
LEMMA SoundPasses ==
  ASSUME CanaryInv, NEW s \in Specs, Sound(s)
  PROVE  ~ CanaryFails(s)
<1> DEFINE page == site[s].page1
           next == site[s].page2
           one  == LivePage(s, page)
           two  == LivePage(s, next)
           base == Baseline(s)
<1>1. /\ selectors[s] # Unloadable /\ page # Absent /\ ~ Orphaned(s) /\ GoodPairs(s) # {}
      /\ selectors[s].container = page.container /\ selectors[s].title = page.title
      /\ page.titled = Len(page.urls)
      /\ \A q \in GoodPairs(s) : Len(files[s][q].expected.urls) <= Len(page.urls)
      /\ next = Absent \/ UrlsOf(page) \cap UrlsOf(next) = {}
  BY DEF Sound, Fit
<1>2. page \in SitePages /\ next \in SitePages \cup {Absent} /\ selectors[s].container # "captcha"
  BY <1>1, SitesAssumption, MarkupsAssumption DEF CanaryInv
<1>3. PICK q \in GoodPairs(s) : base = files[s][q].expected
  BY <1>1, BaselineGood
<1>4. /\ base.urls \in Seq(STRING) /\ Len(base.urls) \in Nat \ {0}
      /\ base.titled \in Nat /\ base.titled <= Len(base.urls) /\ Len(base.urls) <= Len(page.urls)
  BY <1>1, <1>3, GoodExpected
<1>5. page.urls \in Seq(STRING) /\ page.titled \in Nat /\ Len(page.urls) \in Nat \ {0} /\ page.urls # <<>>
  <2>1. page.urls \in Seq(STRING) /\ page.titled \in Nat
    BY <1>2 DEF SitePages
  <2>2. Len(page.urls) \in Nat /\ Len(page.urls) # 0
    BY <1>4, <2>1
  <2> QED
    BY <2>1, <2>2, EmptySeq
<1>6. /\ one.error = "ok" /\ one.urls = page.urls /\ one.titled = page.titled
  <2>1. one = Expect(selectors[s], page)
    BY <1>1 DEF LivePage
  <2> HIDE DEF page, one
  <2> QED
    BY <1>1, <1>2, <1>5, <2>1, WhatIsRead
<1>7. ~ Degraded(one, base)
  <2> HIDE DEF page, one, base
  <2>1. ~ (2 * Len(one.urls) < Len(base.urls))
    BY <1>4, <1>5, <1>6
  <2>2. ~ (2 * Len(page.urls) * Len(base.urls) < base.titled * Len(page.urls))
    BY <1>4, <1>5, NoFewerFilled
  <2> QED
    BY <1>1, <1>6, <2>1, <2>2 DEF Degraded
<1>8. ~ ServesPage1Again(one, two)
  <2>1. CASE next = Absent
    BY <2>1 DEF ServesPage1Again, LivePage
  <2>2. CASE next # Absent /\ two.error = "ok"
    <3>1. next \in SitePages /\ two = Expect(selectors[s], next)
      BY <1>2, <2>2 DEF LivePage
    <3>2. two.urls = next.urls /\ next.urls \in Seq(STRING)
      <4> HIDE DEF next, two
      <4> QED
        BY <2>2, <3>1, WhatIsRead DEF SitePages
    <3>3. {page.urls[i] : i \in DOMAIN page.urls} \cap {next.urls[i] : i \in DOMAIN next.urls} = {}
      BY <1>1, <2>2 DEF UrlsOf
    <3> HIDE DEF page, next, one, two
    <3> QED
      BY <1>5, <1>6, <3>2, <3>3, OtherPageSharesNone DEF ServesPage1Again
  <2>3. CASE two.error # "ok"
    BY <2>3 DEF ServesPage1Again
  <2> QED
    BY <2>1, <2>2, <2>3
<1> HIDE DEF base, one, two
<1> QED
  BY <1>1, <1>7, <1>8 DEF CanaryFails, UsablePairs, base, one, two

LEMMA CanaryInitInv == ASSUME CanaryInit PROVE CanaryInv
<1>1. selectors \in [Specs -> Markups \cup {Unloadable}]
  BY DEF CanaryInit
<1>2. site \in [Specs -> Sites]
  BY DEF CanaryInit
<1>3. files \in [Specs -> [Recorded -> Pairs]]
  <2>1. [body |-> Absent, expected |-> Absent] \in Pairs
    BY DEF Pairs
  <2> QED
    BY <2>1 DEF CanaryInit
<1>4. PrintedNow
  BY DEF CanaryInit, PrintedNow, NothingPrinted
<1> QED
  BY <1>1, <1>2, <1>3, <1>4 DEF CanaryInv, CanaryInit

\* What a command said is about specs, sites and files, and stays true with them.
LEMMA StillTold ==
  ASSUME UNCHANGED <<selectors, site, files>>
  PROVE  /\ \A s : CanaryFails(s)' <=> CanaryFails(s)
         /\ \A s : BodyFiles(s)' = BodyFiles(s)
         /\ \A s, q : Replays(s, q)' <=> Replays(s, q)
<1>1. \A s : BodyFiles(s)' = BodyFiles(s)
  BY DEF BodyFiles
<1>2. \A s, q : Replays(s, q)' <=> Replays(s, q)
  BY DEF Replays
<1>3. ASSUME NEW s PROVE CanaryFails(s)' <=> CanaryFails(s)
  <2>1. /\ UsablePairs(s)' = UsablePairs(s)
        /\ Orphaned(s)' <=> Orphaned(s)
    BY <1>1 DEF UsablePairs, GoodPairs, Orphaned, BodyFiles
  <2>2. Baseline(s)' = Baseline(s)
    BY <2>1 DEF Baseline
  <2>3. LivePage(s, site[s].page1)' = LivePage(s, site[s].page1)
        /\ LivePage(s, site[s].page2)' = LivePage(s, site[s].page2)
    BY DEF LivePage
  <2> QED
    BY <2>1, <2>2, <2>3 DEF CanaryFails
<1> QED
  BY <1>1, <1>2, <1>3

LEMMA CanaryNextInv == ASSUME CanaryInv, [CanaryNext]_canaryVars PROVE CanaryInv'
<1> USE DEF CanaryInv
<1>1. ASSUME printed' = NothingPrinted PROVE PrintedNow'
  BY <1>1 DEF PrintedNow, NothingPrinted
<1>2. ASSUME UNCHANGED <<selectors, site, files, printed>> PROVE PrintedNow'
  BY <1>2, StillTold DEF PrintedNow
<1>3. CASE RunCanary
  <2>1. UNCHANGED <<selectors, site, files, recorder>>
    BY <1>3 DEF RunCanary
  <2>2. /\ printed'.cmd = "canary" /\ printed'.failed = {s \in Specs : CanaryFails(s)}
        /\ printed'.exit = 0 <=> printed'.failed = {}
    BY <1>3 DEF RunCanary
  <2>3. PrintedNow'
    BY <2>1, <2>2, StillTold DEF PrintedNow
  <2> QED
    BY <2>1, <2>3
<1>4. ASSUME NEW s \in Specs, RunFixtures(s) PROVE CanaryInv'
  <2>1. UNCHANGED <<selectors, site, files, recorder>>
    BY <1>4 DEF RunFixtures
  <2>2. /\ printed'.cmd = "fixtures" /\ printed'.of = s /\ selectors[s] # Unloadable
        /\ printed'.exit = 0 => \A q \in BodyFiles(s) : Replays(s, q)
    BY <1>4 DEF RunFixtures
  <2>3. PrintedNow'
    BY <2>1, <2>2, StillTold DEF PrintedNow
  <2> QED
    BY <2>1, <2>3
<1>5. ASSUME NEW s \in Specs, NEW q \in Recorded, FetchToRecord(s, q) PROVE CanaryInv'
  <2>1. site[s].page1 \in SitePages
    BY <1>5, SitesAssumption DEF FetchToRecord
  <2>2. Expect(selectors[s], site[s].page1) \in Expectations
    BY <2>1, WhatIsRead
  <2> QED
    BY <1>1, <1>5, <2>1, <2>2 DEF FetchToRecord
<1>6. CASE WriteFile
  <2> DEFINE s == recorder.spec
             q == recorder.query
  <2>1. /\ s \in Specs /\ q \in Recorded /\ recorder.body \in SitePages
        /\ recorder.expected \in Expectations
    BY <1>6 DEF WriteFile
  <2>2. files[s][q] \in Pairs
    BY <2>1
  <2>3. CASE recorder.bodyOnDisk
    <3>1. files' = [files EXCEPT ![s][q].expected = recorder.expected] /\ recorder' = Absent
      BY <1>6, <2>3 DEF WriteFile
    <3>2. [files[s][q] EXCEPT !.expected = recorder.expected] \in Pairs
      BY <2>1, <2>2 DEF Pairs
    <3>3. files' \in [Specs -> [Recorded -> Pairs]]
      BY <2>1, <3>1, <3>2
    <3> QED
      BY <1>1, <1>6, <3>1, <3>3 DEF WriteFile
  <2>4. CASE ~ recorder.bodyOnDisk
    <3>1. files' = [files EXCEPT ![s][q].body = recorder.body]
          /\ recorder' = [recorder EXCEPT !.bodyOnDisk = TRUE]
      BY <1>6, <2>4 DEF WriteFile
    <3>2. [files[s][q] EXCEPT !.body = recorder.body] \in Pairs
      BY <2>1, <2>2 DEF Pairs
    <3>3. files' \in [Specs -> [Recorded -> Pairs]]
      BY <2>1, <3>1, <3>2
    <3> QED
      BY <1>1, <1>6, <3>1, <3>3 DEF WriteFile
  <2> QED
    BY <2>3, <2>4
<1>7. CASE KillRecorder
  BY <1>2, <1>7 DEF KillRecorder
<1>8. ASSUME NEW s \in Specs, SiteChanges(s) PROVE CanaryInv'
  BY <1>1, <1>8 DEF SiteChanges
<1>9. ASSUME NEW s \in Specs, EditSelectors(s) PROVE CanaryInv'
  BY <1>1, <1>9 DEF EditSelectors
<1>10. CASE UNCHANGED canaryVars
  BY <1>2, <1>10 DEF canaryVars
<1> QED
  BY <1>3, <1>4, <1>5, <1>6, <1>7, <1>8, <1>9, <1>10 DEF CanaryNext

LEMMA CanaryInvTells == ASSUME CanaryInv PROVE DriftIsTold
<1>1. ASSUME printed.cmd = "canary"
      PROVE  /\ {s \in Specs : Drifted(s)} \subseteq printed.failed
             /\ \A s \in printed.failed : ~ Sound(s)
             /\ printed.exit = 0 <=> printed.failed = {}
  <2>1. printed.failed = {s \in Specs : CanaryFails(s)} /\ (printed.exit = 0 <=> printed.failed = {})
    BY <1>1 DEF CanaryInv, PrintedNow
  <2>2. \A s \in Specs : Drifted(s) => CanaryFails(s)
    BY DriftedFails
  <2>3. \A s \in Specs : Sound(s) => ~ CanaryFails(s)
    BY SoundPasses
  <2> QED
    BY <2>1, <2>2, <2>3
<1>2. ASSUME printed.cmd = "fixtures", printed.exit = 0, NEW q \in GoodPairs(printed.of)
      PROVE  files[printed.of][q].body.container = selectors[printed.of].container
  <2> DEFINE s         == printed.of
             recording == files[s][q].body
  <2>1. s \in Specs /\ q \in BodyFiles(s) /\ Replays(s, q)
    BY <1>2 DEF CanaryInv, PrintedNow, GoodPairs
  <2>2. q \in Recorded /\ recording # Absent
    BY <2>1 DEF BodyFiles
  <2>3. files[s][q] \in Pairs
    BY <2>1, <2>2 DEF CanaryInv
  <2>4. recording \in SitePages
    BY <2>2, <2>3 DEF Pairs
  <2>5. Expect(selectors[s], recording).error = "ok"
    BY <1>2, <2>1 DEF Replays, GoodPairs
  <2> HIDE DEF recording
  <2>6. recording.container = selectors[s].container
    BY <2>4, <2>5, WhatIsRead
  <2> QED
    BY <2>6 DEF recording
<1> QED
  BY <1>1, <1>2 DEF DriftIsTold

(* For any specs, sites, markups and recordings: through kills between the *)
(* two files of a recording, site changes and spec edits, the canary exits *)
(* 0 only when no spec has drifted and names no sound one, and the offline *)
(* replay passes only specs that still read what they were recorded        *)
(* reading (run_canary, check_fill_rates, url_overlap, run_fixtures,       *)
(* write_pair).                                                            *)
THEOREM CanaryTellsDrift == CanarySpec => []DriftIsTold
<1>1. CanaryInit => CanaryInv
  BY CanaryInitInv
<1>2. CanaryInv /\ [CanaryNext]_canaryVars => CanaryInv'
  BY CanaryNextInv
<1>3. CanaryInv => DriftIsTold
  BY CanaryInvTells
<1> QED
  BY <1>1, <1>2, <1>3, PTL DEF CanarySpec

-----------------------------------------------------------------------------
(* Evals.                                                                  *)

(* A turn, and what a stream may bring.                                    *)
TurnEnds == {ToolCalls, Broken} \cup {Answered(v) : v \in Verdicts}
TurnsTold == [deltas : Nat, end : TurnEnds]
StreamEvents == {Delta} \cup TurnEnds

UnitFields == {"at", "turns", "pending", "wire", "relay", "text", "seen"}

UnitShape(r) ==
    /\ DOMAIN r = UnitFields
    /\ r.turns \in Seq(TurnsTold) /\ r.seen \in Seq(TurnsTold)
    /\ r.relay \in Seq(StreamEvents)
    /\ r.pending \in Nat /\ r.text \in Nat

(* Sequences by their members: tool calls alone, deltas alone, deltas and  *)
(* one end, and one that goes on another.                                  *)
ToolsAlone(script) == \A i \in 1..Len(script) : script[i].end = ToolCalls
DeltasAlone(relay) == \A i \in 1..Len(relay) : relay[i] = Delta
Closes(relay, end) ==
    /\ Len(relay) >= 1 /\ relay[Len(relay)] = end
    /\ \A i \in 1..(Len(relay) - 1) : relay[i] = Delta
GoesOn(long, short) ==
    /\ Len(long) >= Len(short)
    /\ \A i \in 1..Len(short) : long[i] = short[i]

(* What a recording holds: the turns that were heard, and, of a            *)
(* conversation that failed, perhaps the turn that broke it.               *)
Transcript(script, ending, seen) ==
    \/ /\ ending = "done" /\ script = seen /\ Len(seen) >= 1
       /\ seen[Len(seen)].end \notin {ToolCalls, Broken}
       /\ \A i \in 1..(Len(seen) - 1) : seen[i].end = ToolCalls
    \/ /\ ending = "failed" /\ ToolsAlone(seen)
       /\ \/ script = seen
          \/ /\ Len(script) = Len(seen) + 1 /\ GoesOn(script, seen)
             /\ script[Len(script)].end = Broken

Kept(file) ==
    \E script, seen \in Seq(TurnsTold) : \E ending \in {"done", "failed"} :
        /\ file = [turns |-> script, heard |-> [ended |-> ending, seen |-> seen]]
        /\ Transcript(script, ending, seen)

(* Where a recording run is: what the loop has seen was recorded before,   *)
(* and what it is about to see is in the relay.                            *)
StreamRecorded(r) ==
    /\ ToolsAlone(r.seen)
    /\ \/ /\ r.wire = "open" /\ r.turns = r.seen
          /\ DeltasAlone(r.relay) /\ r.pending = r.text + Len(r.relay)
       \/ r.wire = "closed" /\ r.turns = r.seen /\ DeltasAlone(r.relay)
       \/ /\ r.wire = "closed" /\ r.pending = 0
          /\ Len(r.turns) = Len(r.seen) + 1 /\ GoesOn(r.turns, r.seen)
          /\ Closes(r.relay, r.turns[Len(r.turns)].end)
          /\ r.turns[Len(r.turns)].deltas = r.text + Len(r.relay) - 1

RunRecorded(r) ==
    /\ r.at # "reading" => r.wire = "closed"
    /\ r.at = "ready" => ToolsAlone(r.seen) /\ r.turns = r.seen /\ r.pending = 0
    /\ r.at = "reading" => StreamRecorded(r)
    /\ r.at \in {"done", "failed"} => Transcript(r.turns, r.at, r.seen)

(* Where a replaying run is in its transcript: behind what it has seen are *)
(* the turn it reads and those to come.                                    *)
Remains(script, all, n) ==
    /\ Len(all) = n + Len(script)
    /\ \A i \in 1..Len(script) : script[i] = all[n + i]

RunReplayed(r, file) ==
    /\ r.wire = "closed"
    /\ r.at = "ready" =>
         ToolsAlone(r.seen) /\ GoesOn(file.turns, r.seen) /\ Remains(r.turns, file.turns, Len(r.seen))
    /\ r.at = "reading" =>
         /\ ToolsAlone(r.seen) /\ GoesOn(file.turns, r.seen)
         /\ Remains(r.turns, file.turns, Len(r.seen) + 1)
         /\ LET turn == file.turns[Len(r.seen) + 1] IN
              /\ Closes(r.relay, turn.end)
              /\ turn.end # Broken => turn.deltas = r.text + Len(r.relay) - 1
    /\ r.at \in {"done", "failed"} => file.heard = [ended |-> r.at, seen |-> r.seen]

Joins == [unit : Units, outcome : [ended : {"done", "failed", "panic"}, seen : Seq(TurnsTold)]]

EvalInv ==
    /\ DOMAIN unit = Units /\ DOMAIN library = Units /\ joined \in Seq(Joins)
    /\ \A u \in Units :
         /\ UnitShape(unit[u])
         /\ library[u] = Nothing \/ Kept(library[u])
         /\ mode = "idle" => unit[u].at = "off"
         /\ unit[u].at = "off" => unit[u].wire = "closed"
         /\ mode = "record" => RunRecorded(unit[u])
         /\ mode = "replay" /\ library[u] # Nothing => RunReplayed(unit[u], library[u])
    /\ mode \in {"idle", "record", "replay"}
    /\ ReplayReproduces

(* A step of a run changes the fields it names.                            *)
LEMMA StepTold ==
    ASSUME DOMAIN unit = Units, NEW u \in Units, DOMAIN unit[u] = UnitFields,
           NEW new, Step(u, new)
    PROVE  /\ DOMAIN unit' = Units /\ DOMAIN unit'[u] = UnitFields
           /\ \A v \in Units \ {u} : unit'[v] = unit[v]
           /\ unit'[u].at = IF "at" \in DOMAIN new THEN new.at ELSE unit[u].at
           /\ unit'[u].turns = IF "turns" \in DOMAIN new THEN new.turns ELSE unit[u].turns
           /\ unit'[u].pending = IF "pending" \in DOMAIN new THEN new.pending ELSE unit[u].pending
           /\ unit'[u].wire = IF "wire" \in DOMAIN new THEN new.wire ELSE unit[u].wire
           /\ unit'[u].relay = IF "relay" \in DOMAIN new THEN new.relay ELSE unit[u].relay
           /\ unit'[u].text = IF "text" \in DOMAIN new THEN new.text ELSE unit[u].text
           /\ unit'[u].seen = IF "seen" \in DOMAIN new THEN new.seen ELSE unit[u].seen
           /\ UNCHANGED <<mode, sessions, library, joined, report>>
<1>1. unit'[u] = [f \in UnitFields |-> IF f \in DOMAIN new THEN new[f] ELSE unit[u][f]]
  BY DEF Step
<1>2. /\ DOMAIN unit' = Units /\ \A v \in Units \ {u} : unit'[v] = unit[v]
      /\ UNCHANGED <<mode, sessions, library, joined, report>>
  BY DEF Step
<1> QED
  BY <1>1, <1>2 DEF UnitFields

(* A step of a run that keeps its promise keeps the invariant.             *)
LEMMA StepInv ==
    ASSUME EvalInv, NEW u \in Units, NEW new, Step(u, new), mode # "idle",
           UnitShape(unit'[u]), unit'[u].at # "off",
           mode = "record" => RunRecorded(unit'[u]),
           mode = "replay" /\ library[u] # Nothing => RunReplayed(unit'[u], library[u])
    PROVE  EvalInv'
<1>1. /\ DOMAIN unit' = Units /\ \A v \in Units \ {u} : unit'[v] = unit[v]
      /\ UNCHANGED <<mode, sessions, library, joined, report>>
  BY StepTold DEF EvalInv, UnitShape
<1>2. ReplayReproduces'
  BY <1>1 DEF EvalInv, ReplayReproduces
<1>3. /\ joined' \in Seq(Joins)' /\ DOMAIN library' = Units /\ mode' \in {"idle", "record", "replay"}
  BY <1>1 DEF EvalInv, Joins
<1>4. ASSUME NEW v \in Units
      PROVE  /\ UnitShape(unit'[v])
             /\ library'[v] = Nothing \/ Kept(library'[v])
             /\ mode' = "idle" => unit'[v].at = "off"
             /\ unit'[v].at = "off" => unit'[v].wire = "closed"
             /\ mode' = "record" => RunRecorded(unit'[v])
             /\ mode' = "replay" /\ library'[v] # Nothing => RunReplayed(unit'[v], library'[v])
  <2>1. CASE v = u
    BY <1>1, <2>1 DEF EvalInv
  <2>2. CASE v # u
    BY <1>1, <2>2 DEF EvalInv
  <2> QED
    BY <2>1, <2>2
<1> QED
  BY <1>1, <1>2, <1>3, <1>4 DEF EvalInv

(* The events are told apart by their kind.                                *)
LEMMA KindsTold ==
    /\ Delta \notin TurnEnds /\ ToolCalls # Broken
    /\ \A e \in StreamEvents :
         /\ e.kind \in {"delta", "tools", "error", "answer"}
         /\ e.kind = "delta" <=> e = Delta
         /\ e.kind = "tools" <=> e = ToolCalls
         /\ e.kind = "error" <=> e = Broken
         /\ e.kind = "answer" <=> e \notin {Delta, ToolCalls, Broken}
<1>1. /\ Delta.kind = "delta" /\ ToolCalls.kind = "tools" /\ Broken.kind = "error"
      /\ \A v \in Verdicts : Answered(v).kind = "answer"
  BY DEF Delta, ToolCalls, Broken, Answered
<1> QED
  BY <1>1 DEF StreamEvents, TurnEnds

LEMMA EventsOfTold ==
    ASSUME NEW turn \in TurnsTold
    PROVE  /\ EventsOf(turn) \in Seq(StreamEvents) /\ Closes(EventsOf(turn), turn.end)
           /\ turn.end # Broken => Len(EventsOf(turn)) = turn.deltas + 1
<1>1. turn.end \in StreamEvents /\ turn.deltas \in Nat
  BY DEF TurnsTold, StreamEvents
<1>2. CASE turn.end = Broken
  BY <1>1, <1>2 DEF EventsOf, Closes
<1>3. CASE turn.end # Broken
  <2> DEFINE deltas == [i \in 1..turn.deltas |-> Delta]
  <2>1. deltas \in Seq(StreamEvents) /\ Len(deltas) = turn.deltas
    BY <1>1 DEF StreamEvents
  <2>2. \A i \in 1..turn.deltas : deltas[i] = Delta
    OBVIOUS
  <2>3. EventsOf(turn) = deltas \o <<turn.end>>
    BY <1>3 DEF EventsOf
  <2> HIDE DEF deltas
  <2> DEFINE all == deltas \o <<turn.end>>
  <2>4. /\ all \in Seq(StreamEvents) /\ Len(all) = turn.deltas + 1
        /\ \A i \in 1..Len(all) : all[i] = IF i <= turn.deltas THEN deltas[i] ELSE turn.end
    BY <1>1, <2>1
  <2> HIDE DEF all
  <2>5. all[Len(all)] = turn.end
    <3>1. Len(all) \in 1..Len(all) /\ ~(Len(all) <= turn.deltas)
      BY <1>1, <2>4
    <3> QED
      BY <2>4, <3>1
  <2>6. \A i \in 1..(Len(all) - 1) : all[i] = Delta
    <3>1. \A i \in 1..(Len(all) - 1) : i \in 1..Len(all) /\ i <= turn.deltas /\ i \in 1..turn.deltas
      BY <1>1, <2>4
    <3> QED
      BY <2>2, <2>4, <3>1
  <2>7. Closes(all, turn.end)
    BY <1>1, <2>4, <2>5, <2>6 DEF Closes
  <2> QED
    BY <2>3, <2>4, <2>7 DEF all
<1> QED
  BY <1>2, <1>3

(* chat_stream: the call that begins a turn of the recording, or hands out *)
(* the next one of the transcript.                                         *)
LEMMA CallModelInv == ASSUME EvalInv, NEW u \in Units, CallModel(u) PROVE EvalInv'
<1>1. /\ DOMAIN unit = Units /\ UnitShape(unit[u]) /\ DOMAIN unit[u] = UnitFields
      /\ unit[u].at = "ready" /\ mode \in {"record", "replay"}
  BY DEF EvalInv, CallModel, UnitShape
<1>2. CASE Step(u, [at |-> "failed"])
  <2>1. /\ unit'[u].at = "failed" /\ unit'[u].turns = unit[u].turns
        /\ unit'[u].pending = unit[u].pending /\ unit'[u].wire = unit[u].wire
        /\ unit'[u].relay = unit[u].relay /\ unit'[u].text = unit[u].text
        /\ unit'[u].seen = unit[u].seen /\ DOMAIN unit'[u] = UnitFields
    BY <1>1, <1>2, StepTold
  <2>2. UnitShape(unit'[u])
    BY <1>1, <2>1 DEF UnitShape
  <2>3. ASSUME mode = "record" PROVE RunRecorded(unit'[u])
    <3>1. RunRecorded(unit[u])
      BY <2>3 DEF EvalInv
    <3> QED
      BY <1>1, <2>1, <3>1 DEF RunRecorded, Transcript
  <2>4. ASSUME mode = "replay", library[u] # Nothing PROVE RunReplayed(unit'[u], library[u])
    <3>1. RunReplayed(unit[u], library[u]) /\ Kept(library[u])
      BY <2>4 DEF EvalInv
    <3>2. PICK script, seen \in Seq(TurnsTold) : \E ending \in {"done", "failed"} :
            /\ library[u] = [turns |-> script, heard |-> [ended |-> ending, seen |-> seen]]
            /\ Transcript(script, ending, seen)
      BY <3>1 DEF Kept
    <3>3. PICK ending \in {"done", "failed"} :
            /\ library[u] = [turns |-> script, heard |-> [ended |-> ending, seen |-> seen]]
            /\ Transcript(script, ending, seen)
      BY <3>2
    <3>4. library[u].turns = script /\ library[u].heard = [ended |-> ending, seen |-> seen]
      BY <3>3
    <3>5. unit[u].turns = <<>>
      BY <1>2, <2>4, StepTold, <1>1 DEF CallModel
    <3>6. /\ ToolsAlone(unit[u].seen) /\ GoesOn(script, unit[u].seen)
          /\ Len(script) = Len(unit[u].seen) /\ unit[u].seen \in Seq(TurnsTold)
      BY <1>1, <3>1, <3>4, <3>5 DEF RunReplayed, Remains, UnitShape
    <3>7. script = unit[u].seen
      BY <3>6 DEF GoesOn
    <3>8. ending = "failed" /\ seen = unit[u].seen
      BY <3>3, <3>7, <3>6, KindsTold DEF Transcript, ToolsAlone
    <3> QED
      BY <2>1, <3>1, <3>4, <3>8 DEF RunReplayed
  <2> QED
    BY <1>1, <1>2, <2>1, <2>2, <2>3, <2>4, StepInv
<1>3. CASE mode = "record" /\ Step(u, [at |-> "reading", wire |-> "open", relay |-> <<>>, text |-> 0])
  <2>1. /\ unit'[u].at = "reading" /\ unit'[u].turns = unit[u].turns
        /\ unit'[u].pending = unit[u].pending /\ unit'[u].wire = "open"
        /\ unit'[u].relay = <<>> /\ unit'[u].text = 0
        /\ unit'[u].seen = unit[u].seen /\ DOMAIN unit'[u] = UnitFields
    BY <1>1, <1>3, StepTold
  <2>2. UnitShape(unit'[u])
    BY <1>1, <2>1 DEF UnitShape
  <2>3. RunRecorded(unit[u])
    BY <1>3 DEF EvalInv
  <2>4. RunRecorded(unit'[u])
    BY <1>1, <2>1, <2>3 DEF RunRecorded, StreamRecorded, DeltasAlone
  <2> QED
    BY <1>1, <1>3, <2>1, <2>2, <2>4, StepInv
<1>4. CASE /\ mode = "replay" /\ unit[u].turns # <<>>
           /\ Step(u, [at |-> "reading", turns |-> Tail(unit[u].turns), text |-> 0,
                       wire |-> "closed", relay |-> EventsOf(Head(unit[u].turns))])
  <2> DEFINE turn == Head(unit[u].turns)
             new == [at |-> "reading", turns |-> Tail(unit[u].turns), text |-> 0,
                     wire |-> "closed", relay |-> EventsOf(turn)]
  <2>0. /\ DOMAIN new = {"at", "turns", "text", "wire", "relay"}
        /\ new.at = "reading" /\ new.turns = Tail(unit[u].turns) /\ new.text = 0
        /\ new.wire = "closed" /\ new.relay = EventsOf(turn)
        /\ Step(u, new)
    BY <1>4
  <2> HIDE DEF new
  <2>1. /\ unit'[u].at = "reading" /\ unit'[u].turns = Tail(unit[u].turns)
        /\ unit'[u].pending = unit[u].pending /\ unit'[u].wire = "closed"
        /\ unit'[u].relay = EventsOf(turn) /\ unit'[u].text = 0
        /\ unit'[u].seen = unit[u].seen /\ DOMAIN unit'[u] = UnitFields
    BY <1>1, <2>0, StepTold
  <2>2. /\ unit[u].turns \in Seq(TurnsTold) /\ turn \in TurnsTold /\ turn = unit[u].turns[1]
        /\ Tail(unit[u].turns) \in Seq(TurnsTold)
        /\ Len(Tail(unit[u].turns)) = Len(unit[u].turns) - 1 /\ Len(unit[u].turns) >= 1
        /\ \A i \in 1..Len(Tail(unit[u].turns)) : Tail(unit[u].turns)[i] = unit[u].turns[i + 1]
    BY <1>1, <1>4 DEF UnitShape
  <2> HIDE DEF turn
  <2>3. /\ EventsOf(turn) \in Seq(StreamEvents) /\ Closes(EventsOf(turn), turn.end)
        /\ turn.end # Broken => Len(EventsOf(turn)) = turn.deltas + 1
        /\ turn.deltas \in Nat
    BY <2>2, EventsOfTold DEF TurnsTold
  <2>4. UnitShape(unit'[u])
    BY <1>1, <2>1, <2>2, <2>3 DEF UnitShape
  <2>5. ASSUME library[u] # Nothing PROVE RunReplayed(unit'[u], library[u])
    <3> DEFINE all == library[u].turns
               n == Len(unit[u].seen)
    <3>1. /\ ToolsAlone(unit[u].seen) /\ GoesOn(all, unit[u].seen)
          /\ Remains(unit[u].turns, all, n) /\ n \in Nat
      <4>1. RunReplayed(unit[u], library[u])
        BY <1>4, <2>5 DEF EvalInv
      <4> QED
        BY <1>1, <4>1 DEF RunReplayed, UnitShape
    <3> HIDE DEF all, n
    <3>2. all[n + 1] = turn
      BY <2>2, <3>1 DEF Remains
    <3>3. Remains(Tail(unit[u].turns), all, n + 1)
      <4> DEFINE m == Len(unit[u].turns)
                 k == Len(Tail(unit[u].turns))
      <4>1. Len(all) = n + 1 + Len(Tail(unit[u].turns))
        <5>1. m \in Nat /\ k = m - 1
          BY <2>2
        <5>2. Len(all) = n + m
          BY <3>1 DEF Remains
        <5>3. n \in Nat
          BY <3>1
        <5> HIDE DEF m, k
        <5>4. Len(all) = n + 1 + k
          BY <5>1, <5>2, <5>3
        <5> QED
          BY <5>4 DEF k
      <4>2. ASSUME NEW i \in 1..Len(Tail(unit[u].turns))
            PROVE  Tail(unit[u].turns)[i] = all[n + 1 + i]
        <5>1. i + 1 \in 1..Len(unit[u].turns) /\ n + (i + 1) = n + 1 + i
          BY <2>2, <3>1
        <5> QED
          BY <2>2, <3>1, <5>1 DEF Remains
      <4> QED
        BY <4>1, <4>2 DEF Remains
    <3> QED
      BY <2>1, <2>3, <3>1, <3>2, <3>3 DEF RunReplayed, all, n
  <2> QED
    BY <1>1, <1>4, <2>0, <2>1, <2>4, <2>5, StepInv
<1> QED
  BY <1>1, <1>2, <1>3, <1>4 DEF CallModel

(* A stream that is being recorded, or replayed, brings its next event.    *)
LEMMA RelayTold ==
    ASSUME NEW relay \in Seq(StreamEvents), relay # <<>>
    PROVE  /\ Head(relay) \in StreamEvents /\ Head(relay) = relay[1]
           /\ Tail(relay) \in Seq(StreamEvents) /\ Len(Tail(relay)) = Len(relay) - 1
           /\ Len(relay) \in Nat /\ Len(relay) >= 1
           /\ \A i \in 1..Len(Tail(relay)) : i + 1 \in 1..Len(relay) /\ Tail(relay)[i] = relay[i + 1]
           /\ DeltasAlone(relay) => Head(relay) = Delta /\ DeltasAlone(Tail(relay))
           /\ \A end : Closes(relay, end) /\ Head(relay) = Delta /\ end # Delta => Closes(Tail(relay), end)
           /\ \A end : Closes(relay, end) /\ Head(relay) # Delta => Head(relay) = end /\ Len(relay) = 1
<1> DEFINE tail == Tail(relay)
           n == Len(relay)
<1>1. /\ Head(relay) \in StreamEvents /\ Head(relay) = relay[1]
      /\ tail \in Seq(StreamEvents) /\ Len(tail) = n - 1 /\ n \in Nat /\ n >= 1
      /\ \A i \in 1..Len(tail) : tail[i] = relay[i + 1]
  OBVIOUS
<1> HIDE DEF tail, n
<1>2. \A i \in 1..Len(tail) : i + 1 \in 1..n
  BY <1>1
<1>3. ASSUME DeltasAlone(relay) PROVE Head(relay) = Delta /\ DeltasAlone(tail)
  BY <1>1, <1>2, <1>3 DEF DeltasAlone, n
<1>4. ASSUME NEW end, Closes(relay, end), Head(relay) = Delta, end # Delta PROVE Closes(tail, end)
  <2>1. n # 1
    BY <1>1, <1>4 DEF Closes, n
  <2>2. n - 1 \in 1..Len(tail) /\ tail[n - 1] = relay[n]
    BY <1>1, <2>1
  <2>3. \A i \in 1..(Len(tail) - 1) : i \in 1..Len(tail) /\ i + 1 \in 1..(n - 1)
    BY <1>1
  <2>4. \A i \in 1..(n - 1) : relay[i] = Delta
    BY <1>4 DEF Closes, n
  <2>5. relay[n] = end
    BY <1>4 DEF Closes, n
  <2>6. \A i \in 1..(Len(tail) - 1) : tail[i] = Delta
    BY <1>1, <2>3, <2>4
  <2>7. Len(tail) = n - 1 /\ tail[Len(tail)] = end /\ Len(tail) >= 1
    BY <1>1, <2>1, <2>2, <2>5
  <2> QED
    BY <2>6, <2>7 DEF Closes
<1>5. ASSUME NEW end, Closes(relay, end), Head(relay) # Delta PROVE Head(relay) = end /\ n = 1
  <2>1. \A i \in 1..(n - 1) : relay[i] = Delta
    BY <1>5 DEF Closes, n
  <2>2. 1 \notin 1..(n - 1)
    BY <1>1, <1>5, <2>1
  <2>3. n = 1
    BY <1>1, <2>2
  <2> QED
    BY <1>1, <1>5, <2>3 DEF Closes, n
<1> QED
  BY <1>1, <1>2, <1>3, <1>4, <1>5 DEF tail, n

LEMMA ForwardInv == ASSUME EvalInv, NEW u \in Units, Forward(u) PROVE EvalInv'
<1> DEFINE r == unit[u]
<1>1. /\ DOMAIN unit = Units /\ UnitShape(r) /\ DOMAIN r = UnitFields
      /\ r.wire = "open" /\ r.at # "off" /\ mode \in {"record", "replay"}
  BY DEF EvalInv, Forward, UnitShape
<1>2. /\ mode = "replay" => library[u] = Nothing
      /\ mode = "record" => r.at = "reading" /\ RunRecorded(r)
  BY <1>1 DEF EvalInv, RunReplayed, RunRecorded
<1>3. mode = "record" =>
        /\ ToolsAlone(r.seen) /\ r.turns = r.seen
        /\ DeltasAlone(r.relay) /\ r.pending = r.text + Len(r.relay)
  BY <1>1, <1>2 DEF RunRecorded, StreamRecorded
<1>4. /\ r.turns \in Seq(TurnsTold) /\ r.seen \in Seq(TurnsTold) /\ r.relay \in Seq(StreamEvents)
      /\ r.pending \in Nat /\ r.text \in Nat
  BY <1>1 DEF UnitShape
<1> HIDE DEF r
<1>5. CASE Step(u, [pending |-> r.pending + 1, relay |-> Append(r.relay, Delta)])
  <2>1. /\ unit'[u].at = r.at /\ unit'[u].turns = r.turns
        /\ unit'[u].pending = r.pending + 1 /\ unit'[u].wire = r.wire
        /\ unit'[u].relay = Append(r.relay, Delta) /\ unit'[u].text = r.text
        /\ unit'[u].seen = r.seen /\ DOMAIN unit'[u] = UnitFields
    BY <1>1, <1>5, StepTold DEF r
  <2>2. /\ Append(r.relay, Delta) \in Seq(StreamEvents)
        /\ Len(Append(r.relay, Delta)) = Len(r.relay) + 1
        /\ DeltasAlone(r.relay) => DeltasAlone(Append(r.relay, Delta))
    BY <1>4 DEF StreamEvents, DeltasAlone
  <2>3. UnitShape(unit'[u])
    BY <1>4, <2>1, <2>2 DEF UnitShape
  <2>4. ASSUME mode = "record" PROVE RunRecorded(unit'[u])
    BY <1>1, <1>2, <1>3, <1>4, <2>1, <2>2, <2>4 DEF RunRecorded, StreamRecorded
  <2> QED
    BY <1>1, <1>2, <1>5, <2>1, <2>3, <2>4, StepInv
<1>6. ASSUME NEW end \in TurnEnds,
             Step(u, [turns |-> Append(r.turns, [deltas |-> r.pending, end |-> end]),
                      pending |-> 0, wire |-> "closed", relay |-> Append(r.relay, end)])
      PROVE  EvalInv'
  <2> DEFINE turn == [deltas |-> r.pending, end |-> end]
             new == [turns |-> Append(r.turns, turn), pending |-> 0, wire |-> "closed",
                     relay |-> Append(r.relay, end)]
             script == Append(r.turns, turn)
             relay == Append(r.relay, end)
  <2>1. /\ DOMAIN new = {"turns", "pending", "wire", "relay"}
        /\ new.turns = script /\ new.pending = 0 /\ new.wire = "closed" /\ new.relay = relay
        /\ Step(u, new)
    BY <1>6
  <2>2. /\ turn \in TurnsTold /\ turn.deltas = r.pending /\ turn.end = end
        /\ end \in StreamEvents
    BY <1>4 DEF TurnsTold, StreamEvents
  <2> HIDE DEF new, turn
  <2>3. /\ script \in Seq(TurnsTold) /\ Len(script) = Len(r.turns) + 1 /\ script[Len(script)] = turn
        /\ GoesOn(script, r.turns)
    BY <1>4, <2>2 DEF GoesOn
  <2>4. relay \in Seq(StreamEvents) /\ Len(relay) = Len(r.relay) + 1
    BY <1>4, <2>2
  <2>5. DeltasAlone(r.relay) => Closes(relay, end)
    BY <1>4, <2>4 DEF DeltasAlone, Closes
  <2> HIDE DEF script, relay
  <2>6. /\ unit'[u].at = r.at /\ unit'[u].turns = script
        /\ unit'[u].pending = 0 /\ unit'[u].wire = "closed"
        /\ unit'[u].relay = relay /\ unit'[u].text = r.text
        /\ unit'[u].seen = r.seen /\ DOMAIN unit'[u] = UnitFields
    BY <1>1, <2>1, StepTold DEF r
  <2>7. UnitShape(unit'[u])
    BY <1>4, <2>3, <2>4, <2>6 DEF UnitShape
  <2>8. ASSUME mode = "record" PROVE RunRecorded(unit'[u])
    <3>1. turn.deltas = r.text + Len(relay) - 1
      BY <1>3, <1>4, <2>2, <2>4, <2>8
    <3>2. StreamRecorded(unit'[u])
      BY <1>3, <2>2, <2>3, <2>5, <2>6, <2>8, <3>1 DEF StreamRecorded
    <3> QED
      BY <1>2, <2>6, <2>8, <3>2 DEF RunRecorded
  <2> QED
    BY <1>1, <1>2, <2>1, <2>6, <2>7, <2>8, StepInv
<1>7. CASE Step(u, [wire |-> "closed"])
  <2>1. /\ unit'[u].at = r.at /\ unit'[u].turns = r.turns
        /\ unit'[u].pending = r.pending /\ unit'[u].wire = "closed"
        /\ unit'[u].relay = r.relay /\ unit'[u].text = r.text
        /\ unit'[u].seen = r.seen /\ DOMAIN unit'[u] = UnitFields
    BY <1>1, <1>7, StepTold DEF r
  <2>2. UnitShape(unit'[u])
    BY <1>4, <2>1 DEF UnitShape
  <2>3. ASSUME mode = "record" PROVE RunRecorded(unit'[u])
    BY <1>2, <1>3, <2>1, <2>3 DEF RunRecorded, StreamRecorded
  <2> QED
    BY <1>1, <1>2, <1>7, <2>1, <2>2, <2>3, StepInv
<1> QED
  BY <1>5, <1>6, <1>7 DEF Forward, TakePending, TurnEnds, r

(* What has been seen goes on with the next turn of the whole.             *)
LEMMA SeenNext ==
    ASSUME NEW seen \in Seq(TurnsTold), NEW all \in Seq(TurnsTold), GoesOn(all, seen),
           Len(all) >= Len(seen) + 1, NEW turn, turn = all[Len(seen) + 1]
    PROVE  /\ turn \in TurnsTold /\ Append(seen, turn) \in Seq(TurnsTold)
           /\ Len(Append(seen, turn)) = Len(seen) + 1
           /\ GoesOn(all, Append(seen, turn))
           /\ Len(all) = Len(seen) + 1 => all = Append(seen, turn)
           /\ ToolsAlone(seen) /\ turn.end = ToolCalls => ToolsAlone(Append(seen, turn))
           /\ \A i \in 1..Len(seen) : Append(seen, turn)[i] = seen[i]
           /\ Append(seen, turn)[Len(seen) + 1] = turn
<1> DEFINE more == Append(seen, turn)
           n == Len(seen)
<1>1. n \in Nat /\ n + 1 \in 1..Len(all) /\ Len(all) \in Nat
  OBVIOUS
<1>2. turn \in TurnsTold
  BY <1>1
<1>3. /\ more \in Seq(TurnsTold) /\ Len(more) = n + 1
      /\ \A i \in 1..n : more[i] = seen[i]
      /\ more[n + 1] = turn
  BY <1>1, <1>2
<1> HIDE DEF more, n
<1>4. \A i \in 1..n + 1 : i \in 1..n \/ i = n + 1
  BY <1>1
<1>5. \A i \in 1..n + 1 : all[i] = more[i]
  BY <1>1, <1>3, <1>4 DEF GoesOn, n
<1>6. GoesOn(all, more)
  BY <1>1, <1>3, <1>5 DEF GoesOn
<1>7. Len(all) = n + 1 => all = more
  BY <1>1, <1>3, <1>5
<1>8. ToolsAlone(seen) /\ turn.end = ToolCalls => ToolsAlone(more)
  BY <1>3, <1>4 DEF ToolsAlone, n
<1> QED
  BY <1>2, <1>3, <1>6, <1>7, <1>8 DEF more, n

(* A turn that ends as it is told to is that turn.                         *)
LEMMA TurnIs ==
    ASSUME NEW turn \in TurnsTold
    PROVE  turn = [deltas |-> turn.deltas, end |-> turn.end]
  BY DEF TurnsTold

(* The turn after what was seen by tool calls alone: where a transcript    *)
(* breaks it has been heard up to there, where it answers it is at its end.*)
LEMMA HeardAtEnd ==
    ASSUME NEW file, Kept(file), NEW seen \in Seq(TurnsTold), GoesOn(file.turns, seen),
           ToolsAlone(seen), Len(file.turns) >= Len(seen) + 1,
           file.turns[Len(seen) + 1].end # ToolCalls
    PROVE  LET turn == file.turns[Len(seen) + 1] IN
           /\ turn.end = Broken => file.heard = [ended |-> "failed", seen |-> seen]
           /\ turn.end # Broken => file.heard = [ended |-> "done", seen |-> Append(seen, turn)]
<1>1. PICK all, heard \in Seq(TurnsTold) : \E ending \in {"done", "failed"} :
        /\ file = [turns |-> all, heard |-> [ended |-> ending, seen |-> heard]]
        /\ Transcript(all, ending, heard)
  BY DEF Kept
<1>2. PICK ending \in {"done", "failed"} :
        /\ file = [turns |-> all, heard |-> [ended |-> ending, seen |-> heard]]
        /\ Transcript(all, ending, heard)
  BY <1>1
<1>3. file.turns = all /\ file.heard = [ended |-> ending, seen |-> heard]
  BY <1>2
<1> DEFINE n == Len(seen)
           turn == all[n + 1]
<1>4. n \in Nat /\ Len(all) \in Nat /\ Len(heard) \in Nat /\ n + 1 \in 1..Len(all)
  BY <1>3
<1>5. turn.end # ToolCalls
  BY <1>3
<1>6. CASE ending = "done" /\ all = heard
  <2>1. n + 1 = Len(heard)
    <3>1. n + 1 \notin 1..(Len(heard) - 1)
      BY <1>2, <1>5, <1>6 DEF Transcript
    <3> QED
      BY <1>4, <1>6, <3>1
  <2>2. turn.end # Broken
    BY <1>2, <1>6, <2>1 DEF Transcript
  <2>3. all = Append(seen, turn)
    BY <1>3, <1>4, <1>6, <2>1, SeenNext
  <2> QED
    BY <1>3, <1>6, <2>2, <2>3
<1>7. CASE ending = "failed" /\ ToolsAlone(heard) /\ all = heard
  BY <1>4, <1>5, <1>7 DEF ToolsAlone
<1>8. CASE /\ ending = "failed" /\ ToolsAlone(heard) /\ Len(all) = Len(heard) + 1
           /\ GoesOn(all, heard) /\ all[Len(all)].end = Broken
  <2>1. n + 1 \notin 1..Len(heard)
    BY <1>5, <1>8 DEF GoesOn, ToolsAlone
  <2>2. n = Len(heard)
    BY <1>4, <1>8, <2>1
  <2>3. turn.end = Broken
    BY <1>8, <2>2
  <2>4. \A i \in 1..n : seen[i] = heard[i]
    BY <1>3, <1>8, <2>2 DEF GoesOn
  <2>5. seen = heard
    BY <2>2, <2>4
  <2> QED
    BY <1>3, <1>8, <2>3, <2>5
<1> QED
  BY <1>2, <1>6, <1>7, <1>8 DEF Transcript

(* AnswerLoop::turn reads the event at the head of the relay.              *)
LEMMA ReadsDelta ==
    ASSUME EvalInv, NEW u \in Units, unit[u].at = "reading", unit[u].relay # <<>>,
           Head(unit[u].relay) = Delta,
           Step(u, [relay |-> Tail(unit[u].relay), text |-> unit[u].text + 1])
    PROVE  EvalInv'
<1> DEFINE r == unit[u]
           rest == Tail(r.relay)
<1>1. /\ DOMAIN unit = Units /\ DOMAIN r = UnitFields /\ mode \in {"record", "replay"}
      /\ r.turns \in Seq(TurnsTold) /\ r.seen \in Seq(TurnsTold) /\ r.relay \in Seq(StreamEvents)
      /\ r.pending \in Nat /\ r.text \in Nat
  BY DEF EvalInv, UnitShape
<1>2. /\ rest \in Seq(StreamEvents) /\ Len(rest) = Len(r.relay) - 1
      /\ Len(r.relay) \in Nat /\ Len(r.relay) >= 1
      /\ DeltasAlone(r.relay) => DeltasAlone(rest)
      /\ \A end : Closes(r.relay, end) /\ end # Delta => Closes(rest, end)
  BY <1>1, RelayTold
<1> DEFINE new == [relay |-> Tail(unit[u].relay), text |-> unit[u].text + 1]
<1>0. /\ DOMAIN new = {"relay", "text"} /\ new.relay = rest /\ new.text = r.text + 1
      /\ Step(u, new)
  OBVIOUS
<1> HIDE DEF r, rest, new
<1>3. /\ unit'[u].at = "reading" /\ unit'[u].turns = r.turns
      /\ unit'[u].pending = r.pending /\ unit'[u].wire = r.wire
      /\ unit'[u].relay = rest /\ unit'[u].text = r.text + 1
      /\ unit'[u].seen = r.seen /\ DOMAIN unit'[u] = UnitFields
  BY <1>0, <1>1, StepTold DEF r
<1>4. UnitShape(unit'[u])
  BY <1>1, <1>2, <1>3 DEF UnitShape
<1> DEFINE k == Len(rest)
           m == Len(r.relay)
           t == r.text
<1>9. k = m - 1 /\ m \in Nat /\ t \in Nat /\ r.pending \in Nat
  BY <1>1, <1>2
<1> HIDE DEF k, m, t
<1>5. \A x \in Int : x = t + m - 1 => x = (t + 1) + k - 1
  BY <1>9
<1>6. r.pending = t + m => r.pending = (t + 1) + k
  BY <1>9
<1>7. ASSUME mode = "record" PROVE RunRecorded(unit'[u])
  <2>1. StreamRecorded(r)
    BY <1>7 DEF EvalInv, RunRecorded, r
  <2>2. CASE /\ r.wire = "open" /\ r.turns = r.seen
             /\ DeltasAlone(r.relay) /\ r.pending = r.text + Len(r.relay)
    BY <1>2, <1>3, <1>6, <2>1, <2>2 DEF RunRecorded, StreamRecorded, k, m, t
  <2>3. CASE r.wire = "closed" /\ r.turns = r.seen /\ DeltasAlone(r.relay)
    BY <1>2, <1>3, <2>1, <2>3 DEF RunRecorded, StreamRecorded
  <2>4. CASE /\ r.wire = "closed" /\ r.pending = 0
             /\ Len(r.turns) = Len(r.seen) + 1 /\ GoesOn(r.turns, r.seen)
             /\ Closes(r.relay, r.turns[Len(r.turns)].end)
             /\ r.turns[Len(r.turns)].deltas = r.text + Len(r.relay) - 1
    <3>1. r.turns[Len(r.turns)] \in TurnsTold
      BY <1>1, <2>4
    <3>2. r.turns[Len(r.turns)].end # Delta /\ r.turns[Len(r.turns)].deltas \in Nat
      BY <3>1, KindsTold DEF TurnsTold
    <3>3. r.turns[Len(r.turns)].deltas = (r.text + 1) + Len(rest) - 1
      BY <1>5, <2>4, <3>2 DEF k, m, t
    <3>4. Closes(rest, r.turns[Len(r.turns)].end)
      BY <1>2, <2>4, <3>2
    <3> QED
      BY <1>3, <2>1, <2>4, <3>3, <3>4 DEF RunRecorded, StreamRecorded
  <2> QED
    BY <2>1, <2>2, <2>3, <2>4 DEF StreamRecorded
<1>8. ASSUME mode = "replay", library[u] # Nothing PROVE RunReplayed(unit'[u], library[u])
  <2> DEFINE all == library[u].turns
             turn == all[Len(r.seen) + 1]
  <2>1. RunReplayed(r, library[u]) /\ Kept(library[u])
    BY <1>8 DEF EvalInv, r
  <2>2. /\ r.wire = "closed" /\ ToolsAlone(r.seen) /\ GoesOn(all, r.seen)
        /\ Remains(r.turns, all, Len(r.seen) + 1)
        /\ Closes(r.relay, turn.end)
        /\ turn.end # Broken => turn.deltas = r.text + Len(r.relay) - 1
    BY <2>1 DEF RunReplayed, r
  <2>3. all \in Seq(TurnsTold)
    BY <2>1 DEF Kept
  <2>4. turn \in TurnsTold
    <3> DEFINE n == Len(r.seen)
               o == Len(r.turns)
    <3>1. n \in Nat /\ o \in Nat /\ Len(all) = n + 1 + o
      BY <1>1, <2>2 DEF Remains
    <3> HIDE DEF n, o
    <3>2. n + 1 \in 1..Len(all)
      BY <3>1
    <3> QED
      BY <2>3, <3>2 DEF n
  <2>5. turn.end # Delta /\ turn.deltas \in Nat
    BY <2>4, KindsTold DEF TurnsTold
  <2> HIDE DEF turn
  <2>6. Closes(rest, turn.end)
    BY <1>2, <2>2, <2>5
  <2>7. turn.end # Broken => turn.deltas = (r.text + 1) + Len(rest) - 1
    BY <1>5, <2>2, <2>5 DEF k, m, t
  <2> QED
    BY <1>3, <2>2, <2>6, <2>7 DEF RunReplayed, turn
<1> QED
  BY <1>0, <1>1, <1>3, <1>4, <1>7, <1>8, StepInv

(* The end of a turn is read: it is the last one recorded, or the next one *)
(* of the transcript, with all its deltas.                                 *)
LEMMA EndTold ==
    ASSUME EvalInv, NEW u \in Units, unit[u].at = "reading", unit[u].relay # <<>>,
           NEW end, end = Head(unit[u].relay), end # Delta,
           NEW turn, turn = [deltas |-> unit[u].text, end |-> end]
    PROVE  /\ end \in TurnEnds /\ turn \in TurnsTold
           /\ mode = "record" =>
                /\ unit[u].wire = "closed" /\ unit[u].pending = 0 /\ ToolsAlone(unit[u].seen)
                /\ Len(unit[u].turns) = Len(unit[u].seen) + 1 /\ GoesOn(unit[u].turns, unit[u].seen)
                /\ unit[u].turns[Len(unit[u].seen) + 1] = turn
           /\ mode = "replay" /\ library[u] # Nothing =>
                /\ unit[u].wire = "closed" /\ ToolsAlone(unit[u].seen)
                /\ GoesOn(library[u].turns, unit[u].seen)
                /\ library[u].turns \in Seq(TurnsTold)
                /\ Len(library[u].turns) >= Len(unit[u].seen) + 1
                /\ Remains(unit[u].turns, library[u].turns, Len(unit[u].seen) + 1)
                /\ Kept(library[u])
                /\ library[u].turns[Len(unit[u].seen) + 1].end = end
                /\ end # Broken => library[u].turns[Len(unit[u].seen) + 1] = turn
<1> DEFINE r == unit[u]
<1>1. /\ r.turns \in Seq(TurnsTold) /\ r.seen \in Seq(TurnsTold) /\ r.relay \in Seq(StreamEvents)
      /\ r.pending \in Nat /\ r.text \in Nat
  BY DEF EvalInv, UnitShape
<1>2. /\ end \in StreamEvents /\ end # Delta
      /\ \A e : Closes(r.relay, e) => end = e /\ Len(r.relay) = 1
      /\ ~DeltasAlone(r.relay)
  BY <1>1, RelayTold
<1>3. end \in TurnEnds /\ turn \in TurnsTold
  BY <1>1, <1>2 DEF StreamEvents, TurnsTold
<1> DEFINE n == Len(r.seen)
<1>4. n \in Nat
  BY <1>1
<1>5. ASSUME mode = "record"
      PROVE  /\ r.wire = "closed" /\ r.pending = 0 /\ ToolsAlone(r.seen)
             /\ Len(r.turns) = n + 1 /\ GoesOn(r.turns, r.seen)
             /\ r.turns[n + 1] = turn
  <2>1. StreamRecorded(r)
    BY <1>5 DEF EvalInv, RunRecorded
  <2> HIDE DEF r
  <2>2. /\ r.wire = "closed" /\ r.pending = 0 /\ ToolsAlone(r.seen)
        /\ Len(r.turns) = Len(r.seen) + 1 /\ GoesOn(r.turns, r.seen)
        /\ Closes(r.relay, r.turns[Len(r.turns)].end)
        /\ r.turns[Len(r.turns)].deltas = r.text + Len(r.relay) - 1
    BY <1>2, <2>1 DEF StreamRecorded
  <2>3. r.turns[n + 1] \in TurnsTold
    BY <1>1, <1>4, <2>2
  <2>4. r.turns[n + 1].end = end /\ Len(r.relay) = 1
    BY <1>2, <2>2
  <2>5. r.turns[n + 1].deltas = r.text
    BY <1>1, <2>2, <2>4
  <2>6. r.turns[n + 1] = turn
    BY <2>3, <2>4, <2>5, TurnIs DEF r
  <2> QED
    BY <2>2, <2>6
<1>6. ASSUME mode = "replay", library[u] # Nothing
      PROVE  /\ r.wire = "closed" /\ ToolsAlone(r.seen) /\ GoesOn(library[u].turns, r.seen)
             /\ library[u].turns \in Seq(TurnsTold) /\ Len(library[u].turns) >= n + 1
             /\ Remains(r.turns, library[u].turns, n + 1) /\ Kept(library[u])
             /\ library[u].turns[n + 1].end = end
             /\ end # Broken => library[u].turns[n + 1] = turn
  <2> DEFINE all == library[u].turns
             next == all[n + 1]
             o == Len(r.turns)
  <2>1. RunReplayed(r, library[u]) /\ Kept(library[u]) /\ r.at = "reading"
    BY <1>6 DEF EvalInv
  <2>2. /\ r.wire = "closed" /\ ToolsAlone(r.seen) /\ GoesOn(all, r.seen)
        /\ Remains(r.turns, all, n + 1)
        /\ Closes(r.relay, next.end)
        /\ next.end # Broken => next.deltas = r.text + Len(r.relay) - 1
    BY <2>1 DEF RunReplayed
  <2>3. all \in Seq(TurnsTold)
    BY <2>1 DEF Kept
  <2>4. o \in Nat /\ Len(all) = n + 1 + o
    BY <1>1, <2>2 DEF Remains
  <2> HIDE DEF r, n, o
  <2>5. n + 1 \in 1..Len(all) /\ Len(all) >= n + 1
    BY <1>4, <2>4
  <2>6. next \in TurnsTold
    BY <2>3, <2>5
  <2>7. next.end = end /\ Len(r.relay) = 1
    BY <1>2, <2>2
  <2>8. ASSUME end # Broken PROVE next = turn
    <3>1. next.deltas = r.text
      BY <1>1, <2>2, <2>7, <2>8
    <3> QED
      BY <2>6, <2>7, <3>1, TurnIs DEF r
  <2> QED
    BY <2>1, <2>2, <2>3, <2>5, <2>7, <2>8 DEF n
<1> QED
  BY <1>3, <1>5, <1>6

LEMMA ReadsNothing ==
    ASSUME EvalInv, NEW u \in Units, unit[u].at = "reading", unit[u].relay = <<>>,
           unit[u].wire = "closed", Step(u, [at |-> "failed"])
    PROVE  EvalInv'
<1> DEFINE r == unit[u]
<1>1. /\ DOMAIN unit = Units /\ DOMAIN r = UnitFields /\ UnitShape(r) /\ mode # "idle"
  BY DEF EvalInv, UnitShape
<1>2. /\ unit'[u].at = "failed" /\ unit'[u].turns = r.turns
      /\ unit'[u].pending = r.pending /\ unit'[u].wire = r.wire
      /\ unit'[u].relay = r.relay /\ unit'[u].text = r.text
      /\ unit'[u].seen = r.seen /\ DOMAIN unit'[u] = UnitFields
  BY <1>1, StepTold
<1>3. UnitShape(unit'[u])
  BY <1>1, <1>2 DEF UnitShape
<1>4. \A end : ~Closes(r.relay, end)
  BY DEF Closes
<1>5. ASSUME mode = "record" PROVE RunRecorded(unit'[u])
  <2>1. StreamRecorded(r)
    BY <1>5 DEF EvalInv, RunRecorded
  <2> HIDE DEF r
  <2>2. ToolsAlone(r.seen) /\ r.turns = r.seen
    BY <1>4, <2>1, <1>1 DEF StreamRecorded, r
  <2>3. r.wire = "closed"
    BY DEF r
  <2> QED
    BY <1>2, <2>2, <2>3 DEF RunRecorded, Transcript
<1>6. ~(mode = "replay" /\ library[u] # Nothing)
  BY <1>4 DEF EvalInv, RunReplayed
<1> QED
  BY <1>1, <1>2, <1>3, <1>5, <1>6, StepInv

LEMMA ReadsBroken ==
    ASSUME EvalInv, NEW u \in Units, unit[u].at = "reading", unit[u].relay # <<>>,
           Head(unit[u].relay) = Broken,
           Step(u, [relay |-> Tail(unit[u].relay), at |-> "failed"])
    PROVE  EvalInv'
<1> DEFINE r == unit[u]
           rest == Tail(r.relay)
           new == [relay |-> rest, at |-> "failed"]
<1>1. /\ DOMAIN unit = Units /\ DOMAIN r = UnitFields /\ UnitShape(r) /\ mode # "idle"
      /\ r.turns \in Seq(TurnsTold) /\ r.seen \in Seq(TurnsTold) /\ rest \in Seq(StreamEvents)
  BY DEF EvalInv, UnitShape
<1>2. Broken # Delta /\ Broken # ToolCalls
  BY KindsTold DEF TurnEnds
<1>3. /\ mode = "record" =>
           /\ r.wire = "closed" /\ ToolsAlone(r.seen)
           /\ Len(r.turns) = Len(r.seen) + 1 /\ GoesOn(r.turns, r.seen)
           /\ r.turns[Len(r.seen) + 1].end = Broken
      /\ mode = "replay" /\ library[u] # Nothing =>
           /\ r.wire = "closed" /\ ToolsAlone(r.seen) /\ GoesOn(library[u].turns, r.seen)
           /\ Len(library[u].turns) >= Len(r.seen) + 1 /\ Kept(library[u])
           /\ library[u].turns[Len(r.seen) + 1].end = Broken
  <2> DEFINE turn == [deltas |-> unit[u].text, end |-> Broken]
  <2>1. turn.end = Broken /\ Broken = Head(unit[u].relay)
        /\ turn = [deltas |-> unit[u].text, end |-> Broken]
    OBVIOUS
  <2> HIDE DEF turn
  <2>2. mode = "record" =>
           /\ unit[u].wire = "closed" /\ ToolsAlone(unit[u].seen)
           /\ Len(unit[u].turns) = Len(unit[u].seen) + 1 /\ GoesOn(unit[u].turns, unit[u].seen)
           /\ unit[u].turns[Len(unit[u].seen) + 1] = turn
    BY <1>2, <2>1, EndTold
  <2>3. mode = "replay" /\ library[u] # Nothing =>
           /\ unit[u].wire = "closed" /\ ToolsAlone(unit[u].seen)
           /\ GoesOn(library[u].turns, unit[u].seen)
           /\ Len(library[u].turns) >= Len(unit[u].seen) + 1 /\ Kept(library[u])
           /\ library[u].turns[Len(unit[u].seen) + 1].end = Broken
    BY <1>2, <2>1, EndTold
  <2> QED
    BY <2>1, <2>2, <2>3
<1>4. DOMAIN new = {"relay", "at"} /\ new.relay = rest /\ new.at = "failed" /\ Step(u, new)
  OBVIOUS
<1> HIDE DEF new, rest, r
<1>5. /\ unit'[u].at = "failed" /\ unit'[u].turns = r.turns
      /\ unit'[u].pending = r.pending /\ unit'[u].wire = r.wire
      /\ unit'[u].relay = rest /\ unit'[u].text = r.text
      /\ unit'[u].seen = r.seen /\ DOMAIN unit'[u] = UnitFields
  BY <1>1, <1>4, StepTold DEF r
<1>6. UnitShape(unit'[u])
  BY <1>1, <1>5 DEF UnitShape
<1>7. ASSUME mode = "record" PROVE RunRecorded(unit'[u])
  BY <1>3, <1>5, <1>7 DEF RunRecorded, Transcript
<1>8. ASSUME mode = "replay", library[u] # Nothing PROVE RunReplayed(unit'[u], library[u])
  <2>1. library[u].heard = [ended |-> "failed", seen |-> r.seen]
    BY <1>1, <1>2, <1>3, <1>8, HeardAtEnd
  <2> QED
    BY <1>3, <1>5, <1>8, <2>1 DEF RunReplayed
<1> QED
  BY <1>1, <1>4, <1>5, <1>6, <1>7, <1>8, StepInv

(* AnswerLoop::run appends the turn it has read, and calls the model again *)
(* after tool calls.                                                       *)
LEMMA ReadsTools ==
    ASSUME EvalInv, NEW u \in Units, unit[u].at = "reading", unit[u].relay # <<>>,
           Head(unit[u].relay) = ToolCalls,
           NEW turn, turn = [deltas |-> unit[u].text, end |-> ToolCalls],
           Step(u, [relay |-> Tail(unit[u].relay), at |-> "ready",
                    seen |-> Append(unit[u].seen, turn)])
    PROVE  EvalInv'
<1> DEFINE r == unit[u]
           rest == Tail(r.relay)
           more == Append(r.seen, turn)
           new == [relay |-> rest, at |-> "ready", seen |-> more]
<1>1. /\ DOMAIN unit = Units /\ DOMAIN r = UnitFields /\ UnitShape(r) /\ mode # "idle"
      /\ r.turns \in Seq(TurnsTold) /\ r.seen \in Seq(TurnsTold) /\ rest \in Seq(StreamEvents)
      /\ r.pending \in Nat /\ r.text \in Nat
  BY DEF EvalInv, UnitShape
<1>2. ToolCalls # Delta /\ ToolCalls # Broken /\ turn.end = ToolCalls
  BY KindsTold DEF TurnEnds
<1>3. mode = "record" =>
           /\ r.wire = "closed" /\ r.pending = 0 /\ ToolsAlone(r.seen)
           /\ Len(r.turns) = Len(r.seen) + 1 /\ GoesOn(r.turns, r.seen)
           /\ r.turns[Len(r.seen) + 1] = turn
  BY <1>2, EndTold
<1>4. mode = "replay" /\ library[u] # Nothing =>
           /\ r.wire = "closed" /\ ToolsAlone(r.seen) /\ GoesOn(library[u].turns, r.seen)
           /\ library[u].turns \in Seq(TurnsTold) /\ Len(library[u].turns) >= Len(r.seen) + 1
           /\ Remains(r.turns, library[u].turns, Len(r.seen) + 1)
           /\ library[u].turns[Len(r.seen) + 1] = turn
  BY <1>2, EndTold
<1>5. turn \in TurnsTold
  BY <1>2, EndTold
<1>6. /\ DOMAIN new = {"relay", "at", "seen"} /\ new.relay = rest /\ new.at = "ready"
      /\ new.seen = more /\ Step(u, new)
  OBVIOUS
<1>7. more \in Seq(TurnsTold) /\ Len(more) = Len(r.seen) + 1
  BY <1>1, <1>5
<1> HIDE DEF new, rest, r, more
<1>8. /\ unit'[u].at = "ready" /\ unit'[u].turns = r.turns
      /\ unit'[u].pending = r.pending /\ unit'[u].wire = r.wire
      /\ unit'[u].relay = rest /\ unit'[u].text = r.text
      /\ unit'[u].seen = more /\ DOMAIN unit'[u] = UnitFields
  BY <1>1, <1>6, StepTold DEF r
<1>9. UnitShape(unit'[u])
  BY <1>1, <1>7, <1>8 DEF UnitShape
<1>10. ASSUME mode = "record" PROVE RunRecorded(unit'[u])
  <2>1. Len(r.turns) >= Len(r.seen) + 1
    BY <1>1, <1>3, <1>10
  <2>2. r.turns = more /\ ToolsAlone(more)
    <3>1. /\ r.turns \in Seq(TurnsTold) /\ r.seen \in Seq(TurnsTold) /\ GoesOn(r.turns, r.seen)
          /\ turn = r.turns[Len(r.seen) + 1] /\ Len(r.turns) = Len(r.seen) + 1
          /\ ToolsAlone(r.seen) /\ turn.end = ToolCalls
      BY <1>1, <1>2, <1>3, <1>10
    <3> QED
      BY ONLY <2>1, <3>1, SeenNext DEF more
  <2> QED
    BY <1>3, <1>8, <1>10, <2>2 DEF RunRecorded
<1>11. ASSUME mode = "replay", library[u] # Nothing PROVE RunReplayed(unit'[u], library[u])
  <2>1. GoesOn(library[u].turns, more) /\ ToolsAlone(more)
    BY <1>1, <1>2, <1>4, <1>11, SeenNext DEF more
  <2> QED
    BY <1>4, <1>7, <1>8, <1>11, <2>1 DEF RunReplayed
<1> QED
  BY <1>1, <1>6, <1>8, <1>9, <1>10, <1>11, StepInv

LEMMA ReadsAnswer ==
    ASSUME EvalInv, NEW u \in Units, unit[u].at = "reading", unit[u].relay # <<>>,
           NEW end, end = Head(unit[u].relay), end \notin {Delta, ToolCalls, Broken},
           NEW turn, turn = [deltas |-> unit[u].text, end |-> end],
           Step(u, [relay |-> Tail(unit[u].relay), at |-> "done",
                    seen |-> Append(unit[u].seen, turn)])
    PROVE  EvalInv'
<1> DEFINE r == unit[u]
           rest == Tail(r.relay)
           more == Append(r.seen, turn)
           new == [relay |-> rest, at |-> "done", seen |-> more]
<1>1. /\ DOMAIN unit = Units /\ DOMAIN r = UnitFields /\ UnitShape(r) /\ mode # "idle"
      /\ r.turns \in Seq(TurnsTold) /\ r.seen \in Seq(TurnsTold) /\ rest \in Seq(StreamEvents)
      /\ r.pending \in Nat /\ r.text \in Nat
  BY DEF EvalInv, UnitShape
<1>2. end # Delta /\ end # Broken /\ end # ToolCalls /\ turn.end = end
  OBVIOUS
<1>3. mode = "record" =>
           /\ r.wire = "closed" /\ r.pending = 0 /\ ToolsAlone(r.seen)
           /\ Len(r.turns) = Len(r.seen) + 1 /\ GoesOn(r.turns, r.seen)
           /\ r.turns[Len(r.seen) + 1] = turn
  BY <1>2, EndTold
<1>4. mode = "replay" /\ library[u] # Nothing =>
           /\ r.wire = "closed" /\ ToolsAlone(r.seen) /\ GoesOn(library[u].turns, r.seen)
           /\ Len(library[u].turns) >= Len(r.seen) + 1 /\ Kept(library[u])
           /\ library[u].turns[Len(r.seen) + 1] = turn
  BY <1>2, EndTold
<1>5. turn \in TurnsTold
  BY <1>2, EndTold
<1>6. /\ DOMAIN new = {"relay", "at", "seen"} /\ new.relay = rest /\ new.at = "done"
      /\ new.seen = more /\ Step(u, new)
  OBVIOUS
<1>7. more \in Seq(TurnsTold) /\ Len(more) = Len(r.seen) + 1
  BY <1>1, <1>5
<1> HIDE DEF new, rest, r, more
<1>8. /\ unit'[u].at = "done" /\ unit'[u].turns = r.turns
      /\ unit'[u].pending = r.pending /\ unit'[u].wire = r.wire
      /\ unit'[u].relay = rest /\ unit'[u].text = r.text
      /\ unit'[u].seen = more /\ DOMAIN unit'[u] = UnitFields
  BY <1>1, <1>6, StepTold DEF r
<1>9. UnitShape(unit'[u])
  BY <1>1, <1>7, <1>8 DEF UnitShape
<1>10. ASSUME mode = "record" PROVE RunRecorded(unit'[u])
  <2>0. Len(r.turns) >= Len(r.seen) + 1
    BY <1>1, <1>3, <1>10
  <2>1. r.turns = more
    <3>1. /\ r.turns \in Seq(TurnsTold) /\ r.seen \in Seq(TurnsTold) /\ GoesOn(r.turns, r.seen)
          /\ turn = r.turns[Len(r.seen) + 1] /\ Len(r.turns) = Len(r.seen) + 1
      BY <1>1, <1>3, <1>10
    <3> QED
      BY ONLY <2>0, <3>1, SeenNext DEF more
  <2>2. /\ Len(more) >= 1 /\ more[Len(more)] = turn
        /\ \A i \in 1..(Len(more) - 1) : i \in 1..Len(r.seen) /\ more[i] = r.seen[i]
    BY <1>1, <1>5, <1>7 DEF more
  <2>3. Transcript(r.turns, "done", more)
    BY <1>2, <1>3, <1>10, <2>1, <2>2 DEF Transcript, ToolsAlone
  <2> QED
    BY <1>3, <1>8, <1>10, <2>3 DEF RunRecorded
<1>11. ASSUME mode = "replay", library[u] # Nothing PROVE RunReplayed(unit'[u], library[u])
  <2>1. library[u].turns[Len(r.seen) + 1].end = end
    BY <1>2, <1>4, <1>11
  <2>2. library[u].heard = [ended |-> "done", seen |-> Append(r.seen, library[u].turns[Len(r.seen) + 1])]
    BY <1>1, <1>2, <1>4, <1>11, <2>1, HeardAtEnd
  <2>3. library[u].heard = [ended |-> "done", seen |-> more]
    BY <1>4, <1>11, <2>2 DEF more
  <2> QED
    BY <1>4, <1>8, <1>11, <2>3 DEF RunReplayed
<1> QED
  BY <1>1, <1>6, <1>8, <1>9, <1>10, <1>11, StepInv

LEMMA ReadEventInv == ASSUME EvalInv, NEW u \in Units, ReadEvent(u) PROVE EvalInv'
<1>1. unit[u].at = "reading" /\ unit[u].relay \in Seq(StreamEvents)
  BY DEF EvalInv, UnitShape, ReadEvent
<1>2. CASE unit[u].relay = <<>>
  BY <1>1, <1>2, ReadsNothing DEF ReadEvent
<1>3. CASE unit[u].relay # <<>>
  <2> DEFINE event == Head(unit[u].relay)
             turn == [deltas |-> unit[u].text, end |-> event]
  <2>1. event \in StreamEvents
    BY <1>1, <1>3, RelayTold
  <2>2. CASE event = Delta
    <3>1. event.kind = "delta"
      BY <2>1, <2>2, KindsTold
    <3>2. Step(u, [relay |-> Tail(unit[u].relay), text |-> unit[u].text + 1])
      BY <1>3, <3>1 DEF ReadEvent
    <3> QED
      BY <1>1, <1>3, <2>2, <3>2, ReadsDelta
  <2>3. CASE event = Broken
    <3>1. event.kind = "error"
      BY <2>1, <2>3, KindsTold
    <3>2. Step(u, [relay |-> Tail(unit[u].relay), at |-> "failed"])
      BY <1>3, <3>1 DEF ReadEvent
    <3> QED
      BY <1>1, <1>3, <2>3, <3>2, ReadsBroken
  <2>4. CASE event = ToolCalls
    <3>1. event.kind = "tools"
      BY <2>1, <2>4, KindsTold
    <3>2. Step(u, [relay |-> Tail(unit[u].relay), at |-> "ready",
                   seen |-> Append(unit[u].seen, turn)])
      BY <1>3, <3>1 DEF ReadEvent
    <3>3. turn = [deltas |-> unit[u].text, end |-> ToolCalls]
      BY <2>4
    <3> HIDE DEF turn
    <3> QED
      BY <1>1, <1>3, <2>4, <3>2, <3>3, ReadsTools
  <2>5. CASE event \notin {Delta, ToolCalls, Broken}
    <3>1. event.kind = "answer"
      BY <2>1, <2>5, KindsTold
    <3>2. Step(u, [relay |-> Tail(unit[u].relay), at |-> "done",
                   seen |-> Append(unit[u].seen, turn)])
      BY <1>3, <3>1 DEF ReadEvent
    <3>3. turn = [deltas |-> unit[u].text, end |-> event]
      OBVIOUS
    <3> HIDE DEF turn
    <3> QED
      BY <1>1, <1>3, <2>5, <3>2, <3>3, ReadsAnswer
  <2> QED
    BY <2>2, <2>3, <2>4, <2>5
<1> QED
  BY <1>2, <1>3

(* run_cases: a run at rest, and one that begins, keep their promises.     *)
LEMMA RestsTold ==
    /\ UnitShape(Resting) /\ Resting.at = "off" /\ Resting.wire = "closed"
    /\ RunRecorded(Resting) /\ \A file : RunReplayed(Resting, file)
  BY DEF UnitShape, UnitFields, Resting, RunRecorded, RunReplayed

LEMMA BeginsTold ==
    ASSUME NEW script \in Seq(TurnsTold), NEW new, new = [Resting EXCEPT !.at = "ready", !.turns = script]
    PROVE  /\ UnitShape(new) /\ new.at = "ready" /\ new.wire = "closed"
           /\ script = <<>> => RunRecorded(new)
           /\ \A file : file.turns = script => RunReplayed(new, file)
<1>1. /\ DOMAIN new = UnitFields /\ new.at = "ready" /\ new.turns = script /\ new.pending = 0
      /\ new.wire = "closed" /\ new.relay = <<>> /\ new.text = 0 /\ new.seen = <<>>
  <2>1. /\ DOMAIN Resting = UnitFields /\ Resting.pending = 0 /\ Resting.wire = "closed"
        /\ Resting.relay = <<>> /\ Resting.text = 0 /\ Resting.seen = <<>>
    BY DEF Resting, UnitFields
  <2>2. DOMAIN new = UnitFields
    BY <2>1
  <2>3. new.at = "ready" /\ new.turns = script
    BY <2>1 DEF UnitFields
  <2>4. \A f \in UnitFields \ {"at", "turns"} : new[f] = Resting[f]
    BY <2>1
  <2> QED
    BY <2>1, <2>2, <2>3, <2>4 DEF UnitFields
<1>2. UnitShape(new)
  BY ONLY <1>1, script \in Seq(TurnsTold) DEF UnitShape
<1>3. script = <<>> => RunRecorded(new)
  BY <1>1 DEF RunRecorded, ToolsAlone
<1>4. ASSUME NEW file, file.turns = script PROVE RunReplayed(new, file)
  <2>1. ToolsAlone(<<>>) /\ GoesOn(script, <<>>) /\ Remains(script, script, 0)
    BY DEF ToolsAlone, GoesOn, Remains
  <2>2. Len(new.seen) = 0
    BY <1>1
  <2> QED
    BY <1>1, <1>4, <2>1, <2>2 DEF RunReplayed
<1> QED
  BY <1>1, <1>2, <1>3, <1>4

LEMMA KeptTurns == ASSUME NEW file, Kept(file) PROVE file.turns \in Seq(TurnsTold)
  BY DEF Kept

LEMMA BeginInv ==
    ASSUME EvalInv, NEW to \in {"record", "replay"}, NEW units, Begin(to, units)
    PROVE  EvalInv'
<1>1. /\ mode' = to /\ joined' = <<>> /\ library' = library
      /\ DOMAIN unit' = Units /\ DOMAIN library' = Units
  BY DEF Begin, EvalInv
<1>2. /\ joined' \in Seq(Joins)' /\ ReplayReproduces' /\ mode' \in {"idle", "record", "replay"}
  BY <1>1 DEF ReplayReproduces, Joins
<1>3. ASSUME NEW v \in Units
      PROVE  /\ UnitShape(unit'[v])
             /\ library'[v] = Nothing \/ Kept(library'[v])
             /\ mode' = "idle" => unit'[v].at = "off"
             /\ unit'[v].at = "off" => unit'[v].wire = "closed"
             /\ mode' = "record" => RunRecorded(unit'[v])
             /\ mode' = "replay" /\ library'[v] # Nothing => RunReplayed(unit'[v], library'[v])
  <2>1. library[v] = Nothing \/ Kept(library[v])
    BY DEF EvalInv
  <2>2. CASE v \notin units
    <3>1. unit'[v] = Resting
      BY <2>2 DEF Begin
    <3> QED
      BY <1>1, <2>1, <3>1, RestsTold
  <2>3. CASE v \in units
    <3> DEFINE script == IF to = "replay" /\ library[v] # Nothing THEN library[v].turns ELSE <<>>
    <3>1. unit'[v] = [Resting EXCEPT !.at = "ready", !.turns = script]
      BY <2>3 DEF Begin
    <3>2. /\ script \in Seq(TurnsTold)
          /\ to = "record" => script = <<>>
          /\ to = "replay" /\ library[v] # Nothing => library[v].turns = script
      BY <2>1, KeptTurns
    <3> HIDE DEF script
    <3>3. /\ UnitShape(unit'[v]) /\ unit'[v].at = "ready" /\ unit'[v].wire = "closed"
          /\ script = <<>> => RunRecorded(unit'[v])
          /\ \A file : file.turns = script => RunReplayed(unit'[v], file)
      BY <3>1, <3>2, BeginsTold
    <3> QED
      BY <1>1, <2>1, <3>2, <3>3
  <2> QED
    BY <2>2, <2>3
<1> QED
  BY <1>1, <1>2, <1>3 DEF EvalInv

(* The end of a case: what it reached is joined, and the transcript it     *)
(* leaves behind is one that a replay can go by.                           *)
LEMMA JoinInv ==
    ASSUME EvalInv, NEW u \in Units, NEW outcome,
           outcome \in [ended : {"done", "failed", "panic"}, seen : Seq(TurnsTold)],
           Join(u, outcome), mode # "idle", DOMAIN library' = Units,
           \A v \in Units : library'[v] = Nothing \/ Kept(library'[v]),
           mode = "replay" => library' = library,
           mode = "replay" /\ library[u] # Nothing /\ outcome.ended # "panic"
               => outcome = library[u].heard
    PROVE  EvalInv'
<1>1. /\ DOMAIN unit' = Units /\ unit'[u] = Resting /\ mode' = mode
      /\ \A v \in Units \ {u} : unit'[v] = unit[v]
      /\ joined' = Append(joined, [unit |-> u, outcome |-> outcome])
      /\ mode \in {"idle", "record", "replay"} /\ joined \in Seq(Joins)
  BY DEF Join, EvalInv
<1> DEFINE entry == [unit |-> u, outcome |-> outcome]
<1>2. entry \in Joins /\ entry.unit = u /\ entry.outcome = outcome
  BY DEF Joins
<1> HIDE DEF entry
<1>3. /\ joined' \in Seq(Joins) /\ Len(joined') = Len(joined) + 1 /\ Len(joined) \in Nat
      /\ \A i \in 1..Len(joined) : joined'[i] = joined[i]
      /\ joined'[Len(joined) + 1] = entry
  BY <1>1, <1>2 DEF entry
<1>4. ReplayReproduces'
  <2> SUFFICES ASSUME mode = "replay", NEW i \in DOMAIN joined',
                      library[joined'[i].unit] # Nothing, joined'[i].outcome.ended # "panic"
               PROVE  joined'[i].outcome = library[joined'[i].unit].heard
    BY <1>1 DEF ReplayReproduces
  <2>1. i \in 1..Len(joined) \/ i = Len(joined) + 1
    BY <1>3
  <2>2. CASE i \in 1..Len(joined)
    <3>1. joined'[i] = joined[i] /\ i \in DOMAIN joined
      BY <1>1, <1>3, <2>2
    <3> QED
      BY <3>1 DEF EvalInv, ReplayReproduces
  <2>3. CASE i = Len(joined) + 1
    BY <1>2, <1>3, <2>3
  <2> QED
    BY <2>1, <2>2, <2>3
<1>5. ASSUME NEW v \in Units
      PROVE  /\ UnitShape(unit'[v])
             /\ library'[v] = Nothing \/ Kept(library'[v])
             /\ mode' = "idle" => unit'[v].at = "off"
             /\ unit'[v].at = "off" => unit'[v].wire = "closed"
             /\ mode' = "record" => RunRecorded(unit'[v])
             /\ mode' = "replay" /\ library'[v] # Nothing => RunReplayed(unit'[v], library'[v])
  <2>1. CASE v = u
    BY <1>1, <2>1, RestsTold
  <2>2. CASE v # u
    BY <1>1, <2>2 DEF EvalInv
  <2> QED
    BY <2>1, <2>2
<1>6. joined' \in Seq(Joins)'
  BY <1>3 DEF Joins
<1> QED
  BY <1>1, <1>4, <1>5, <1>6 DEF EvalInv

LEMMA EndCaseInv == ASSUME EvalInv, NEW u \in Units, EndCase(u) PROVE EvalInv'
<1> DEFINE heard == [ended |-> unit[u].at, seen |-> unit[u].seen]
           file == [turns |-> unit[u].turns, heard |-> heard]
<1>1. /\ unit[u].at \in {"done", "failed"} /\ mode \in {"record", "replay"}
      /\ unit[u].turns \in Seq(TurnsTold) /\ unit[u].seen \in Seq(TurnsTold)
      /\ DOMAIN library = Units
  BY DEF EndCase, EvalInv, UnitShape
<1>2. Join(u, heard)
  BY DEF EndCase
<1>3. heard \in [ended : {"done", "failed", "panic"}, seen : Seq(TurnsTold)]
  BY <1>1
<1>4. mode = "record" => Kept(file)
  <2>1. mode = "record" => Transcript(unit[u].turns, unit[u].at, unit[u].seen)
    BY <1>1 DEF EvalInv, RunRecorded
  <2> QED
    BY <1>1, <2>1 DEF Kept
<1>5. mode = "replay" /\ library[u] # Nothing => heard = library[u].heard
  <2>1. mode = "replay" /\ library[u] # Nothing => RunReplayed(unit[u], library[u])
    BY DEF EvalInv
  <2> QED
    BY <1>1, <2>1 DEF RunReplayed
<1>6. library' = library \/ (mode = "record" /\ library' = [library EXCEPT ![u] = file])
  BY DEF EndCase
<1> HIDE DEF heard, file
<1>7. /\ DOMAIN library' = Units
      /\ mode = "replay" => library' = library
      /\ \A v \in Units : library'[v] = Nothing \/ Kept(library'[v])
  BY <1>1, <1>4, <1>6 DEF EvalInv
<1> QED
  BY <1>1, <1>2, <1>3, <1>5, <1>7, JoinInv

LEMMA PanicsInv == ASSUME EvalInv, NEW u \in Units, Panics(u) PROVE EvalInv'
<1> DEFINE outcome == [ended |-> "panic", seen |-> <<>>]
<1>1. /\ Join(u, outcome) /\ library' = library /\ mode # "idle"
  BY DEF Panics, EvalInv
<1>2. outcome \in [ended : {"done", "failed", "panic"}, seen : Seq(TurnsTold)] /\ outcome.ended = "panic"
  OBVIOUS
<1> HIDE DEF outcome
<1>3. DOMAIN library' = Units /\ \A v \in Units : library'[v] = Nothing \/ Kept(library'[v])
  BY <1>1 DEF EvalInv
<1> QED
  BY <1>1, <1>2, <1>3, JoinInv

LEMMA ReportInv == ASSUME EvalInv, Report PROVE EvalInv'
<1>1. /\ mode' = "idle" /\ UNCHANGED <<library, unit, joined>>
      /\ \A u \in Units : unit[u].at = "off"
  BY DEF Report
<1>2. ReplayReproduces' /\ joined' \in Seq(Joins)'
  BY <1>1 DEF ReplayReproduces, EvalInv, Joins
<1> QED
  BY <1>1, <1>2 DEF EvalInv

(* Whatever a recording ran into, a replay of it shows the loop the same   *)
(* turns with the same deltas and comes to the same end.                   *)
THEOREM ReplaysReproduce == EvalSpec => []ReplayReproduces
<1>1. EvalInit => EvalInv
  BY RestsTold DEF EvalInit, EvalInv, ReplayReproduces, Joins
<1>2. EvalInv /\ [EvalNext]_evalVars => EvalInv'
  <2> SUFFICES ASSUME EvalInv, [EvalNext]_evalVars PROVE EvalInv'
    OBVIOUS
  <2>1. CASE Record \/ Replay
    BY <2>1, BeginInv DEF Record, Replay
  <2>2. CASE Report
    BY <2>2, ReportInv
  <2>3. ASSUME NEW u \in Units, CallModel(u) \/ Forward(u) \/ ReadEvent(u) \/ EndCase(u) \/ Panics(u)
        PROVE  EvalInv'
    BY <2>3, CallModelInv, ForwardInv, ReadEventInv, EndCaseInv, PanicsInv
  <2>4. CASE UNCHANGED evalVars
    BY <2>4 DEF evalVars, EvalInv, ReplayReproduces, Joins
  <2> QED
    BY <2>1, <2>2, <2>3, <2>4 DEF EvalNext
<1>3. EvalInv => ReplayReproduces
  BY DEF EvalInv
<1> QED
  BY <1>1, <1>2, <1>3, PTL DEF EvalSpec

-----------------------------------------------------------------------------
(* Induction over numbers, for a set of them.                              *)
LEMMA LeastNumber ==
    ASSUME NEW T, T \subseteq Nat, T # {}
    PROVE  \E x \in T : \A y \in T : ~(y < x)
<1> DEFINE R == OpToRel(<, Nat)
<1>1. IsWellFoundedOn(R, Nat)
  BY NatLessThanWellFounded
<1>2. \A x, y \in Nat : y < x => <<y, x>> \in R
  BY DEF OpToRel
<1> HIDE DEF R
<1>3. \E x \in T : \A y \in T : ~ (<<y, x>> \in R)
  BY <1>1, WFMin
<1> QED
  BY <1>2, <1>3

LEMMA NumbersUpTo ==
    ASSUME NEW n \in Nat, NEW T, 0 \in T, \A k \in 0..(n - 1) : k \in T => k + 1 \in T
    PROVE  0..n \subseteq T
<1> DEFINE Out == {k \in 0..n : k \notin T}
<1>1. ASSUME Out # {} PROVE FALSE
  <2>0. Out \subseteq Nat
    OBVIOUS
  <2>1. PICK k \in Out : \A j \in Out : ~(j < k)
    <3> HIDE DEF Out
    <3> QED
      BY <1>1, <2>0, LeastNumber
  <2>2. k \in 1..n /\ k - 1 \in 0..(n - 1) /\ k - 1 \notin Out
    BY <2>1
  <2>3. k - 1 \in T /\ (k - 1) + 1 = k
    BY <2>2
  <2> QED
    BY <2>1, <2>2, <2>3
<1>2. \A k \in 0..n : k \in T
  BY <1>1
<1> QED
  BY <1>2

(* The folds are what they say, message after message and event after      *)
(* event.                                                                  *)
LEMMA WiredTold ==
    ASSUME NEW talk, Len(talk) \in Nat
    PROVE  /\ Wired(talk)[0] = [out |-> <<>>, pending |-> <<>>]
           /\ \A k \in 1..Len(talk) : Wired(talk)[k] = WireMessage(Wired(talk)[k - 1], talk[k])
<1> DEFINE none == [out |-> <<>>, pending |-> <<>>]
           Made(n, g) == g = [k \in 0..n |-> IF k = 0 THEN none ELSE WireMessage(g[k - 1], talk[k])]
           T == {n \in 0..Len(talk) : \E g : Made(n, g)}
<1>0. \A n \in 0..Len(talk) : n \in T <=> \E g : Made(n, g)
  OBVIOUS
<1> HIDE DEF T
<1>1. 0 \in T
  <2> DEFINE g == [k \in 0..0 |-> none]
  <2>0. \A k \in 0..0 : k = 0
    OBVIOUS
  <2>1. Made(0, g)
    BY <2>0
  <2> HIDE DEF Made
  <2> QED
    BY <1>0, <2>1
<1>2. ASSUME NEW n \in 0..(Len(talk) - 1), n \in T PROVE n + 1 \in T
  <2>0. n \in 0..Len(talk) /\ n + 1 \in 0..Len(talk)
    OBVIOUS
  <2>1. PICK g : Made(n, g)
    <3> HIDE DEF Made
    <3> QED
      BY <1>0, <1>2, <2>0
  <2> DEFINE h == [k \in 0..(n + 1) |-> IF k = 0 THEN none ELSE WireMessage(g[k - 1], talk[k])]
  <2>2. \A k \in 0..n : h[k] = g[k] /\ k \in 0..(n + 1)
    BY <2>1
  <2>3. \A k \in 0..(n + 1) : k # 0 => k - 1 \in 0..n
    OBVIOUS
  <2>4. \A k \in 0..(n + 1) : h[k] = IF k = 0 THEN none ELSE WireMessage(h[k - 1], talk[k])
    <3>1. \A k \in 0..(n + 1) : k # 0 => h[k - 1] = g[k - 1]
      BY <2>2, <2>3
    <3> QED
      BY <3>1
  <2>5. Made(n + 1, h)
    <3> DEFINE again == [k \in 0..(n + 1) |-> IF k = 0 THEN none ELSE WireMessage(h[k - 1], talk[k])]
    <3>1. \A k \in 0..(n + 1) : h[k] = again[k]
      BY <2>4
    <3>2. h = again
      BY <3>1
    <3> QED
      BY <3>2
  <2> HIDE DEF Made, h
  <2> QED
    BY <1>0, <2>0, <2>5
<1>3. Len(talk) \in T
  <2>1. 0..Len(talk) \subseteq T
    BY <1>1, <1>2, NumbersUpTo
  <2> QED
    BY <2>1
<1>4. Made(Len(talk), Wired(talk))
  <2>1. \E g : Made(Len(talk), g)
    BY <1>0, <1>3
  <2>2. Made(Len(talk), CHOOSE g : Made(Len(talk), g))
    BY <2>1
  <2> QED
    BY <2>2 DEF Wired
<1> QED
  BY <1>4

LEMMA ReadingTold ==
    ASSUME NEW proto, NEW events, Len(events) \in Nat
    PROVE  /\ Reading(proto, events)[0] = [completion |-> NoCompletion, texts |-> <<>>]
           /\ \A k \in 1..Len(events) :
                Reading(proto, events)[k] = ReadOn(proto, Reading(proto, events)[k - 1], events[k])
<1> DEFINE none == [completion |-> NoCompletion, texts |-> <<>>]
           Made(n, g) == g = [k \in 0..n |-> IF k = 0 THEN none ELSE ReadOn(proto, g[k - 1], events[k])]
           T == {n \in 0..Len(events) : \E g : Made(n, g)}
<1>0. \A n \in 0..Len(events) : n \in T <=> \E g : Made(n, g)
  OBVIOUS
<1> HIDE DEF T
<1>1. 0 \in T
  <2> DEFINE g == [k \in 0..0 |-> none]
  <2>0. \A k \in 0..0 : k = 0
    OBVIOUS
  <2>1. Made(0, g)
    BY <2>0
  <2> HIDE DEF Made
  <2> QED
    BY <1>0, <2>1
<1>2. ASSUME NEW n \in 0..(Len(events) - 1), n \in T PROVE n + 1 \in T
  <2>0. n \in 0..Len(events) /\ n + 1 \in 0..Len(events)
    OBVIOUS
  <2>1. PICK g : Made(n, g)
    <3> HIDE DEF Made
    <3> QED
      BY <1>0, <1>2, <2>0
  <2> DEFINE h == [k \in 0..(n + 1) |-> IF k = 0 THEN none ELSE ReadOn(proto, g[k - 1], events[k])]
  <2>2. \A k \in 0..n : h[k] = g[k] /\ k \in 0..(n + 1)
    BY <2>1
  <2>3. \A k \in 0..(n + 1) : k # 0 => k - 1 \in 0..n
    OBVIOUS
  <2>4. \A k \in 0..(n + 1) : h[k] = IF k = 0 THEN none ELSE ReadOn(proto, h[k - 1], events[k])
    <3>1. \A k \in 0..(n + 1) : k # 0 => h[k - 1] = g[k - 1]
      BY <2>2, <2>3
    <3> QED
      BY <3>1
  <2>5. Made(n + 1, h)
    <3> DEFINE again == [k \in 0..(n + 1) |-> IF k = 0 THEN none ELSE ReadOn(proto, h[k - 1], events[k])]
    <3>1. \A k \in 0..(n + 1) : h[k] = again[k]
      BY <2>4
    <3>2. h = again
      BY <3>1
    <3> QED
      BY <3>2
  <2> HIDE DEF Made, h
  <2> QED
    BY <1>0, <2>0, <2>5
<1>3. Len(events) \in T
  <2>1. 0..Len(events) \subseteq T
    BY <1>1, <1>2, NumbersUpTo
  <2> QED
    BY <2>1
<1>4. Made(Len(events), Reading(proto, events))
  <2>1. \E g : Made(Len(events), g)
    BY <1>0, <1>3
  <2>2. Made(Len(events), CHOOSE g : Made(Len(events), g))
    BY <2>1
  <2> QED
    BY <2>2 DEF Reading
<1> QED
  BY <1>4

LEMMA ReadingTexts ==
    ASSUME NEW proto, NEW S, NEW events \in Seq(S)
    PROVE  \A k \in 0..Len(events) : Reading(proto, events)[k].texts \in Seq(S)
<1> DEFINE read == Reading(proto, events)
           T == {k \in 0..Len(events) : read[k].texts \in Seq(S)}
<1>1. Len(events) \in Nat
  OBVIOUS
<1>2. /\ read[0] = [completion |-> NoCompletion, texts |-> <<>>]
      /\ \A k \in 1..Len(events) : read[k] = ReadOn(proto, read[k - 1], events[k])
  BY <1>1, ReadingTold
<1> HIDE DEF read
<1>3. 0 \in T
  <2>1. read[0].texts = <<>> /\ <<>> \in Seq(S) /\ 0 \in 0..Len(events)
    BY <1>1, <1>2
  <2> QED
    BY <2>1
<1>4. ASSUME NEW k \in 0..(Len(events) - 1), k \in T PROVE k + 1 \in T
  <2>1. k + 1 \in 1..Len(events) /\ (k + 1) - 1 = k
    BY <1>1
  <2>2. read[k + 1] = ReadOn(proto, read[k], events[k + 1]) /\ events[k + 1] \in S
    BY <1>2, <2>1
  <2>3. read[k + 1].texts \in Seq(S)
    BY <1>4, <2>2 DEF ReadOn
  <2> QED
    BY <2>1, <2>3
<1> HIDE DEF T
<1>5. 0..Len(events) \subseteq T
  BY <1>1, <1>3, <1>4, NumbersUpTo
<1> QED
  BY <1>5 DEF T, read

(* What is expected of a response that ran to its end, and of one that was *)
(* ended by an event of it.                                                *)
LEMMA ExpectedAtEnd ==
    ASSUME NEW c, NEW got, NEW how, NEW q \in Nat, Whole(got, how) = q,
           \A k \in 1..q : c.events[k].t \notin Ends
    PROVE  Expected(c, got, how) =
             Append(Reading(c.proto, c.events)[q].texts,
                    IF how = "failed" \/ got % 4 = 2 THEN [t |-> "error"]
                    ELSE [t |-> "done", completion |-> Reading(c.proto, c.events)[q].completion])
<1>1. {k \in 1..Whole(got, how) : c.events[k].t \in Ends} = {}
  OBVIOUS
<1> QED
  BY <1>1 DEF Expected

LEMMA ExpectedAtCut ==
    ASSUME NEW c, NEW got, NEW how, NEW whole \in Nat, Whole(got, how) = whole, NEW q \in 1..whole,
           c.events[q].t \in Ends, \A k \in 1..(q - 1) : c.events[k].t \notin Ends
    PROVE  Expected(c, got, how) =
             Append(Reading(c.proto, c.events)[q].texts,
                    IF c.events[q].t # "stop" THEN [t |-> "error"]
                    ELSE [t |-> "done", completion |-> Reading(c.proto, c.events)[q].completion])
<1> DEFINE cut == {k \in 1..Whole(got, how) : c.events[k].t \in Ends}
<1>1. q \in cut /\ \A k \in cut : q <= k
  OBVIOUS
<1>2. cut # {} /\ q = CHOOSE k \in cut : \A j \in cut : k <= j
  <2>1. \A k \in cut : (\A j \in cut : k <= j) => k = q
    BY <1>1
  <2> HIDE DEF cut
  <2> QED
    BY <1>1, <2>1
<1> QED
  BY <1>2 DEF Expected

(* Where the pieces are cut.                                               *)
LEMMA Pieces ==
    ASSUME NEW q \in Nat, NEW got \in Nat, 4 * q <= got
    PROVE  /\ ((4 * q) \div 4) + 1 = q + 1
           /\ got < 4 * q + 4 => /\ got \div 4 = q
                                /\ got % 4 = 2 <=> got = 4 * q + 2
                                /\ (got + 1) \div 4 = IF got = 4 * q + 3 THEN q + 1 ELSE q
           /\ got >= 4 * q + 4 => (got + 1) \div 4 \in Nat /\ (got + 1) \div 4 >= q + 1
  OBVIOUS

-----------------------------------------------------------------------------
(* Whole events have been taken, the pump holds what they fold to, and a   *)
(* receiver that is still there has seen their texts.                      *)
Unended(q) == \A k \in 1..q : call.events[k].t \notin Ends

Folding(q) ==
    /\ acc = Reading(call.proto, call.events)[q].completion
    /\ open => frames = Reading(call.proto, call.events)[q].texts

Taken(q) ==
    /\ parsed = 4 * q /\ arrived \in Nat /\ parsed <= arrived
    /\ arrived <= 4 * Len(call.events)
    /\ pump \in {"new", "refused", "connect"} =>
         arrived = 0 /\ acc = NoCompletion /\ frames = <<>> /\ recorded = <<>> /\ ended = ""
    /\ pump \in {"reading", "parsing"} =>
         Unended(q) /\ Folding(q) /\ recorded = <<>> /\ ended = ""
    /\ pump = "reading" => arrived < 4 * q + 4
    /\ pump = "trailing" =>
         /\ recorded = <<>>
         /\ open => /\ Folding(q)
                    /\ \/ /\ ended = "" /\ q >= 1 /\ call.events[q].t = "stop" /\ Unended(q - 1)
                       \/ ended = "closed" /\ arrived < 4 * q + 4 /\ Unended(q)
    /\ pump = "over" =>
         /\ Len(recorded) = 1
         /\ open /\ recorded # <<"refused">> => frames = Expected(call, arrived, ended)

WireInv ==
    /\ call \in Calls /\ open \in BOOLEAN
    /\ pump \in {"new", "refused", "connect", "reading", "parsing", "trailing", "over"}
    /\ pump \notin {"new", "refused"} => posted = IF call.proto = "openai" THEN call.talk
                                                  ELSE WireMessages(call.talk)
    /\ pump \in {"new", "refused"} => posted = <<>>
    /\ \E q \in 0..Len(call.events) : Taken(q)

LEMMA CallTold ==
    ASSUME WireInv
    PROVE  /\ call.events \in Seq(ToSet(call.events)) /\ Len(call.events) \in Nat
           /\ \A k \in 1..(Len(call.events) - 1) : call.events[k].t # "stop"
  BY EventsAssumption DEF WireInv, EventsAssumption

(* The steps before the body, and those that read no event of it.          *)
LEMMA EarlyInv == ASSUME WireInv, ChatStream \/ Connect PROVE WireInv'
<1>1. PICK q \in 0..Len(call.events) : Taken(q)
  BY DEF WireInv
<1>2. Len(call.events) \in Nat
  BY CallTold
<1>3. q = 0 /\ arrived = 0 /\ parsed = 0 /\ acc = NoCompletion /\ frames = <<>> /\ recorded = <<>> /\ ended = ""
  <2>1. pump \in {"new", "connect"}
    BY DEF ChatStream, Connect
  <2>2. /\ arrived = 0 /\ parsed = 4 * q /\ parsed <= arrived
        /\ acc = NoCompletion /\ frames = <<>> /\ recorded = <<>> /\ ended = ""
    BY <1>1, <2>1 DEF Taken
  <2>3. q \in Nat
    BY <1>1, <1>2
  <2>4. 4 * q <= 0
    <3>1. 4 * q = parsed /\ parsed <= arrived /\ arrived = 0
      BY <2>2
    <3>2. \A x \in Nat : 4 * x = parsed /\ parsed <= 0 => 4 * x <= 0
      OBVIOUS
    <3> QED
      BY <2>3, <3>1, <3>2
  <2>5. q = 0
    BY ONLY <2>3, <2>4
  <2>6. parsed = 0
    <3>1. 4 * 0 = 0
      OBVIOUS
    <3> QED
      BY <2>2, <2>5, <3>1
  <2> QED
    BY <2>2, <2>5, <2>6
<1>4. Reading(call.proto, call.events)[0] = [completion |-> NoCompletion, texts |-> <<>>]
  BY <1>2, ReadingTold
<1>5. CASE ChatStream
  <2>1. Taken(0)'
    BY <1>1, <1>3, <1>5 DEF Taken, ChatStream, body
  <2> QED
    BY <1>2, <1>5, <2>1 DEF WireInv, ChatStream
<1>6. CASE Connect
  <2>1. UNCHANGED <<call, arrived, parsed, acc, ended, open>>
    BY <1>6 DEF Connect, body
  <2>2. ASSUME pump' = "reading", UNCHANGED <<frames, recorded>> PROVE Taken(0)'
    <3>1. Unended(0)' /\ Folding(0)'
      <4>1. /\ call' = call /\ acc' = NoCompletion /\ frames' = <<>>
        BY <1>3, <2>1, <2>2
      <4>2. /\ Reading(call'.proto, call'.events)[0].completion = NoCompletion
            /\ Reading(call'.proto, call'.events)[0].texts = <<>>
        BY <1>4, <4>1
      <4> QED
        BY <4>1, <4>2 DEF Folding, Unended
    <3>2. 0 <= 4 * Len(call.events) /\ 0 = 4 * 0 /\ 0 < 4 * 0 + 4
      BY <1>2
    <3>3. /\ parsed' = 0 /\ arrived' = 0 /\ call' = call /\ pump' = "reading"
          /\ recorded' = <<>> /\ ended' = ""
      BY <1>3, <2>1, <2>2
    <3>4. /\ parsed' = 4 * 0 /\ arrived' \in Nat /\ parsed' <= arrived'
          /\ arrived' <= 4 * Len(call'.events) /\ arrived' < 4 * 0 + 4
      <4>1. 4 * 0 = 0 /\ 0 < 4 * 0 + 4 /\ 0 <= 0 /\ 0 \in Nat
        OBVIOUS
      <4>2. 4 * Len(call'.events) = 4 * Len(call.events)
        BY <3>3
      <4> QED
        BY <3>2, <3>3, <4>1, <4>2
    <3> QED
      BY <3>1, <3>3, <3>4 DEF Taken
  <2>3. ASSUME Finish([t |-> "error"], "refused") PROVE Taken(0)'
    <3>1. pump' = "over" /\ recorded' = Append(<<>>, "refused")
      BY <1>3, <2>3 DEF Finish
    <3>2. Append(<<>>, "refused") = <<"refused">> /\ Len(Append(<<>>, "refused")) = 1
      OBVIOUS
    <3>3. 0 <= 4 * Len(call.events) /\ 0 = 4 * 0
      BY <1>2
    <3>4. /\ parsed' = 0 /\ arrived' = 0 /\ call' = call /\ pump' = "over"
          /\ recorded' = <<"refused">> /\ Len(recorded') = 1
      BY <1>3, <2>1, <3>1, <3>2
    <3> QED
      BY <3>3, <3>4 DEF Taken
  <2>4. Taken(0)'
    BY <1>6, <2>2, <2>3 DEF Connect
  <2> QED
    BY <1>2, <1>6, <2>4 DEF WireInv, Connect, Finish
<1> QED
  BY <1>5, <1>6

LEMMA ReadsInv ==
    ASSUME WireInv, Abandon \/ (\E n \in 1..MaxChunk : ReadChunk(n)) \/ AwaitChunk
                    \/ BodyCloses \/ BodyFails \/ ReceiverDrops
    PROVE  WireInv'
<1>1. PICK q \in 0..Len(call.events) : Taken(q)
  BY DEF WireInv
<1>2. Len(call.events) \in Nat /\ q \in Nat
  BY CallTold
<1>3. call' = call /\ posted' = posted
  BY DEF Abandon, ReadChunk, AwaitChunk, BodyCloses, BodyFails, ReceiverDrops
<1>4. CASE Abandon
  <2>0. /\ UNCHANGED <<call, arrived, parsed, open>> /\ ~open /\ pump = "reading"
        /\ pump' = "over" /\ recorded' = Append(recorded, "abandoned")
    BY <1>4 DEF Abandon, body
  <2>2. recorded = <<>>
    BY <1>1, <2>0 DEF Taken
  <2>3. Len(recorded') = 1
    BY <2>0, <2>2
  <2>1. Taken(q)'
    BY <1>1, <2>0, <2>3 DEF Taken
  <2> QED
    BY <1>2, <1>3, <1>4, <2>1 DEF WireInv, Abandon
<1>5. ASSUME NEW n \in 1..MaxChunk, ReadChunk(n) PROVE WireInv'
  <2>0. /\ arrived \in Nat /\ n \in Nat /\ arrived' = arrived + n /\ arrived + n <= 4 * Len(call.events)
        /\ parsed = 4 * q /\ parsed <= arrived
    <3>1. n \in Nat
      BY ChunkAssumption DEF ChunkAssumption
    <3> QED
      BY <1>1, <1>5, <3>1 DEF Taken, ReadChunk
  <2>1. arrived' \in Nat /\ parsed <= arrived' /\ arrived' <= 4 * Len(call.events)
    BY <1>2, <2>0
  <2>3. /\ pump = "reading" /\ pump' = "parsing" /\ UNCHANGED <<call, parsed, acc, frames, open, ended, recorded>>
    BY <1>5 DEF ReadChunk
  <2>4. Unended(q) /\ Folding(q) /\ recorded = <<>> /\ ended = ""
    BY <1>1, <2>3 DEF Taken
  <2>5. Unended(q)' /\ Folding(q)'
    BY <2>3, <2>4 DEF Unended, Folding
  <2>2. Taken(q)'
    BY <2>0, <2>1, <2>3, <2>4, <2>5 DEF Taken
  <2> QED
    BY <1>2, <1>3, <1>5, <2>2 DEF WireInv, ReadChunk
<1>6. CASE AwaitChunk
  <2>1. Taken(q)'
    BY <1>1, <1>2, <1>6 DEF Taken, AwaitChunk, body, Folding, Unended
  <2> QED
    BY <1>2, <1>3, <1>6, <2>1 DEF WireInv, AwaitChunk
<1>7. CASE BodyCloses
  <2>1. Taken(q)'
    BY <1>1, <1>2, <1>7 DEF Taken, BodyCloses, body, Folding, Unended
  <2> QED
    BY <1>2, <1>3, <1>7, <2>1 DEF WireInv, BodyCloses
<1>8. CASE BodyFails
  <2>1. frames' = Expected(call, arrived, "failed")
    <3>1. arrived < 4 * q + 4 /\ 4 * q <= arrived /\ arrived \in Nat
      BY <1>1, <1>8 DEF Taken, BodyFails
    <3>2. Whole(arrived, "failed") = q
      BY <1>2, <3>1, Pieces DEF Whole
    <3>3. Unended(q) /\ Folding(q) /\ open /\ frames' = Append(frames, [t |-> "error"])
      BY <1>1, <1>8 DEF Taken, BodyFails, Finish
    <3>4. \A k \in 1..q : call.events[k].t \notin Ends
      BY <3>3 DEF Unended
    <3>5. Expected(call, arrived, "failed") =
             Append(Reading(call.proto, call.events)[q].texts, [t |-> "error"])
      BY <1>2, <3>2, <3>4, ExpectedAtEnd
    <3>6. frames = Reading(call.proto, call.events)[q].texts
      BY <3>3 DEF Folding
    <3> QED
      BY <3>3, <3>5, <3>6
  <2>3. /\ UNCHANGED <<call, parsed, arrived, open>> /\ pump = "reading"
        /\ pump' = "over" /\ recorded' = Append(recorded, "failed") /\ ended' = "failed"
    BY <1>8 DEF BodyFails, body, Finish
  <2>4. recorded = <<>>
    BY <1>1, <2>3 DEF Taken
  <2>5. Len(recorded') = 1
    BY <2>3, <2>4
  <2>2. Taken(q)'
    BY <1>1, <2>1, <2>3, <2>5 DEF Taken
  <2> QED
    BY <1>2, <1>3, <1>8, <2>2 DEF WireInv, BodyFails, Finish
<1>9. CASE ReceiverDrops
  <2>1. Taken(q)'
    BY <1>1, <1>9 DEF Taken, ReceiverDrops, body, Folding, Unended
  <2> QED
    BY <1>2, <1>3, <1>9, <2>1 DEF WireInv, ReceiverDrops
<1> QED
  BY <1>4, <1>5, <1>6, <1>7, <1>8, <1>9

(* One event more: what is held and what was seen go on with it.           *)
LEMMA OneMore ==
    ASSUME WireInv, NEW q \in Nat, q + 1 <= Len(call.events), Folding(q)
    PROVE  /\ Reading(call.proto, call.events)[q + 1].completion
                = Folded(call.proto, acc, Event(q + 1))
           /\ open => Reading(call.proto, call.events)[q + 1].texts
                        = IF Event(q + 1).t = "text" THEN Append(frames, Event(q + 1)) ELSE frames
<1>1. Len(call.events) \in Nat
  BY CallTold
<1>2. q + 1 \in 1..Len(call.events) /\ (q + 1) - 1 = q
  BY <1>1
<1>3. Reading(call.proto, call.events)[q + 1]
        = ReadOn(call.proto, Reading(call.proto, call.events)[q], call.events[q + 1])
  BY <1>1, <1>2, ReadingTold
<1> QED
  BY <1>3 DEF ReadOn, Folding, Event

LEMMA HandleInv == ASSUME WireInv, HandleEvent PROVE WireInv'
<1>1. PICK q \in 0..Len(call.events) : Taken(q)
  BY DEF WireInv
<1>2. Len(call.events) \in Nat /\ q \in Nat
  BY CallTold
<1>3. /\ UNCHANGED <<call, posted, arrived, open, ended>> /\ pump = "parsing" /\ parsed' = parsed + 4
      /\ parsed = 4 * q /\ parsed + 4 <= arrived /\ arrived \in Nat /\ arrived <= 4 * Len(call.events)
      /\ Unended(q) /\ Folding(q) /\ recorded = <<>> /\ ended = ""
  BY <1>1 DEF Taken, HandleEvent
<1>4. q + 1 <= Len(call.events) /\ q + 1 \in 0..Len(call.events)
  <2> DEFINE n == Len(call.events)
  <2>1. n \in Nat /\ q \in Nat /\ 4 * q + 4 <= arrived /\ arrived <= 4 * n /\ arrived \in Nat
    BY <1>2, <1>3
  <2> HIDE DEF n
  <2>2. q + 1 <= n /\ q + 1 \in 0..n
    BY ONLY <2>1
  <2> QED
    BY <2>2 DEF n
<1>5. NextEvent = q + 1 /\ 4 * q + 4 <= arrived /\ 4 * q <= arrived
  <2>1. 4 * q + 4 <= arrived /\ 4 * q <= arrived
    <3>0. parsed = 4 * q /\ parsed + 4 <= arrived /\ arrived \in Nat
      BY <1>3
    <3>1. 4 * q \in Nat /\ arrived \in Nat /\ (4 * q) + 4 <= arrived
      BY <1>2, <3>0
    <3>2. \A x, y \in Nat : x + 4 <= y => x <= y
      OBVIOUS
    <3> QED
      BY <3>1, <3>2
  <2>2. ((4 * q) \div 4) + 1 = q + 1
    BY <1>2, <1>3, <2>1, Pieces
  <2> QED
    BY <1>3, <2>1, <2>2 DEF NextEvent
<1> DEFINE e == Event(q + 1)
<1>6. /\ parsed' = 4 * (q + 1) /\ arrived' \in Nat /\ parsed' <= arrived'
      /\ arrived' <= 4 * Len(call'.events)
  <2>1. 4 * (q + 1) = 4 * q + 4
    BY <1>2
  <2>2. call'.events = call.events
    BY <1>3
  <2> QED
    BY <1>3, <2>1, <2>2
<1>7. Reading(call.proto, call.events)[q + 1].completion = Folded(call.proto, acc, e)
      /\ (open => Reading(call.proto, call.events)[q + 1].texts
                    = IF e.t = "text" THEN Append(frames, e) ELSE frames)
  BY <1>2, <1>3, <1>4, OneMore
<1>8. (q + 1) - 1 = q /\ \A k \in 1..((q + 1) - 1) : call.events[k].t \notin Ends
  <2>1. (q + 1) - 1 = q
    BY <1>2
  <2> QED
    BY <1>3, <2>1 DEF Unended
<1>9. ASSUME e.t \in Ends \ {"stop"}, Finish([t |-> "error"], "failed"), UNCHANGED acc PROVE Taken(q + 1)'
  <2>1. pump' = "over" /\ recorded' = Append(recorded, "failed") /\ Len(recorded') = 1
    <3>1. pump' = "over" /\ recorded' = Append(recorded, "failed") /\ recorded = <<>>
      BY <1>3, <1>9 DEF Finish
    <3> QED
      BY <3>1
  <2>2. ASSUME open PROVE frames' = Expected(call, arrived, ended)
    <3> DEFINE whole == (arrived + 1) \div 4
    <3>1. Whole(arrived, ended) = whole
      BY <1>3 DEF Whole
    <3>2. whole \in Nat /\ whole >= q + 1
      BY <1>2, <1>3, <1>5, Pieces
    <3> HIDE DEF whole
    <3>3. q + 1 \in 1..whole
      BY <1>2, <3>2
    <3>4. call.events[q + 1].t \in Ends /\ call.events[q + 1].t # "stop"
      BY <1>9 DEF Event
    <3>5. Expected(call, arrived, ended) =
             Append(Reading(call.proto, call.events)[q + 1].texts,
                    IF call.events[q + 1].t # "stop" THEN [t |-> "error"]
                    ELSE [t |-> "done", completion |-> Reading(call.proto, call.events)[q + 1].completion])
      <4>1. PICK p : p = q + 1
        OBVIOUS
      <4>2. \A k \in 1..(p - 1) : call.events[k].t \notin Ends
        BY <1>8, <4>1
      <4>3. p \in 1..whole /\ call.events[p].t \in Ends
        BY <3>3, <3>4, <4>1
      <4>4. Expected(call, arrived, ended) =
               Append(Reading(call.proto, call.events)[p].texts,
                      IF call.events[p].t # "stop" THEN [t |-> "error"]
                      ELSE [t |-> "done", completion |-> Reading(call.proto, call.events)[p].completion])
        BY ONLY <3>1, <3>2, <4>2, <4>3, ExpectedAtCut
      <4> HIDE DEF e
      <4> QED
        BY <4>1, <4>4
    <3>6. e.t # "text"
      BY <1>9 DEF Ends
    <3> QED
      BY <1>7, <1>9, <2>2, <3>4, <3>5, <3>6 DEF Finish
  <2> QED
    BY <1>3, <1>6, <2>1, <2>2 DEF Taken
<1>10. ASSUME e.t \notin Ends \ {"stop"}, Handle(e), UNCHANGED recorded,
              pump' = IF Stops(e) THEN "trailing" ELSE "parsing"
       PROVE  Taken(q + 1)'
  <2>1. Folding(q + 1)'
    BY <1>3, <1>7, <1>10 DEF Folding, Handle
  <2>2. CASE e.t = "stop"
    <3>0. call' = call /\ "stop" \in Ends
      BY <1>3 DEF Ends
    <3>1. pump' = "trailing" /\ q + 1 >= 1 /\ call'.events[q + 1].t = "stop"
      BY <1>2, <1>10, <2>2, <3>0 DEF Stops, Event
    <3>2. Unended((q + 1) - 1)'
      BY <1>8, <3>0 DEF Unended
    <3> QED
      BY <1>3, <1>6, <1>10, <2>1, <3>1, <3>2 DEF Taken
  <2>3. CASE e.t = "text" /\ ~open
    <3>1. pump' = "trailing" /\ ~open'
      BY <1>3, <1>10, <2>3 DEF Stops
    <3> QED
      BY <1>3, <1>6, <1>10, <3>1 DEF Taken
  <2>4. CASE e.t # "stop" /\ ~(e.t = "text" /\ ~open)
    <3>1. pump' = "parsing" /\ e.t \notin Ends
      BY <1>10, <2>4 DEF Stops
    <3>2. Unended(q + 1)'
      <4>1. \A k \in 1..(q + 1) : k = q + 1 \/ k \in 1..((q + 1) - 1)
        BY <1>2
      <4>2. \A k \in 1..(q + 1) : call'.events[k].t \notin Ends
        BY <1>3, <1>8, <3>1, <4>1 DEF Event
      <4> QED
        BY <4>2 DEF Unended
    <3> QED
      BY <1>3, <1>6, <1>10, <2>1, <3>1, <3>2 DEF Taken
  <2> QED
    BY <2>2, <2>3, <2>4
<1>11. Taken(q + 1)'
  BY <1>5, <1>9, <1>10 DEF HandleEvent
<1>12. pump' \in {"over", "trailing", "parsing"}
  BY <1>5 DEF HandleEvent, Finish
<1> QED
  BY <1>3, <1>4, <1>11, <1>12 DEF WireInv

LEMMA TrailingInv == ASSUME WireInv, Trailing PROVE WireInv'
<1>1. PICK q \in 0..Len(call.events) : Taken(q)
  BY DEF WireInv
<1>2. Len(call.events) \in Nat /\ q \in Nat
  BY CallTold
<1>3. /\ UNCHANGED <<call, posted, arrived, parsed, open, ended>> /\ pump = "trailing"
      /\ parsed = 4 * q /\ parsed <= arrived /\ arrived \in Nat /\ arrived <= 4 * Len(call.events)
      /\ recorded = <<>>
  BY <1>1 DEF Taken, Trailing
<1>4. pump' = "over" /\ Len(recorded') = 1
  <2>1. pump' = "over" /\ \E label \in {"ok", "failed"} : recorded' = Append(recorded, label)
    BY DEF Trailing, Finish
  <2> QED
    BY <1>3, <2>1
<1>5. ASSUME open PROVE frames' = Expected(call, arrived, ended)
  <2>1. /\ Folding(q)
        /\ \/ ended = "" /\ q >= 1 /\ call.events[q].t = "stop" /\ Unended(q - 1)
           \/ ended = "closed" /\ arrived < 4 * q + 4 /\ Unended(q)
    BY <1>1, <1>3, <1>5 DEF Taken
  <2> DEFINE read == Reading(call.proto, call.events)
  <2>2. acc = read[q].completion /\ frames = read[q].texts
    BY <1>5, <2>1 DEF Folding
  <2>3. CASE ended = "" /\ q >= 1 /\ call.events[q].t = "stop" /\ Unended(q - 1)
    <3>1. q = Len(call.events)
      <4>1. \A k \in 1..(Len(call.events) - 1) : call.events[k].t # "stop"
        BY CallTold
      <4>2. q \notin 1..(Len(call.events) - 1)
        BY <2>3, <4>1
      <4>3. q <= Len(call.events)
        BY <1>1, <1>2
      <4> DEFINE n == Len(call.events)
      <4>4. n \in Nat /\ q \in Nat /\ q >= 1 /\ q \notin 1..(n - 1) /\ q <= n
        BY <1>2, <2>3, <4>2, <4>3
      <4> HIDE DEF n
      <4>5. q = n
        BY ONLY <4>4
      <4> QED
        BY <4>5 DEF n
    <3>2. arrived = 4 * q
      BY <1>2, <1>3, <3>1
    <3>3. arrived - parsed = 0
      BY <1>2, <1>3, <3>2
    <3>4. frames' = Append(frames, [t |-> "done", completion |-> acc])
      BY <1>5, <3>3 DEF Trailing, Finish
    <3>5. Whole(arrived, ended) = q
      <4>1. 4 * q <= arrived /\ arrived < 4 * q + 4 /\ arrived # 4 * q + 3
        BY <1>2, <3>2
      <4>2. (arrived + 1) \div 4 = q
        BY <1>2, <1>3, <4>1, Pieces
      <4> QED
        BY <2>3, <4>2 DEF Whole
    <3>6. /\ q \in 1..q /\ call.events[q].t \in Ends
          /\ \A k \in 1..(q - 1) : call.events[k].t \notin Ends
      <4>1. q \in 1..q
        <5>1. q \in Nat /\ q >= 1
          BY <1>2, <2>3
        <5>2. \A x \in Nat : x >= 1 => x \in 1..x
          OBVIOUS
        <5> QED
          BY <5>1, <5>2
      <4>3. "stop" \in Ends
        BY DEF Ends
      <4>2. \A k \in 1..(q - 1) : call.events[k].t \notin Ends
        BY <2>3 DEF Unended
      <4> QED
        BY <2>3, <4>1, <4>2, <4>3
    <3>7. Expected(call, arrived, ended) =
             Append(read[q].texts, IF call.events[q].t # "stop" THEN [t |-> "error"]
                                   ELSE [t |-> "done", completion |-> read[q].completion])
      BY <1>2, <3>5, <3>6, ExpectedAtCut
    <3> QED
      BY <2>2, <2>3, <3>4, <3>7
  <2>4. CASE ended = "closed" /\ arrived < 4 * q + 4 /\ Unended(q)
    <3> DEFINE rest == arrived - parsed
    <3>1. /\ rest \in 0..3 /\ arrived = 4 * q + rest
          /\ arrived % 4 = 2 <=> rest = 2
          /\ Whole(arrived, ended) = IF rest = 3 THEN q + 1 ELSE q
      BY <1>2, <1>3, <2>4, Pieces DEF Whole
    <3>2. \A k \in 1..q : call.events[k].t \notin Ends
      BY <2>4 DEF Unended
    <3>3. CASE rest \in {0, 1}
      <4>1. frames' = Append(frames, [t |-> "done", completion |-> acc])
        BY <1>5, <3>3 DEF Trailing, Finish
      <4>2. Expected(call, arrived, ended) =
               Append(read[q].texts, [t |-> "done", completion |-> read[q].completion])
        BY <1>2, <2>4, <3>1, <3>2, <3>3, ExpectedAtEnd
      <4> QED
        BY <2>2, <4>1, <4>2
    <3>4. CASE rest = 2
      <4>1. frames' = Append(frames, [t |-> "error"])
        BY <1>5, <3>4 DEF Trailing, Finish
      <4>2. Expected(call, arrived, ended) =
               Append(read[q].texts, IF ended = "failed" \/ arrived % 4 = 2 THEN [t |-> "error"]
                                     ELSE [t |-> "done", completion |-> read[q].completion])
        <5>1. Whole(arrived, ended) = q
          BY <3>1, <3>4
        <5> QED
          BY <1>2, <3>2, <5>1, ExpectedAtEnd
      <4> QED
        BY <2>2, <3>1, <3>4, <4>1, <4>2
    <3>5. CASE rest = 3
      <4> DEFINE e == Event(q + 1)
      <4>1. q + 1 <= Len(call.events) /\ q + 1 \in 1..Len(call.events)
        <5> DEFINE n == Len(call.events)
        <5>1. n \in Nat /\ q \in Nat /\ arrived = 4 * q + 3 /\ arrived <= 4 * n
          BY <1>2, <1>3, <3>1, <3>5
        <5> HIDE DEF n
        <5>2. q + 1 <= n /\ q + 1 \in 1..n
          BY ONLY <5>1
        <5> QED
          BY <5>2 DEF n
      <4>2. /\ read[q + 1].completion = Folded(call.proto, acc, e)
            /\ read[q + 1].texts = IF e.t = "text" THEN Append(frames, e) ELSE frames
        BY <1>2, <1>5, <2>1, <4>1, OneMore
      <4>3. NextEvent = q + 1
        BY <1>2, <1>3, Pieces DEF NextEvent
      <4>4. Whole(arrived, ended) = q + 1 /\ q + 1 \in Nat /\ q + 1 \in 1..(q + 1) /\ arrived % 4 # 2
        BY <1>2, <3>1, <3>5
      <4>5. \A k \in 1..((q + 1) - 1) : call.events[k].t \notin Ends
        BY <1>2, <3>2
      <4>8. ASSUME call.events[q + 1].t \in Ends
            PROVE  Expected(call, arrived, ended) =
                     Append(read[q + 1].texts, IF call.events[q + 1].t # "stop" THEN [t |-> "error"]
                            ELSE [t |-> "done", completion |-> read[q + 1].completion])
        <5>1. PICK p : p = q + 1
          OBVIOUS
        <5>2. /\ Whole(arrived, ended) = p /\ p \in Nat /\ p \in 1..p /\ call.events[p].t \in Ends
              /\ \A k \in 1..(p - 1) : call.events[k].t \notin Ends
          BY <4>4, <4>5, <4>8, <5>1
        <5> HIDE DEF e, read
        <5>3. Expected(call, arrived, ended) =
                 Append(Reading(call.proto, call.events)[p].texts,
                        IF call.events[p].t # "stop" THEN [t |-> "error"]
                        ELSE [t |-> "done", completion |-> Reading(call.proto, call.events)[p].completion])
          BY ONLY <5>2, ExpectedAtCut
        <5> QED
          BY <5>1, <5>3 DEF read
      <4>6. ASSUME e.t \in Ends \ {"stop"} PROVE frames' = Expected(call, arrived, ended)
        <5>1. frames' = Append(frames, [t |-> "error"])
          BY <1>5, <3>5, <4>3, <4>6 DEF Trailing, Finish
        <5>2. call.events[q + 1].t \in Ends /\ call.events[q + 1].t # "stop" /\ e.t # "text"
          BY <4>6 DEF Event, Ends
        <5>3. Expected(call, arrived, ended) = Append(read[q + 1].texts, [t |-> "error"])
          BY <4>8, <5>2
        <5> QED
          BY <4>2, <5>1, <5>2, <5>3
      <4>7. ASSUME e.t \notin Ends \ {"stop"} PROVE frames' = Expected(call, arrived, ended)
        <5> DEFINE done == [t |-> "done", completion |-> acc']
        <5>1. /\ acc' = Folded(call.proto, acc, e)
              /\ frames' = frames \o (IF e.t = "text" THEN <<e>> ELSE <<>>) \o <<done>>
          BY <1>5, <3>5, <4>3, <4>7 DEF Trailing
        <5>2. frames \in Seq(ToSet(call.events)) /\ e \in ToSet(call.events)
          <6>1. call.events \in Seq(ToSet(call.events))
            BY CallTold
          <6>2. read[q].texts \in Seq(ToSet(call.events))
            BY <6>1, ReadingTexts
          <6> QED
            BY <2>2, <4>1, <6>1, <6>2 DEF Event
        <5>3. frames' = Append(read[q + 1].texts, done)
          <6> HIDE DEF done, e, read
          <6>1. ASSUME e.t = "text" PROVE frames \o <<e>> \o <<done>> = Append(Append(frames, e), done)
            <7>1. frames \o <<e>> = Append(frames, e) /\ Append(frames, e) \in Seq(ToSet(call.events))
              BY <5>2
            <7> HIDE DEF done
            <7>2. \A s \in Seq(ToSet(call.events)) : s \o <<done>> = Append(s, done)
              OBVIOUS
            <7> QED
              BY <7>1, <7>2
          <6>2. frames \o <<>> \o <<done>> = Append(frames, done)
            BY <5>2
          <6> QED
            BY <4>2, <5>1, <6>1, <6>2
        <5>4. Expected(call, arrived, ended) =
                 Append(read[q + 1].texts, [t |-> "done", completion |-> read[q + 1].completion])
          <6>1. CASE e.t = "stop"
            <7>1. call.events[q + 1].t \in Ends /\ call.events[q + 1].t = "stop"
              BY <6>1 DEF Event, Ends
            <7> QED
              BY <4>8, <7>1
          <6>2. CASE e.t # "stop"
            <7>1. \A k \in 1..(q + 1) : call.events[k].t \notin Ends
              <8>1. \A k \in 1..(q + 1) : k = q + 1 \/ k \in 1..((q + 1) - 1)
                BY <1>2
              <8> QED
                BY <4>5, <4>7, <6>2, <8>1 DEF Event
            <7>2. ~(ended = "failed" \/ arrived % 4 = 2)
              BY <2>4, <4>4
            <7> QED
              BY <4>4, <7>1, <7>2, ExpectedAtEnd
          <6> QED
            BY <6>1, <6>2
        <5> QED
          BY <4>2, <5>1, <5>3, <5>4
      <4> QED
        BY <4>6, <4>7
    <3> QED
      BY <3>1, <3>3, <3>4, <3>5
  <2> QED
    BY <2>1, <2>3, <2>4
<1>6. Taken(q)'
  BY <1>3, <1>4, <1>5 DEF Taken
<1> QED
  BY <1>2, <1>3, <1>4, <1>6 DEF WireInv

-----------------------------------------------------------------------------
(* What the Messages API is sent: the calls of a message, and, right behind *)
(* it, their results.                                                      *)
Calling(msg) == msg.role = "assistant" /\ msg.blocks # <<>>

Followed(out) ==
    \A i \in 1..(Len(out) - 1) : Calling(out[i]) =>
        out[i + 1].role = "user" /\ IdsOf(out[i + 1].blocks) = IdsOf(out[i].blocks)

(* The calls of the last message are those of the conversation at i, and   *)
(* what answers them is pending.                                           *)
Owed(talk, w, k) ==
    w.out # <<>> /\ Calling(w.out[Len(w.out)]) =>
        \E i \in 1..k : /\ talk[i] = w.out[Len(w.out)]
                        /\ \A j \in (i + 1)..k : talk[j].role = "tool"
                        /\ IdsOf(w.pending) = IdsIn(talk, i + 1, k)

Blocks(talk) == UNION {ToSet(talk[i].blocks) : i \in DOMAIN talk}
Messages(talk) == ToSet(talk) \cup [role : {"user"}, blocks : Seq(Blocks(talk))]

LEMMA IdsTogether ==
    ASSUME NEW S, NEW s \in Seq(S), NEW t \in Seq(S)
    PROVE  /\ IdsOf(s \o t) = IdsOf(s) \cup IdsOf(t)
           /\ IdsOf(<<>>) = {} /\ (s # <<>> => IdsOf(s) # {})
<1>1. ToSet(s \o t) = ToSet(s) \cup ToSet(t)
  <2> DEFINE u == s \o t
  <2>1. /\ DOMAIN u = 1..(Len(s) + Len(t)) /\ Len(s) \in Nat /\ Len(t) \in Nat
        /\ DOMAIN s = 1..Len(s) /\ DOMAIN t = 1..Len(t)
        /\ \A i \in 1..Len(s) : u[i] = s[i]
        /\ \A i \in 1..Len(t) : u[Len(s) + i] = t[i]
    OBVIOUS
  <2>2. \A i \in 1..(Len(s) + Len(t)) : i \in 1..Len(s) \/ (i - Len(s) \in 1..Len(t) /\ Len(s) + (i - Len(s)) = i)
    BY <2>1
  <2> HIDE DEF u
  <2>3. ToSet(u) \subseteq ToSet(s) \cup ToSet(t)
    <3> SUFFICES ASSUME NEW i \in DOMAIN u PROVE u[i] \in ToSet(s) \cup ToSet(t)
      BY DEF ToSet
    <3>1. CASE i \in 1..Len(s)
      BY <2>1, <3>1 DEF ToSet
    <3>2. CASE i - Len(s) \in 1..Len(t) /\ Len(s) + (i - Len(s)) = i
      BY <2>1, <3>2 DEF ToSet
    <3> QED
      BY <2>1, <2>2, <3>1, <3>2
  <2>4. ToSet(s) \subseteq ToSet(u)
    <3>1. \A i \in 1..Len(s) : i \in DOMAIN u
      BY <2>1
    <3> QED
      BY <2>1, <3>1 DEF ToSet
  <2>5. ToSet(t) \subseteq ToSet(u)
    <3>1. \A i \in 1..Len(t) : Len(s) + i \in DOMAIN u
      BY <2>1
    <3> QED
      BY <2>1, <3>1 DEF ToSet
  <2> QED
    BY <2>3, <2>4, <2>5 DEF u
<1>2. ToSet(<<>>) = {} /\ (s # <<>> => ToSet(s) # {})
  BY DEF ToSet
<1> QED
  BY <1>1, <1>2 DEF IdsOf

LEMMA IdsOneMore ==
    ASSUME NEW talk, NEW first \in Nat, NEW last \in Nat, first <= last + 1
    PROVE  IdsIn(talk, first, last + 1) = IdsIn(talk, first, last) \cup IdsOf(talk[last + 1].blocks)
<1>1. first..(last + 1) = (first..last) \cup {last + 1}
  OBVIOUS
<1> QED
  BY <1>1 DEF IdsIn

LEMMA FollowedBy ==
    ASSUME NEW M, NEW out \in Seq(M), NEW x, Followed(out),
           out # <<>> /\ Calling(out[Len(out)]) =>
               x.role = "user" /\ IdsOf(x.blocks) = IdsOf(out[Len(out)].blocks)
    PROVE  Followed(Append(out, x))
<1> DEFINE n == Len(out)
           new == Append(out, x)
<1>1. n \in Nat /\ Len(new) = n + 1 /\ new[n + 1] = x /\ \A i \in 1..n : new[i] = out[i]
  OBVIOUS
<1>2. ASSUME NEW i \in 1..n, Calling(new[i])
      PROVE  new[i + 1].role = "user" /\ IdsOf(new[i + 1].blocks) = IdsOf(new[i].blocks)
  <2>1. CASE i = n
    <3>1. out # <<>> /\ new[i] = out[n] /\ new[i + 1] = x
      BY <1>1, <2>1
    <3> QED
      BY <1>2, <2>1, <3>1
  <2>2. CASE i # n
    <3>1. i \in 1..(n - 1) /\ i + 1 \in 1..n
      BY <1>1, <2>2
    <3>2. new[i] = out[i] /\ new[i + 1] = out[i + 1]
      BY <1>1, <3>1
    <3> QED
      BY <1>2, <3>1, <3>2 DEF Followed
  <2> QED
    BY <2>1, <2>2
<1>3. (n + 1) - 1 = n
  BY <1>1
<1> HIDE DEF n, new
<1> QED
  BY <1>1, <1>2, <1>3 DEF Followed, new

LEMMA WhereOwed ==
    ASSUME NEW talk, Len(talk) \in Nat, DOMAIN talk = 1..Len(talk), Replied(talk),
           NEW k \in 0..Len(talk), NEW i \in 1..k, Calling(talk[i]),
           \A j \in (i + 1)..k : talk[j].role = "tool",
           k < Len(talk) => talk[k + 1].role # "tool"
    PROVE  /\ k < Len(talk) => talk[k + 1].role # "system"
           /\ IdsIn(talk, i + 1, k) = IdsOf(talk[i].blocks)
<1>1. PICK m \in (i + 1)..Len(talk) :
        /\ \A j \in (i + 1)..m : talk[j].role = "tool"
        /\ m < Len(talk) => talk[m + 1].role \notin {"tool", "system"}
        /\ IdsIn(talk, i + 1, m) = IdsOf(talk[i].blocks)
  BY DEF Replied, Calling
<1>2. ~(m < k)
  <2>1. m < k => m + 1 \in (i + 1)..k /\ m < Len(talk)
    OBVIOUS
  <2> QED
    BY <1>1, <2>1
<1>3. ~(k < m)
  <2>1. k < m => k + 1 \in (i + 1)..m /\ k < Len(talk)
    OBVIOUS
  <2> QED
    BY <1>1, <2>1
<1>4. m = k
  BY <1>2, <1>3
<1> QED
  BY <1>1, <1>4

(* Message after message.                                                  *)
WiredWell(talk, w, k) ==
    /\ w \in [out : Seq(Messages(talk)), pending : Seq(Blocks(talk))]
    /\ Followed(w.out) /\ Owed(talk, w, k)

(* Whatever was owed is paid when the pending results are flushed.         *)
LEMMA FlushedWell ==
    ASSUME NEW talk, talk \in Seq(ToSet(talk)), Replied(talk), NEW k \in 0..Len(talk), NEW w,
           \A i \in DOMAIN talk : talk[i].blocks \in Seq(ToSet(talk[i].blocks)),
           WiredWell(talk, w, k), k < Len(talk) => talk[k + 1].role # "tool",
           NEW f, f = FlushResults(w)
    PROVE  /\ f \in [out : Seq(Messages(talk)), pending : Seq(Blocks(talk))]
           /\ f.pending = <<>> /\ Followed(f.out)
           /\ f.out # <<>> => ~Calling(f.out[Len(f.out)])
<1> DEFINE last == w.out[Len(w.out)]
           results == [role |-> "user", blocks |-> w.pending]
<1>1. Len(talk) \in Nat /\ DOMAIN talk = 1..Len(talk)
  OBVIOUS
<1>2. /\ w.out \in Seq(Messages(talk)) /\ w.pending \in Seq(Blocks(talk))
      /\ w = [out |-> w.out, pending |-> w.pending] /\ Followed(w.out) /\ Owed(talk, w, k)
  BY DEF WiredWell
<1>3. ASSUME w.out # <<>>, Calling(last) PROVE w.pending # <<>> /\ IdsOf(w.pending) = IdsOf(last.blocks)
  <2>1. PICK i \in 1..k :
          /\ talk[i] = last /\ \A j \in (i + 1)..k : talk[j].role = "tool"
          /\ IdsOf(w.pending) = IdsIn(talk, i + 1, k)
    BY <1>2, <1>3 DEF Owed
  <2>2. Calling(talk[i])
    BY <1>3, <2>1
  <2>3. IdsIn(talk, i + 1, k) = IdsOf(talk[i].blocks)
    BY <1>1, <2>1, <2>2, WhereOwed
  <2>4. IdsOf(talk[i].blocks) # {}
    <3>1. talk[i].blocks \in Seq(ToSet(talk[i].blocks)) /\ talk[i].blocks # <<>>
      BY <1>1, <2>2 DEF Calling
    <3> QED
      BY <3>1, IdsTogether
  <2>5. IdsOf(<<>>) = {}
    BY DEF IdsOf, ToSet
  <2> QED
    BY <2>1, <2>3, <2>4, <2>5
<1>4. CASE w.pending = <<>>
  <2>1. f = w
    BY <1>4 DEF FlushResults
  <2> QED
    BY <1>2, <1>3, <1>4, <2>1 DEF WiredWell
<1>5. CASE w.pending # <<>>
  <2>1. f.out = Append(w.out, results) /\ f.pending = <<>> /\ f = [out |-> Append(w.out, results), pending |-> <<>>]
    BY <1>5 DEF FlushResults
  <2>2. results \in Messages(talk) /\ results.role = "user" /\ results.blocks = w.pending /\ ~Calling(results)
    BY <1>2 DEF Messages, Calling
  <2> HIDE DEF results
  <2>3. Append(w.out, results) \in Seq(Messages(talk)) /\ <<>> \in Seq(Blocks(talk))
    BY <1>2, <2>2
  <2>4. Followed(Append(w.out, results))
    BY <1>2, <1>3, <2>2, FollowedBy
  <2>5. LET n == Len(Append(w.out, results)) IN Append(w.out, results)[n] = results
    BY <1>2, <2>2
  <2> QED
    BY <2>1, <2>2, <2>3, <2>4, <2>5
<1> QED
  BY <1>4, <1>5

LEMMA WiredOn ==
    ASSUME NEW talk, talk \in Seq(ToSet(talk)), Replied(talk),
           \A i \in DOMAIN talk : talk[i].blocks \in Seq(ToSet(talk[i].blocks)),
           NEW k \in 0..(Len(talk) - 1), NEW w, WiredWell(talk, w, k)
    PROVE  WiredWell(talk, WireMessage(w, talk[k + 1]), k + 1)
<1> DEFINE msg == talk[k + 1]
           last == w.out[Len(w.out)]
<1>1. /\ Len(talk) \in Nat /\ DOMAIN talk = 1..Len(talk) /\ k \in Nat /\ k < Len(talk)
      /\ k + 1 \in 1..Len(talk) /\ k \in 0..Len(talk)
  OBVIOUS
<1>2. /\ w.out \in Seq(Messages(talk)) /\ w.pending \in Seq(Blocks(talk))
      /\ w = [out |-> w.out, pending |-> w.pending] /\ Followed(w.out) /\ Owed(talk, w, k)
  BY DEF WiredWell
<1>3. msg.blocks \in Seq(Blocks(talk)) /\ msg \in Messages(talk)
  <2>1. msg.blocks \in Seq(ToSet(msg.blocks)) /\ ToSet(msg.blocks) \subseteq Blocks(talk)
    BY <1>1 DEF Blocks
  <2>2. msg \in ToSet(talk)
    BY <1>1 DEF ToSet
  <2> HIDE DEF msg
  <2>3. \A S, T : S \subseteq T => Seq(S) \subseteq Seq(T)
    OBVIOUS
  <2> QED
    BY <2>1, <2>2, <2>3 DEF Messages
<1>4. CASE msg.role = "system"
  <2>1. WireMessage(w, msg) = w
    BY <1>4 DEF WireMessage
  <2>2. ~(w.out # <<>> /\ Calling(last))
    <3> SUFFICES ASSUME w.out # <<>>, Calling(last) PROVE FALSE
      OBVIOUS
    <3>1. PICK i \in 1..k : /\ talk[i] = last /\ \A j \in (i + 1)..k : talk[j].role = "tool"
      BY <1>2 DEF Owed
    <3>2. Calling(talk[i]) /\ talk[k + 1].role = "system"
      BY <1>4, <3>1
    <3> HIDE DEF last, msg
    <3> QED
      BY <1>1, <3>1, <3>2, WhereOwed
  <2>3. Owed(talk, w, k + 1)
    BY <2>2 DEF Owed
  <2> QED
    BY <1>2, <2>1, <2>3 DEF WiredWell
<1>5. CASE msg.role = "tool"
  <2> DEFINE v == WireMessage(w, msg)
  <2>1. v = [out |-> w.out, pending |-> w.pending \o msg.blocks]
    <3>1. v = [w EXCEPT !.pending = w.pending \o msg.blocks]
      BY <1>5 DEF WireMessage
    <3>2. PICK p : p = w.pending \o msg.blocks
      OBVIOUS
    <3>3. w \in [out : Seq(Messages(talk)), pending : Seq(Blocks(talk))]
      BY DEF WiredWell
    <3> HIDE DEF v, msg
    <3>4. v = [w EXCEPT !.pending = p]
      BY <3>1, <3>2
    <3>5. v = [out |-> w.out, pending |-> p]
      BY <3>3, <3>4
    <3> QED
      BY <3>2, <3>5
  <2> HIDE DEF v, msg
  <2>2. v.out = w.out /\ v.pending = w.pending \o msg.blocks
    BY <2>1
  <2>3. v.pending \in Seq(Blocks(talk)) /\ IdsOf(v.pending) = IdsOf(w.pending) \cup IdsOf(msg.blocks)
    BY <1>2, <1>3, <2>2, IdsTogether
  <2>4. ASSUME w.out # <<>>, Calling(last)
        PROVE  \E i \in 1..(k + 1) :
                 /\ talk[i] = last
                 /\ \A j \in (i + 1)..(k + 1) : talk[j].role = "tool"
                 /\ IdsOf(v.pending) = IdsIn(talk, i + 1, k + 1)
    <3>1. PICK i \in 1..k :
            /\ talk[i] = last /\ \A j \in (i + 1)..k : talk[j].role = "tool"
            /\ IdsOf(w.pending) = IdsIn(talk, i + 1, k)
      BY <1>2, <2>4 DEF Owed
    <3>2. i \in 1..(k + 1) /\ (i + 1)..(k + 1) = ((i + 1)..k) \cup {k + 1}
      BY <1>1
    <3>3. \A j \in (i + 1)..(k + 1) : talk[j].role = "tool"
      BY <1>5, <3>1, <3>2 DEF msg
    <3>4. IdsOf(v.pending) = IdsIn(talk, i + 1, k + 1)
      <4>1. IdsIn(talk, i + 1, k + 1) = IdsIn(talk, i + 1, k) \cup IdsOf(talk[k + 1].blocks)
        <5>1. i + 1 \in Nat /\ k \in Nat /\ i + 1 <= k + 1
          BY <1>1
        <5> QED
          BY <5>1, IdsOneMore
      <4> QED
        BY <2>3, <3>1, <4>1 DEF msg
    <3> QED
      BY <3>1, <3>2, <3>3, <3>4
  <2>5. Owed(talk, v, k + 1)
    BY <2>2, <2>4 DEF Owed
  <2>6. v \in [out : Seq(Messages(talk)), pending : Seq(Blocks(talk))] /\ Followed(v.out)
    BY <1>2, <2>1, <2>2, <2>3
  <2> QED
    BY <2>5, <2>6 DEF WiredWell, v, msg
<1>6. CASE msg.role \notin {"system", "tool"}
  <2>0. PICK f : f = FlushResults(w)
    OBVIOUS
  <2>1. /\ f \in [out : Seq(Messages(talk)), pending : Seq(Blocks(talk))]
        /\ f.pending = <<>> /\ Followed(f.out)
        /\ f.out # <<>> => ~Calling(f.out[Len(f.out)])
    <3>1. talk[k + 1].role # "tool"
      BY <1>6
    <3> HIDE DEF msg
    <3> QED
      BY <1>1, <2>0, <3>1, FlushedWell
  <2> DEFINE v == WireMessage(w, msg)
  <2>2. v = [f EXCEPT !.out = Append(@, msg)]
    BY <1>6, <2>0 DEF WireMessage
  <2> HIDE DEF v, msg
  <2>3. v = [out |-> Append(f.out, msg), pending |-> <<>>]
    BY <2>1, <2>2
  <2>4. v.out = Append(f.out, msg) /\ v.pending = <<>> /\ v.out \in Seq(Messages(talk))
    BY <1>3, <2>1, <2>3
  <2>5. v \in [out : Seq(Messages(talk)), pending : Seq(Blocks(talk))]
    BY <2>1, <2>3, <2>4
  <2>6. Followed(v.out)
    BY <2>1, <2>4, FollowedBy
  <2>7. v.out[Len(v.out)] = msg
    BY <1>3, <2>1, <2>4
  <2>8. Owed(talk, v, k + 1)
    <3>1. talk[k + 1] = msg /\ k + 1 \in 1..(k + 1) /\ ((k + 1) + 1)..(k + 1) = {}
      BY <1>1 DEF msg
    <3>2. IdsOf(v.pending) = {}
      BY <2>4 DEF IdsOf, ToSet
    <3>3. IdsIn(talk, (k + 1) + 1, k + 1) = {}
      BY <3>1 DEF IdsIn
    <3> QED
      BY <2>7, <3>1, <3>2, <3>3 DEF Owed
  <2> QED
    BY <2>5, <2>6, <2>8 DEF WiredWell, v, msg
<1> QED
  BY <1>4, <1>5, <1>6

LEMMA CallsFollowed ==
    ASSUME NEW talk, talk \in Seq(ToSet(talk)), Replied(talk),
           \A i \in DOMAIN talk : talk[i].blocks \in Seq(ToSet(talk[i].blocks))
    PROVE  /\ WireMessages(talk) \in Seq(Messages(talk))
           /\ \A i \in DOMAIN WireMessages(talk) : Calling(WireMessages(talk)[i]) =>
                /\ i < Len(WireMessages(talk)) /\ WireMessages(talk)[i + 1].role = "user"
                /\ IdsOf(WireMessages(talk)[i + 1].blocks) = IdsOf(WireMessages(talk)[i].blocks)
<1> DEFINE T == {k \in 0..Len(talk) : WiredWell(talk, Wired(talk)[k], k)}
<1>0. Len(talk) \in Nat
  OBVIOUS
<1>1. \A k : k \in T <=> k \in 0..Len(talk) /\ WiredWell(talk, Wired(talk)[k], k)
  OBVIOUS
<1> HIDE DEF T
<1>2. 0 \in T
  <2> DEFINE none == [out |-> <<>>, pending |-> <<>>]
  <2>1. none \in [out : Seq(Messages(talk)), pending : Seq(Blocks(talk))] /\ none.out = <<>>
    OBVIOUS
  <2>2. Len(<<>>) = 0 /\ 1..(0 - 1) = {}
    OBVIOUS
  <2>3. Followed(none.out) /\ Owed(talk, none, 0)
    BY <2>1, <2>2 DEF Followed, Owed
  <2>4. Wired(talk)[0] = none
    BY <1>0, WiredTold
  <2> HIDE DEF none
  <2>5. WiredWell(talk, none, 0)
    BY <2>1, <2>3 DEF WiredWell
  <2>6. 0 \in 0..Len(talk)
    BY <1>0
  <2> QED
    BY <1>1, <2>4, <2>5, <2>6
<1>3. ASSUME NEW k \in 0..(Len(talk) - 1), k \in T PROVE k + 1 \in T
  <2>1. k + 1 \in 1..Len(talk) /\ (k + 1) - 1 = k /\ k + 1 \in 0..Len(talk)
    BY <1>0
  <2>2. Wired(talk)[k + 1] = WireMessage(Wired(talk)[k], talk[k + 1])
    BY <1>0, <2>1, WiredTold
  <2>3. WiredWell(talk, Wired(talk)[k], k)
    BY <1>1, <1>3
  <2>4. WiredWell(talk, WireMessage(Wired(talk)[k], talk[k + 1]), k + 1)
    BY <2>3, WiredOn
  <2> QED
    BY <1>1, <2>1, <2>2, <2>4
<1>4. WiredWell(talk, Wired(talk)[Len(talk)], Len(talk))
  <2>1. 0..Len(talk) \subseteq T
    BY <1>0, <1>2, <1>3, NumbersUpTo
  <2> QED
    BY <1>0, <1>1, <2>1
<1>5. PICK f : f = FlushResults(Wired(talk)[Len(talk)])
  OBVIOUS
<1>6. /\ f.out \in Seq(Messages(talk)) /\ Followed(f.out)
      /\ f.out # <<>> => ~Calling(f.out[Len(f.out)])
  <2>1. Len(talk) \in 0..Len(talk) /\ ~(Len(talk) < Len(talk))
    BY <1>0
  <2> QED
    BY <1>4, <1>5, <2>1, FlushedWell
<1>7. WireMessages(talk) = f.out
  BY <1>5 DEF WireMessages
<1>8. ASSUME NEW i \in DOMAIN f.out, Calling(f.out[i])
      PROVE  /\ i < Len(f.out) /\ f.out[i + 1].role = "user"
             /\ IdsOf(f.out[i + 1].blocks) = IdsOf(f.out[i].blocks)
  <2>1. i \in 1..Len(f.out) /\ Len(f.out) \in Nat /\ i # Len(f.out)
    BY <1>6, <1>8
  <2>2. i < Len(f.out) /\ i \in 1..(Len(f.out) - 1)
    BY <2>1
  <2> QED
    BY <1>6, <1>8, <2>2 DEF Followed
<1> QED
  BY <1>6, <1>7, <1>8

-----------------------------------------------------------------------------
LEMMA ProviderStarts == ProviderInit => WireInv
<1> SUFFICES ASSUME ProviderInit PROVE WireInv
  OBVIOUS
<1>1. call \in Calls /\ Len(call.events) \in Nat
  <2>1. call \in Calls
    BY DEF ProviderInit
  <2>2. call.events \in Seq(ToSet(call.events))
    BY <2>1, EventsAssumption DEF EventsAssumption
  <2> QED
    BY <2>1, <2>2
<1>2. Taken(0)
  <2>1. 0 = 4 * 0 /\ 0 \in Nat /\ 0 <= 0 /\ 0 <= 4 * Len(call.events)
    BY <1>1
  <2>2. /\ parsed = 0 /\ arrived = 0 /\ acc = NoCompletion /\ frames = <<>> /\ recorded = <<>>
        /\ ended = "" /\ pump = "new"
    BY DEF ProviderInit
  <2> QED
    BY <2>1, <2>2 DEF Taken
<1>3. 0 \in 0..Len(call.events)
  BY <1>1
<1>4. open \in BOOLEAN /\ posted = <<>> /\ pump = "new"
  BY DEF ProviderInit
<1> QED
  BY <1>1, <1>2, <1>3, <1>4 DEF WireInv

LEMMA ProviderSteps == WireInv /\ [ProviderNext]_providerVars => WireInv'
<1> SUFFICES ASSUME WireInv, [ProviderNext]_providerVars PROVE WireInv'
  OBVIOUS
<1>1. CASE ProviderNext
  BY <1>1, EarlyInv, ReadsInv, HandleInv, TrailingInv DEF ProviderNext
<1>2. CASE UNCHANGED providerVars
  <2>1. UNCHANGED <<call, posted, pump, arrived, parsed, acc, frames, open, ended, recorded>>
    BY <1>2 DEF providerVars
  <2>2. ASSUME NEW q, Taken(q) PROVE Taken(q)'
    BY <2>1, <2>2 DEF Taken, Unended, Folding
  <2> QED
    BY <2>1, <2>2 DEF WireInv
<1> QED
  BY <1>1, <1>2

LEMMA WireLosesNothing == WireInv => NothingLostOnTheWire
<1> SUFFICES ASSUME WireInv PROVE NothingLostOnTheWire
  OBVIOUS
<1>1. ChunkingDoesNotShow
  <2>1. PICK q \in 0..Len(call.events) : Taken(q)
    BY DEF WireInv
  <2>2. pump = "over" => Len(recorded) = 1
    BY <2>1 DEF Taken
  <2>3. pump # "over" => recorded = <<>>
    BY <2>1 DEF Taken, WireInv
  <2>4. Len(recorded) = IF pump = "over" THEN 1 ELSE 0
    <3>1. CASE pump = "over"
      BY <2>2, <3>1
    <3>2. CASE pump # "over"
      BY <2>3, <3>2
    <3> QED
      BY <3>1, <3>2
  <2>5. ASSUME pump = "over", open, recorded # <<"refused">> PROVE frames = Expected(call, arrived, ended)
    BY <2>1, <2>5 DEF Taken
  <2> QED
    BY <2>4, <2>5 DEF ChunkingDoesNotShow
<1>2. ResultsFollowCalls
  <2> DEFINE talk == call.talk
  <2>1. /\ talk \in Seq(ToSet(talk)) /\ Replied(talk)
        /\ \A i \in DOMAIN talk : talk[i].blocks \in Seq(ToSet(talk[i].blocks))
    BY TalksAssumption DEF WireInv, TalksAssumption
  <2>2. CASE posted = <<>>
    BY <2>2 DEF ResultsFollowCalls
  <2>3. CASE call.proto = "anthropic" /\ posted = WireMessages(talk)
    <3> HIDE DEF talk
    <3> QED
      BY <2>1, <2>3, CallsFollowed DEF ResultsFollowCalls, Calling
  <2> QED
    BY <2>2, <2>3 DEF WireInv, ResultsFollowCalls
<1> QED
  BY <1>1, <1>2 DEF NothingLostOnTheWire

(* Whatever the conversation, the response, the chunks it comes in and the *)
(* place it ends: a receiver that stays sees every text and one terminal   *)
(* frame with what the response says, the call is recorded once, and the   *)
(* Messages API is sent the results of the calls right behind them         *)
(* (pump.rs drive and exchange, sse.rs, anthropic/ wire_messages).         *)
THEOREM WireKeepsAll == ProviderSpec => []NothingLostOnTheWire
<1>1. ProviderSpec => []WireInv
  BY ProviderStarts, ProviderSteps, PTL DEF ProviderSpec
<1> QED
  BY <1>1, WireLosesNothing, PTL
=============================================================================

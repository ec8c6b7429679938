----------------------------- MODULE ExecEngine -----------------------------
(***************************************************************************)
(* An `exec' engine: one warm child process, one line out and one line in, *)
(* no correlation between them (cauce-engines exec.rs).                    *)
(*                                                                         *)
(* Searches serialize on the mutex of State.  The holder takes the child   *)
(* out of State for the round trip and puts it back only after a decoded   *)
(* answer: on every other way out (deadline, io error, a line that does    *)
(* not decode, the pipeline dropping the future) the child is killed with  *)
(* whatever it still had to say, and a detached task warms another.        *)
(* A child negotiates down to v1 by rejecting the first v2 request.        *)
(***************************************************************************)
EXTENDS Naturals, Sequences

CONSTANTS Searches,  \* the concurrent callers of ExecEngine::search
          Queries,
          NoChild, NoAnswer, Failed

VARIABLES
    warm,      \* State.child
    holder,    \* the search that holds State's mutex, NoChild when free
    io,        \* the ChildIo its future owns, NoChild when none
    at,        \* at[s]: where the search is
    asked,     \* asked[s]: its query
    answer,    \* answer[s]: the query whose results it returned, or Failed
    respawns   \* RespawnOnDrop tasks waiting for the mutex

execVars == <<warm, holder, io, at, asked, answer, respawns>>

(* What a child writes for a request it could read: results, a protocol    *)
(* error, a line that does not decode.                                     *)
Replies == {"results", "error", "garbage"}

Child == [speaks : {1, 2}, version : {1, 2}, up : BOOLEAN,
          in : Seq([q : Queries, v : {1, 2}]),
          out : Seq([kind : Replies \cup {"rejects"}, q : Queries])]

(* What stands for no child is neither a caller nor a process.             *)
ASSUME NoChildAssumption == NoChild \notin Searches /\ NoChild \notin Child

(* spawn_child: optimistic about the version until the child rejects it.   *)
Spawned == {[speaks |-> v, version |-> 2, up |-> TRUE, in |-> <<>>, out |-> <<>>] :
            v \in {1, 2}}

ExecInit ==
    /\ warm \in Spawned \cup {NoChild}
    /\ holder = NoChild /\ io = NoChild
    /\ at = [s \in Searches |-> "idle"]
    /\ asked \in [Searches -> Queries]
    /\ answer = [s \in Searches |-> NoAnswer]
    /\ respawns = 0

-----------------------------------------------------------------------------
CallSearch(s, q) ==
    /\ at[s] = "idle"
    /\ at' = [at EXCEPT ![s] = "queued"]
    /\ asked' = [asked EXCEPT ![s] = q]
    /\ answer' = [answer EXCEPT ![s] = NoAnswer]
    /\ UNCHANGED <<warm, holder, io, respawns>>

Live == warm # NoChild /\ warm.up

(* ensure_child: a child that exited is reaped and replaced; a live one is *)
(* taken out of State.  A failed spawn ends the search.                    *)
EnsureChild(s) ==
    /\ at[s] = "queued" /\ holder = NoChild
    /\ warm' = NoChild
    /\ \/ /\ io' \in IF Live THEN {warm} ELSE Spawned
          /\ holder' = s /\ at' = [at EXCEPT ![s] = "writing"]
          /\ UNCHANGED answer
       \/ /\ ~Live                                          \* the spawn failed
          /\ at' = [at EXCEPT ![s] = "idle"]
          /\ answer' = [answer EXCEPT ![s] = Failed]
          /\ UNCHANGED <<io, holder>>
    /\ UNCHANGED <<asked, respawns>>

(* The request line, encoded at the version this process negotiated.       *)
WriteRequest(s) ==
    /\ at[s] = "writing" /\ io.up
    /\ io' = [io EXCEPT !.in = Append(@, [q |-> asked[s], v |-> io.version])]
    /\ at' = [at EXCEPT ![s] = "reading"]
    /\ UNCHANGED <<warm, holder, asked, answer, respawns>>

Line == Head(io.out)

Rejected == io.version = 2 /\ Line.kind = "rejects"

(* The rejection was a whole line: the request is resent on the same child. *)
Downgrade(s) ==
    /\ at[s] = "reading" /\ io.out # <<>> /\ Rejected
    /\ io' = [io EXCEPT !.out = Tail(@), !.version = 1]
    /\ at' = [at EXCEPT ![s] = "writing"]
    /\ UNCHANGED <<warm, holder, asked, answer, respawns>>

(* A decoded answer: disarm the guard and put the child back.              *)
ReadAnswer(s) ==
    /\ at[s] = "reading" /\ io.out # <<>> /\ Line.kind = "results"
    /\ warm' = [io EXCEPT !.out = Tail(@)]
    /\ io' = NoChild /\ holder' = NoChild
    /\ at' = [at EXCEPT ![s] = "idle"]
    /\ answer' = [answer EXCEPT ![s] = Line.q]
    /\ UNCHANGED <<asked, respawns>>

\* Mutated Leave: State keeps the child while the request is in flight.
LeaveChildWarm(s, result) ==
    /\ warm' = io /\ io' = NoChild /\ holder' = NoChild
    /\ respawns' = respawns + 1
    /\ at' = [at EXCEPT ![s] = "idle"]
    /\ answer' = [answer EXCEPT ![s] = result]
    /\ UNCHANGED asked

(* Everything a search that holds the child may leave with but an answer:  *)
(* the future drops, in this order, the armed guard, the child (killed)    *)
(* and the mutex.                                                          *)
Leave(s, result) ==
    /\ io' = NoChild /\ holder' = NoChild
    /\ respawns' = respawns + 1
    /\ at' = [at EXCEPT ![s] = "idle"]
    /\ answer' = [answer EXCEPT ![s] = result]
    /\ UNCHANGED <<warm, asked>>

(* The budget runs out, at any point; the pipe breaks or closes; the line  *)
(* is an error or no line of the protocol: all end in the same way.        *)
RoundTripFails(s) == at[s] \in {"writing", "reading"} /\ Leave(s, Failed)

(* The outer deadline of the pipeline drops the future, queued or not.     *)
DropSearch(s) ==
    \/ /\ at[s] \in {"writing", "reading"}
       /\ Leave(s, NoAnswer)
    \/ /\ at[s] = "queued"
       /\ at' = [at EXCEPT ![s] = "idle"]
       /\ UNCHANGED <<warm, holder, io, asked, answer, respawns>>

(* RespawnOnDrop's task: only an empty State is filled.                    *)
Respawn ==
    /\ respawns > 0 /\ holder = NoChild
    /\ respawns' = respawns - 1
    /\ warm' \in IF warm = NoChild THEN Spawned \cup {NoChild} ELSE {warm}
    /\ UNCHANGED <<holder, io, at, asked, answer>>

(* The child, an external program: it may be slow, and may die with        *)
(* answers written or requests unread.                                     *)
ChildReplies ==
    /\ io # NoChild /\ io.up /\ io.in # <<>>
    /\ \E kind \in IF Head(io.in).v > io.speaks THEN {"rejects"} ELSE Replies :
          io' = [io EXCEPT !.in = Tail(@),
                           !.out = Append(@, [kind |-> kind, q |-> Head(io.in).q])]
    /\ UNCHANGED <<warm, holder, at, asked, answer, respawns>>

ChildDies ==
    /\ \/ io # NoChild /\ io.up /\ io' = [io EXCEPT !.up = FALSE] /\ UNCHANGED warm
       \/ Live /\ warm' = [warm EXCEPT !.up = FALSE] /\ UNCHANGED io
    /\ UNCHANGED <<holder, at, asked, answer, respawns>>

ExecNext ==
    \/ \E s \in Searches :
          \/ \E q \in Queries : CallSearch(s, q)
          \/ EnsureChild(s) \/ WriteRequest(s) \/ Downgrade(s) \/ ReadAnswer(s)
          \/ RoundTripFails(s) \/ DropSearch(s)
    \/ Respawn \/ ChildReplies \/ ChildDies

ExecSpec == ExecInit /\ [][ExecNext]_execVars

-----------------------------------------------------------------------------
(* Type correctness.                                                       *)
ExecTypeOK ==
    /\ warm \in Child \cup {NoChild} /\ io \in Child \cup {NoChild}
    /\ holder \in Searches \cup {NoChild}
    /\ at \in [Searches -> {"idle", "queued", "writing", "reading"}]
    /\ asked \in [Searches -> Queries]
    /\ answer \in [Searches -> Queries \cup {NoAnswer, Failed}]
    /\ respawns \in Nat

(* A search returns the results of its own query, whatever earlier         *)
(* searches of the same process timed out, were dropped, or were rejected  *)
(* with: the protocol has no correlation, so a line left behind by one     *)
(* would decode as the next one's answer and reach the cache               *)
(* (ExecEngine::ensure_child, search).                                     *)
OwnAnswer == \A s \in Searches : answer[s] \in {NoAnswer, Failed, asked[s]}

=============================================================================

---------------------------- MODULE AnswerServer ----------------------------
(***************************************************************************)
(* POST /api/answer around the loop: the admission guards of limits.rs,    *)
(* the handler (crates/cauce-server/src/handlers/answer.rs) with its daily *)
(* budget, and the conversation threads it keeps (handlers/threads.rs).    *)
(* A client asks a follow-up from the transcript it can read, or afresh.   *)
(***************************************************************************)
EXTENDS AnswerLoop

CONSTANTS
  Asks,           \* requests clients may send
  Threads, NoThread,
  Owners,         \* what thread_owner derives from a caller
  Clients,        \* client IPs that client_key attributes requests to
  DailyAnswers,   \* [ai].free_daily_answers, not 0
  MaxInflight,    \* server.max_inflight, not 0
  MaxHistory,     \* MAX_HISTORY_TURNS / 2: exchanges a request may replay
  LastDay         \* bound: UTC days 1..LastDay

\* exempt: loopback or Role::Admin; ownKey: the request brings its api_key;
\* allowed: the gates of [ai] permit what its override asks for.
Ask == [q : Questions, assist : BOOLEAN, thread : Threads \cup {NoThread},
        owner : Owners, ip : Clients, exempt : BOOLEAN, ownKey : BOOLEAN,
        allowed : BOOLEAN]

ASSUME AsksAssumption == Asks \subseteq Ask /\ Asks # {}
ASSUME DaysAssumption == LastDay \in Nat \ {0} /\ DailyAnswers \in Nat \ {0}

VARIABLES
  ask,        \* the request each run belongs to
  post,       \* where its handler is, and the day it read for the budget
  history,    \* the exchanges it replays: the runs that answered them
  threads,    \* the answer_thread table
  today,      \* the latest day the clock showed
  budget,     \* DailyCount.inner: the day of the tallies, and the tallies
  spent       \* answers each client got on each day (for properties)

serverVars == <<ask, post, history, threads, today, budget, spent>>
vars == <<loopVars, serverVars>>

NoRow == [owner |-> NoThread, turns |-> <<>>]
Days == 1..LastDay

TypeOK ==
  /\ LoopTypeOK
  /\ ask \in [Runs -> Asks]
  /\ \A r \in Runs :
       /\ post[r].at \in {"idle", "handler", "charge", "streaming", "refused", "closed"}
       /\ post[r].day \in Days
       /\ history[r] \in Seq(Runs)
  /\ \A t \in Threads : threads[t].owner \in Owners \cup {NoThread}
  /\ today \in Days /\ budget.day \in 0..LastDay
  /\ budget.used \in [Clients -> 0..DailyAnswers]

-----------------------------------------------------------------------------
(* The guards.                                                             *)

At(r, to) == post' = [post EXCEPT ![r].at = to]
Inflight == {r \in Runs : post[r].at \in {"handler", "charge"} /\ ~ask[r].exempt}
Handling == UNCHANGED <<threads, today>>

\* The transcript a client can replay: get_thread reads by id and owner.
Transcript(a) ==
  IF a.thread # NoThread /\ threads[a.thread].owner = a.owner
  THEN threads[a.thread].turns ELSE <<>>

\* rate_limit_gate (a token bucket that may be empty) and inflight_gate
\* (try_acquire): who is over either gets a 429, the exempt pass.
Arrive(r) ==
  /\ post[r].at = "idle"
  /\ \E a \in Asks : \E past \in {<<>>, Transcript(a)} :
       /\ ask' = [ask EXCEPT ![r] = a]
       /\ history' = [history EXCEPT ![r] = past]
       /\ \/ (a.exempt \/ Cardinality(Inflight) < MaxInflight) /\ At(r, "handler")
          \/ ~a.exempt /\ At(r, "refused")
  /\ Handling /\ UNCHANGED <<loopVars, budget, spent>>

-----------------------------------------------------------------------------
(* The handler.                                                            *)

\* A body the handler accepts: check_history, one of history and
\* context_results, an override within its gates.
Acceptable(r) ==
  /\ Len(history[r]) <= MaxHistory
  /\ ~(history[r] # <<>> /\ ask[r].assist)
  /\ ask[r].allowed

Charged(r) == ~ask[r].exempt /\ ~ask[r].ownKey

\* The loop is spawned and the response head returned; only now is the
\* in-flight permit dropped, while the body streams on.
Respond(r) ==
  /\ Begin(r, [q |-> ask[r].q, assist |-> ask[r].assist, multi |-> history[r] # <<>>])
  /\ At(r, "streaming")

Reject(r) ==
  /\ post[r].at = "handler" /\ ~Acceptable(r)
  /\ At(r, "refused")
  /\ Handling /\ UNCHANGED <<loopVars, ask, history, budget, spent>>

AcceptUncharged(r) ==
  /\ post[r].at = "handler" /\ Acceptable(r) /\ ~Charged(r)
  /\ Respond(r)
  /\ Handling /\ UNCHANGED <<ask, history, budget, spent>>

\* charge, before the lock: the clock is read, and days may have passed since
\* it was last read.
ReadDay(r) ==
  /\ post[r].at = "handler" /\ Acceptable(r) /\ Charged(r)
  /\ \E day \in today..LastDay :
       today' = day /\ post' = [post EXCEPT ![r] = [at |-> "charge", day |-> day]]
  /\ UNCHANGED <<loopVars, ask, history, threads, budget, spent>>

\* Mutated RolledOver: a new day keeps the tallies.
RolledOverKept(day) == [budget EXCEPT !.day = day]

\* The tallies belong to one day; another day begins them anew.
RolledOver(day) ==
  IF budget.day = day THEN budget ELSE [day |-> day, used |-> [c \in Clients |-> 0]]

\* charge, under the lock: spend one unit, or refuse and spend nothing.
Charge(r) ==
  /\ post[r].at = "charge"
  /\ LET day == post[r].day  c == ask[r].ip  b == RolledOver(day) IN
     \/ /\ b.used[c] < DailyAnswers
        /\ budget' = [b EXCEPT !.used[c] = @ + 1]
        /\ spent' = [spent EXCEPT ![day][c] = @ + 1]
        /\ Respond(r)
     \/ /\ b.used[c] >= DailyAnswers
        /\ budget' = b /\ At(r, "refused")
        /\ UNCHANGED <<loopVars, spent>>
  /\ Handling /\ UNCHANGED <<ask, history>>

-----------------------------------------------------------------------------
(* The stream and the threads.                                             *)

Ended(r) == frames[r] # <<>> /\ Last(frames[r]) \in Terminal

\* Mutated Upsert: the new exchange alone is stored.
UpsertAlone(r) == [owner |-> ask[r].owner, turns |-> <<r>>]

\* The row of a completed turn replaces whatever the id held.
Upsert(r) == [owner |-> ask[r].owner, turns |-> Append(history[r], r)]

\* The stream's last frame: done stores the thread before it is passed on,
\* error stores nothing, and a client that left is passed nothing.
Deliver(r) ==
  /\ post[r].at = "streaming" /\ listening[r] /\ Ended(r)
  /\ At(r, "closed")
  /\ \/ /\ Last(frames[r]) = "done" /\ ask[r].thread # NoThread
        /\ threads' = [threads EXCEPT ![ask[r].thread] = Upsert(r)]
     \/ UNCHANGED threads                 \* no thread, an error, or a store fault
  /\ UNCHANGED <<loopVars, ask, history, today, budget, spent>>

\* delete_thread: only the owner's row.
ThreadsDelete(t, o) ==
  /\ threads[t].owner = o
  /\ threads' = [threads EXCEPT ![t] = NoRow]
  /\ UNCHANGED <<loopVars, ask, post, history, today, budget, spent>>

Init ==
  /\ LoopInit
  /\ ask = [r \in Runs |-> CHOOSE a \in Asks : TRUE]
  /\ post = [r \in Runs |-> [at |-> "idle", day |-> 1]]
  /\ history = [r \in Runs |-> <<>>]
  /\ threads = [t \in Threads |-> NoRow]
  /\ today = 1
  /\ budget = [day |-> 0, used |-> [c \in Clients |-> 0]]
  /\ spent = [d \in Days |-> [c \in Clients |-> 0]]

Handler(r) == Reject(r) \/ AcceptUncharged(r) \/ ReadDay(r) \/ Charge(r) \/ Deliver(r)

Next ==
  \/ \E r \in Runs : Arrive(r) \/ Handler(r)
  \/ (\E r \in Runs : LoopStep(r) \/ Leave(r)) /\ UNCHANGED serverVars
  \/ (\E k \in Keys : Expire(k)) /\ UNCHANGED serverVars
  \/ \E t \in Threads, o \in Owners : ThreadsDelete(t, o)

Spec == Init /\ [][Next]_vars

-----------------------------------------------------------------------------
(* What the surface promises.                                              *)

\* A stored thread is one conversation: every exchange in it was asked with
\* exactly the exchanges before it as its history, whatever requests on the
\* same thread run side by side.
ThreadIsOneConversation ==
  \A t \in Threads : LET turns == threads[t].turns IN
    \A i \in 1..Len(turns) : history[turns[i]] = SubSeq(turns, 1, i - 1)

\* limits.rs:122-124: only a client that did get its day's answers is turned
\* away by the budget.
NobodyRefusedEarly ==
  [][\A r \in Runs : post[r].at = "charge" /\ post'[r].at = "refused"
       => spent[post[r].day][ask[r].ip] >= DailyAnswers]_vars

\* limits.rs:80-85: no client gets more than its budget on one day.
DailyBudget == \A d \in Days, c \in Clients : spent[d][c] <= DailyAnswers
=============================================================================

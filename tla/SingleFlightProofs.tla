-------------------------- MODULE SingleFlightProofs --------------------------
(***************************************************************************)
(* The single-flight contract, for any requests and any number of flights  *)
(* that die: OneFetch, that no flight blocks the refresh its own stale     *)
(* serve owes, and that SingleFlight implements Coalesce.                  *)
(*                                                                         *)
(* The invariant says what the slot means and why flight ids are fresh:    *)
(* a search that still seeks has not used its next flight nor its refresh, *)
(* and has joined the flight it leads.                                     *)
(***************************************************************************)
EXTENDS SingleFlight, TLAPS

Open == Leading \cup {"complete", "sent"}
Begun == Open \cup {"spawning", "done", "dying", "dead"}
Before == {"idle", "missed", "serving"}

\* The slot names the one task whose outcome is yet to be sent or removed.
SlotNamesLeader == \A t \in Tasks : slot = t <=> task[t] \in Open

\* A request awaits a channel exactly while it has joined a flight.
JoinedAwait ==
  \A r \in Requests :
    /\ on[r] # NoTask <=> pc[r] = "joined"
    /\ on[r] # NoTask => task[on[r]] \in Begun

\* Only flights owe a refresh; only refreshes wait before they lead.
RefreshesAlone ==
  /\ \A f \in Flights : task[f] \notin {"waiting", "entering", "dropped"}
  /\ \A t \in Tasks \ Flights : task[t] # "spawning"

\* The flight r leads, or would lead next.
Own(r) == IF tries[r] = 1 THEN <<r, 2>> ELSE <<r, 1>>

\* The flights r has not led yet are unused.
UnusedFlights(r) ==
  /\ pc[r] \in Before => tries[r] = 0 /\ task[<<r, 1>>] = "none"
  /\ pc[r] = "seeking" => task[Own(r)] = "none"
  /\ tries[r] = 0 => task[<<r, 2>>] = "none"
  /\ tries[r] = 1 => task[<<r, 1>>] \in {"none", "dead"}

\* r awaits the flight it leads; its refresh comes after its flights.
UnusedRefresh(r) ==
  /\ pc[r] = "joined" /\ task[Own(r)] # "none" => on[r] = Own(r)
  /\ pc[r] \in Before \cup {"seeking"} => task[Refresh(r)] = "none"
  /\ task[Refresh(r)] # "none" =>
       /\ task[<<r, 1>>] \in {"none", "dead", "done"}
       /\ task[<<r, 2>>] \in {"none", "dead", "done"}
       /\ pc[r] = "joined" => task[Own(r)] = "done"

FreshIds == \A r \in Requests : UnusedFlights(r) /\ UnusedRefresh(r)

IInv ==
  TypeOK /\ SlotNamesLeader /\ JoinedAwait /\ RefreshesAlone /\ FreshIds

-----------------------------------------------------------------------------
(* The ids of tasks.                                                       *)

\* Every task is one of its request's two flights or its refresh.
LEMMA TaskIds ==
  /\ \A r \in Requests : /\ <<r, 1>> \in Flights /\ <<r, 2>> \in Flights
                         /\ Refresh(r) \in Tasks /\ Refresh(r) \notin Flights
  /\ Flights \subseteq Tasks /\ NoTask \notin Tasks
  /\ \A f \in Flights : f[1] \in Requests /\ (f = <<f[1], 1>> \/ f = <<f[1], 2>>)
  /\ \A t \in Tasks : t \in Flights \/ (t[1] \in Requests /\ t = Refresh(t[1]))
<1>1. NoTask \notin Tasks /\ Flights \subseteq Tasks
  BY SingleFlightAssumption DEF Tasks
<1>2. \A r \in Requests : <<r, 1>> \in Flights /\ <<r, 2>> \in Flights
  BY DEF Flights
<1>3. \A r \in Requests : Refresh(r) \in Tasks /\ Refresh(r) \notin Flights
  BY DEF Tasks, Flights, Refresh
<1>4. \A f \in Flights : f[1] \in Requests /\ (f = <<f[1], 1>> \/ f = <<f[1], 2>>)
  BY DEF Flights
<1>5. \A t \in Tasks : t \in Flights \/ (t[1] \in Requests /\ t = Refresh(t[1]))
  <2> TAKE t \in Tasks
  <2>1. CASE t \in Flights
    BY <2>1
  <2>2. CASE t \in {Refresh(r) : r \in Requests}
    <3>1. PICK r \in Requests : t = <<r, 3>>
      BY <2>2 DEF Refresh
    <3> QED
      BY <3>1 DEF Refresh
  <2> QED
    BY <2>1, <2>2 DEF Tasks
<1> QED
  BY <1>1, <1>2, <1>3, <1>4, <1>5

\* A step of one task that starts nothing and ends nothing anew keeps the ids.
LEMMA TaskStepKeepsIds ==
  ASSUME FreshIds, UNCHANGED request,
         \A t \in Tasks : /\ task'[t] = "none" <=> task[t] = "none"
                          /\ task[t] \in {"dead", "done"} => task'[t] = task[t]
  PROVE  FreshIds'
<1> SUFFICES ASSUME NEW r \in Requests
             PROVE  UnusedFlights(r)' /\ UnusedRefresh(r)'
  BY DEF FreshIds
<1>1. <<r, 1>> \in Tasks /\ <<r, 2>> \in Tasks /\ <<r, 3>> \in Tasks
  BY TaskIds DEF Refresh
<1>2. UnusedFlights(r) /\ UnusedRefresh(r)
  BY DEF FreshIds
<1>3. UnusedFlights(r)'
  BY <1>1, <1>2 DEF UnusedFlights, Own, request
<1>4. UnusedRefresh(r)'
  BY <1>1, <1>2 DEF UnusedFlights, UnusedRefresh, Own, request, Refresh
<1> QED
  BY <1>3, <1>4

\* A step of one request concerns the ids of that request alone.
LEMMA RequestStepKeepsIds ==
  ASSUME FreshIds, NEW r \in Requests,
         \A q \in Requests \ {r} :
           /\ pc'[q] = pc[q] /\ on'[q] = on[q] /\ tries'[q] = tries[q]
           /\ \A n \in 1..3 : task'[<<q, n>>] = task[<<q, n>>],
         UnusedFlights(r)', UnusedRefresh(r)'
  PROVE  FreshIds'
<1> SUFFICES ASSUME NEW q \in Requests \ {r}
             PROVE  UnusedFlights(q)' /\ UnusedRefresh(q)'
  BY DEF FreshIds
<1>1. UnusedFlights(q) /\ UnusedRefresh(q)
  BY DEF FreshIds
<1>2. /\ task'[<<q, 1>>] = task[<<q, 1>>] /\ task'[<<q, 2>>] = task[<<q, 2>>]
      /\ task'[<<q, 3>>] = task[<<q, 3>>]
  OBVIOUS
<1>3. UnusedFlights(q)'
  BY <1>1, <1>2 DEF UnusedFlights, Own
<1>4. UnusedRefresh(q)'
  BY <1>1, <1>2 DEF UnusedRefresh, Own, Refresh
<1> QED
  BY <1>3, <1>4

\* Nothing has happened yet.
LEMMA InitIInv == Init => IInv
<1> SUFFICES ASSUME Init PROVE IInv
  OBVIOUS
<1>1. TypeOK
  <2>1. 0 \in 0..1 /\ 0 \in 0..MaxDeaths
    BY SingleFlightAssumption
  <2> QED
    BY <2>1 DEF Init, TypeOK
<1>2. SlotNamesLeader /\ JoinedAwait /\ RefreshesAlone
  BY TaskIds DEF Init, SlotNamesLeader, JoinedAwait, RefreshesAlone, Open, Leading
<1>3. FreshIds
  <2> SUFFICES ASSUME NEW r \in Requests
               PROVE  UnusedFlights(r) /\ UnusedRefresh(r)
    BY DEF FreshIds
  <2>1. task[<<r, 1>>] = "none" /\ task[<<r, 2>>] = "none" /\ task[<<r, 3>>] = "none"
    BY TaskIds DEF Init, Refresh
  <2> QED
    BY <2>1 DEF Init, UnusedFlights, UnusedRefresh, Own, Before, Refresh
<1> QED
  BY <1>1, <1>2, <1>3 DEF IInv

-----------------------------------------------------------------------------
(* Every step of a request keeps the invariant.                            *)

LEMMA LookupStep ==
  ASSUME IInv, NEW r \in Requests, Lookup(r)
  PROVE  IInv'
<1>1. TypeOK'
         BY DEF IInv, TypeOK, Leading, Values, Lookup, Go
<1>2. SlotNamesLeader'
         BY DEF IInv, TypeOK, SlotNamesLeader, Open, Leading,
         Lookup, Go
<1>3. JoinedAwait'
         BY DEF IInv, TypeOK, JoinedAwait, Begun, Open, Leading,
         Lookup, Go
<1>4. RefreshesAlone'
         BY DEF IInv, TypeOK, RefreshesAlone, Leading, Lookup, Go
<1>5. FreshIds'
  <2>1. UnusedFlights(r) /\ UnusedRefresh(r) /\ tries[r] \in 0..1
    BY DEF IInv, FreshIds, TypeOK
  <2>2. UnusedFlights(r)'
    BY <2>1 DEF IInv, TypeOK, UnusedFlights, UnusedRefresh, Own, Before, Lookup, Go
  <2>3. UnusedRefresh(r)'
    BY <2>1 DEF IInv, TypeOK, UnusedFlights, UnusedRefresh, Own, Before, Refresh,
                Lookup, Go
  <2> QED
    BY <2>1, <2>2, <2>3, RequestStepKeepsIds DEF IInv, TypeOK, Lookup, Go
<1> QED
  BY <1>1, <1>2, <1>3, <1>4, <1>5 DEF IInv

LEMMA StaleLookupStep ==
  ASSUME IInv, NEW r \in Requests, StaleLookup(r)
  PROVE  IInv'
<1>1. TypeOK'
         BY DEF IInv, TypeOK, Leading, Values, StaleLookup, Go
<1>2. SlotNamesLeader'
         BY DEF IInv, TypeOK, SlotNamesLeader, Open, Leading,
         StaleLookup, Go
<1>3. JoinedAwait'
         BY DEF IInv, TypeOK, JoinedAwait, Begun, Open, Leading,
         StaleLookup, Go
<1>4. RefreshesAlone'
         BY DEF IInv, TypeOK, RefreshesAlone, Leading, StaleLookup,
         Go
<1>5. FreshIds'
  <2>1. UnusedFlights(r) /\ UnusedRefresh(r) /\ tries[r] \in 0..1
    BY DEF IInv, FreshIds, TypeOK
  <2>2. UnusedFlights(r)'
    BY <2>1 DEF IInv, TypeOK, UnusedFlights, UnusedRefresh, Own, Before, StaleLookup, Go
  <2>3. UnusedRefresh(r)'
    BY <2>1 DEF IInv, TypeOK, UnusedFlights, UnusedRefresh, Own, Before, Refresh,
                StaleLookup, Go
  <2> QED
    BY <2>1, <2>2, <2>3, RequestStepKeepsIds DEF IInv, TypeOK, StaleLookup, Go
<1> QED
  BY <1>1, <1>2, <1>3, <1>4, <1>5 DEF IInv

\* The refresh a stale serve owes has not run before.
LEMMA ServeStaleStep ==
  ASSUME IInv, NEW r \in Requests, ServeStale(r)
  PROVE  IInv'
<1>1. TypeOK'
         BY DEF IInv, TypeOK, Leading, Values, ServeStale, Go,
         TaskGo
<1>2. SlotNamesLeader'
  <2>1. task[Refresh(r)] = "none" /\ Refresh(r) \in Tasks
    BY TaskIds DEF IInv, FreshIds, UnusedRefresh, Before, ServeStale
  <2> QED
    BY <2>1 DEF IInv, TypeOK, SlotNamesLeader, Open, Leading, ServeStale, TaskGo
<1>3. JoinedAwait'
  <2>1. task[Refresh(r)] = "none"
    BY DEF IInv, FreshIds, UnusedRefresh, Before, ServeStale
  <2> QED
    BY <2>1 DEF IInv, TypeOK, JoinedAwait, Begun, Open, Leading, ServeStale, Go,
                TaskGo
<1>4. RefreshesAlone'
                 BY TaskIds DEF IInv, TypeOK, RefreshesAlone, Leading, ServeStale,
                 Go, TaskGo
<1>5. FreshIds'
  <2> SUFFICES ASSUME NEW q \in Requests PROVE UnusedFlights(q)' /\ UnusedRefresh(q)'
    BY DEF FreshIds
  <2>1. UnusedFlights(q)'
    BY TaskIds DEF IInv, TypeOK, FreshIds, UnusedFlights, Own, Before, Leading, Refresh,
                   ServeStale, TaskGo, Go
  <2>2. UnusedRefresh(q)'
    <3>1. /\ \A t \in Tasks : t # Refresh(r) => task'[t] = task[t]
          /\ \A p \in Requests : p # r => pc'[p] = pc[p]
          /\ pc[r] = "serving" /\ pc'[r] = "served" /\ UNCHANGED <<on, tries>>
      BY DEF IInv, TypeOK, ServeStale, TaskGo, Go
    <3>2. CASE q = r
      <4>1. tries[r] = 0 /\ task[<<r, 1>>] = "none" /\ task[<<r, 2>>] = "none"
        BY <3>1 DEF IInv, FreshIds, UnusedFlights, Before
      <4>2. task'[<<r, 1>>] = "none" /\ task'[<<r, 2>>] = "none"
        BY <3>1, <4>1, TaskIds
      <4> QED
        BY <3>1, <3>2, <4>2 DEF UnusedRefresh, Before
    <3>3. CASE q # r
      <4>1. /\ task'[<<q, 1>>] = task[<<q, 1>>] /\ task'[<<q, 2>>] = task[<<q, 2>>]
            /\ task'[Refresh(q)] = task[Refresh(q)]
        BY <3>1, <3>3, TaskIds DEF Refresh
      <4> QED
        BY <3>1, <3>3, <4>1 DEF IInv, FreshIds, UnusedRefresh, Own
    <3> QED
      BY <3>2, <3>3
  <2> QED
    BY <2>1, <2>2
<1> QED
  BY <1>1, <1>2, <1>3, <1>4, <1>5 DEF IInv

\* The flight r elects has not been used, and r awaits it.
LEMMA LeadStep ==
  ASSUME IInv, NEW r \in Requests, Lead(r)
  PROVE  IInv'
<1>1. TypeOK'
  <2>1. slot' = Own(r) /\ Own(r) \in Flights /\ Own(r) \in Tasks
    BY TaskIds DEF IInv, TypeOK, Lead, Own
  <2> QED
    BY <2>1 DEF IInv, TypeOK, Leading, Lead, Go, TaskGo
<1>2. SlotNamesLeader'
  <2>1. slot' = Own(r) /\ Own(r) \in Flights /\ Own(r) \in Tasks
    BY TaskIds DEF IInv, TypeOK, Lead, Own
  <2> QED
    BY <2>1, TaskIds DEF IInv, TypeOK, SlotNamesLeader, Open, Leading, Lead, TaskGo
<1>3. JoinedAwait'
  <2>1. slot' = Own(r) /\ Own(r) \in Flights /\ Own(r) \in Tasks
    BY TaskIds DEF IInv, TypeOK, Lead, Own
  <2>2. on' = [on EXCEPT ![r] = Own(r)] /\ task' = [task EXCEPT ![Own(r)] = "lexical"]
    BY <2>1 DEF Lead, TaskGo
  <2> QED
    BY <2>1, <2>2, TaskIds DEF IInv, TypeOK, JoinedAwait, Begun, Open, Leading,
                               Lead, Go
<1>4. RefreshesAlone'
  <2>1. slot' = Own(r) /\ Own(r) \in Flights /\ Own(r) \in Tasks
    BY TaskIds DEF IInv, TypeOK, Lead, Own
  <2>2. task' = [task EXCEPT ![Own(r)] = "lexical"]
    BY <2>1 DEF Lead, TaskGo
  <2> QED
    BY <2>1, <2>2, TaskIds DEF IInv, TypeOK, RefreshesAlone
<1>5. FreshIds'
  <2>1. slot' = Own(r) /\ Own(r) \in Flights /\ Own(r) \in Tasks
    BY TaskIds DEF IInv, TypeOK, Lead, Own
  <2>2. on' = [on EXCEPT ![r] = Own(r)] /\ task' = [task EXCEPT ![Own(r)] = "lexical"]
    BY <2>1 DEF Lead, TaskGo
  <2>3. UnusedFlights(r) /\ UnusedRefresh(r) /\ tries[r] \in 0..1
    BY DEF IInv, FreshIds, TypeOK
  <2>4. UnusedFlights(r)' /\ UnusedRefresh(r)'
    BY <2>1, <2>2, <2>3, TaskIds
       DEF IInv, TypeOK, UnusedFlights, UnusedRefresh, Own, Before, Refresh, Lead, Go
  <2>5. \A q \in Requests \ {r}, n \in 1..3 : <<q, n>> # Own(r)
    BY DEF Own
  <2> QED
    BY <2>2, <2>4, <2>5, RequestStepKeepsIds DEF IInv, TypeOK, Lead, Go
<1> QED
  BY <1>1, <1>2, <1>3, <1>4, <1>5 DEF IInv

\* Who follows awaits a task that has begun.
LEMMA FollowStep ==
  ASSUME IInv, NEW r \in Requests, Follow(r)
  PROVE  IInv'
<1>1. TypeOK'
         BY DEF IInv, TypeOK, Leading, Values, Follow, Go
<1>2. SlotNamesLeader'
         BY DEF IInv, TypeOK, SlotNamesLeader, Open, Leading,
         Follow, Go
<1>3. JoinedAwait'
  <2>1. slot \in Tasks /\ slot # NoTask /\ task[slot] \in Open
    BY DEF IInv, TypeOK, SlotNamesLeader, Follow
  <2> QED
    BY <2>1 DEF IInv, TypeOK, JoinedAwait, Begun, Follow, Go
<1>4. RefreshesAlone'
         BY DEF IInv, TypeOK, RefreshesAlone, Leading, Follow, Go
<1>5. FreshIds'
  <2>1. UnusedFlights(r) /\ UnusedRefresh(r) /\ tries[r] \in 0..1
    BY DEF IInv, FreshIds, TypeOK
  <2>2. UnusedFlights(r)'
    BY <2>1 DEF IInv, TypeOK, UnusedFlights, UnusedRefresh, Own, Before, Follow, Go
  <2>3. UnusedRefresh(r)'
    BY <2>1 DEF IInv, TypeOK, UnusedFlights, UnusedRefresh, Own, Before, Refresh,
                Follow, Go
  <2> QED
    BY <2>1, <2>2, <2>3, RequestStepKeepsIds DEF IInv, TypeOK, Follow, Go
<1> QED
  BY <1>1, <1>2, <1>3, <1>4, <1>5 DEF IInv

LEMMA AnswerStep ==
  ASSUME IInv, NEW r \in Requests, Answer(r)
  PROVE  IInv'
<1>1. TypeOK'
         BY DEF IInv, TypeOK, Leading, Values, Answer, Quits, Go
<1>2. SlotNamesLeader'
         BY DEF IInv, TypeOK, SlotNamesLeader, Open, Leading,
         Answer, Quits, Go
<1>3. JoinedAwait'
         BY DEF IInv, TypeOK, JoinedAwait, Begun, Open, Leading,
         Answer, Quits, Go
<1>4. RefreshesAlone'
         BY DEF IInv, TypeOK, RefreshesAlone, Leading, Answer,
         Quits, Go
<1>5. FreshIds'
  <2>1. UnusedFlights(r) /\ UnusedRefresh(r) /\ tries[r] \in 0..1
    BY DEF IInv, FreshIds, TypeOK
  <2>2. UnusedFlights(r)'
    BY <2>1 DEF IInv, TypeOK, UnusedFlights, UnusedRefresh, Own, Before, Answer, Quits, Go
  <2>3. UnusedRefresh(r)'
    BY <2>1 DEF IInv, TypeOK, UnusedFlights, UnusedRefresh, Own, Before, Refresh,
                Answer, Quits, Go
  <2> QED
    BY <2>1, <2>2, <2>3, RequestStepKeepsIds DEF IInv, TypeOK, Answer, Quits, Go
<1> QED
  BY <1>1, <1>2, <1>3, <1>4, <1>5 DEF IInv

\* Only a flight that r has seen vanish, its own or another's, is behind it.
LEMMA ReElectStep ==
  ASSUME IInv, NEW r \in Requests, ReElect(r)
  PROVE  IInv'
<1>1. TypeOK'
         BY DEF IInv, TypeOK, Leading, Values, ReElect, Quits, Go,
         Vanished
<1>2. SlotNamesLeader'
         BY DEF IInv, TypeOK, SlotNamesLeader, Open, Leading,
         ReElect, Quits, Go, Vanished
<1>3. JoinedAwait'
         BY DEF IInv, TypeOK, JoinedAwait, Begun, Open, Leading,
         ReElect, Quits, Go, Vanished
<1>4. RefreshesAlone'
         BY DEF IInv, TypeOK, RefreshesAlone, Leading, ReElect,
         Quits, Go, Vanished
<1>5. FreshIds'
  <2>1. UnusedFlights(r) /\ UnusedRefresh(r) /\ tries[r] \in 0..1
    BY DEF IInv, FreshIds, TypeOK
  <2>2. task[on[r]] = "dead"
    BY DEF ReElect, Vanished
  <2>3. UnusedFlights(r)'
    BY <2>1, <2>2 DEF IInv, TypeOK, UnusedFlights, UnusedRefresh, Own, Before,
                      ReElect, Quits, Go
  <2>4. UnusedRefresh(r)'
    BY <2>1, <2>2 DEF IInv, TypeOK, UnusedFlights, UnusedRefresh, Own, Before,
                      Refresh, ReElect, Quits, Go
  <2> QED
    BY <2>3, <2>4, RequestStepKeepsIds DEF IInv, TypeOK, ReElect, Quits, Go
<1> QED
  BY <1>1, <1>2, <1>3, <1>4, <1>5 DEF IInv

LEMMA DisconnectStep ==
  ASSUME IInv, NEW r \in Requests, Disconnect(r)
  PROVE  IInv'
<1>1. TypeOK'
         BY DEF IInv, TypeOK, Leading, Values, Disconnect, Quits, Go
<1>2. SlotNamesLeader'
         BY DEF IInv, TypeOK, SlotNamesLeader, Open, Leading,
         Disconnect, Quits, Go
<1>3. JoinedAwait'
         BY DEF IInv, TypeOK, JoinedAwait, Begun, Open, Leading,
         Disconnect, Quits, Go
<1>4. RefreshesAlone'
         BY DEF IInv, TypeOK, RefreshesAlone, Leading, Disconnect,
         Quits, Go
<1>5. FreshIds'
  <2>1. UnusedFlights(r) /\ UnusedRefresh(r) /\ tries[r] \in 0..1
    BY DEF IInv, FreshIds, TypeOK
  <2>2. UnusedFlights(r)'
    BY <2>1 DEF IInv, TypeOK, UnusedFlights, UnusedRefresh, Own, Before, Disconnect, Quits, Go
  <2>3. UnusedRefresh(r)'
    BY <2>1 DEF IInv, TypeOK, UnusedFlights, UnusedRefresh, Own, Before, Refresh,
                Disconnect, Quits, Go
  <2> QED
    BY <2>1, <2>2, <2>3, RequestStepKeepsIds DEF IInv, TypeOK, Disconnect, Quits, Go
<1> QED
  BY <1>1, <1>2, <1>3, <1>4, <1>5 DEF IInv

-----------------------------------------------------------------------------
(* So does every step of a task, and the environment.                      *)

LEMMA LexicalStep ==
  ASSUME IInv, NEW t \in Tasks, Lexical(t)
  PROVE  IInv'
<1>1. TypeOK'
         BY DEF IInv, TypeOK, Leading, Values, Lexical, Conclude,
         TaskGo, request
<1>2. SlotNamesLeader'
         BY DEF IInv, TypeOK, SlotNamesLeader, Open, Leading,
         Lexical, Conclude, TaskGo, request
<1>3. JoinedAwait'
         BY DEF IInv, TypeOK, JoinedAwait, Begun, Open, Leading,
         Lexical, Conclude, TaskGo, request
<1>4. RefreshesAlone'
                 BY TaskIds DEF IInv, TypeOK, RefreshesAlone, Leading, Lexical,
                 Conclude, TaskGo, request
<1>5. FreshIds'
  BY TaskStepKeepsIds DEF IInv, TypeOK, Leading, request, Lexical, Conclude, TaskGo
<1> QED
  BY <1>1, <1>2, <1>3, <1>4, <1>5 DEF IInv

LEMMA PermitsStep ==
  ASSUME IInv, NEW t \in Tasks, Permits(t)
  PROVE  IInv'
<1>1. TypeOK'
         BY DEF IInv, TypeOK, Leading, Values, Permits, TaskGo,
         request
<1>2. SlotNamesLeader'
         BY DEF IInv, TypeOK, SlotNamesLeader, Open, Leading,
         Permits, TaskGo, request
<1>3. JoinedAwait'
         BY DEF IInv, TypeOK, JoinedAwait, Begun, Open, Leading,
         Permits, TaskGo, request
<1>4. RefreshesAlone'
                 BY TaskIds DEF IInv, TypeOK, RefreshesAlone, Leading, Permits,
                 TaskGo, request
<1>5. FreshIds'
  BY TaskStepKeepsIds DEF IInv, TypeOK, Leading, request, Permits, TaskGo
<1> QED
  BY <1>1, <1>2, <1>3, <1>4, <1>5 DEF IInv

LEMMA WaitTimeoutStep ==
  ASSUME IInv, NEW t \in Tasks, WaitTimeout(t)
  PROVE  IInv'
<1>1. TypeOK'
         BY DEF IInv, TypeOK, Leading, Values, WaitTimeout, TaskGo,
         request
<1>2. SlotNamesLeader'
         BY DEF IInv, TypeOK, SlotNamesLeader, Open, Leading,
         WaitTimeout, TaskGo, request
<1>3. JoinedAwait'
         BY DEF IInv, TypeOK, JoinedAwait, Begun, Open, Leading,
         WaitTimeout, TaskGo, request
<1>4. RefreshesAlone'
                 BY TaskIds DEF IInv, TypeOK, RefreshesAlone, Leading, WaitTimeout,
                 TaskGo, request
<1>5. FreshIds'
  BY TaskStepKeepsIds DEF IInv, TypeOK, Leading, request, WaitTimeout, TaskGo
<1> QED
  BY <1>1, <1>2, <1>3, <1>4, <1>5 DEF IInv

LEMMA OverflowStep ==
  ASSUME IInv, NEW t \in Tasks, Overflow(t)
  PROVE  IInv'
<1>1. TypeOK'
         BY DEF IInv, TypeOK, Leading, Values, Overflow, Conclude,
         TaskGo, request
<1>2. SlotNamesLeader'
         BY DEF IInv, TypeOK, SlotNamesLeader, Open, Leading,
         Overflow, Conclude, TaskGo, request
<1>3. JoinedAwait'
         BY DEF IInv, TypeOK, JoinedAwait, Begun, Open, Leading,
         Overflow, Conclude, TaskGo, request
<1>4. RefreshesAlone'
                 BY TaskIds DEF IInv, TypeOK, RefreshesAlone, Leading, Overflow,
                 Conclude, TaskGo, request
<1>5. FreshIds'
  BY TaskStepKeepsIds DEF IInv, TypeOK, Leading, request, Overflow, Conclude, TaskGo
<1> QED
  BY <1>1, <1>2, <1>3, <1>4, <1>5 DEF IInv

LEMMA FetchStep ==
  ASSUME IInv, NEW t \in Tasks, Fetch(t)
  PROVE  IInv'
<1>1. TypeOK'
         BY DEF IInv, TypeOK, Leading, Values, Fetch,
         FetchRateLimited, Conclude, TaskGo, request
<1>2. SlotNamesLeader'
         BY DEF IInv, TypeOK, SlotNamesLeader, Open, Leading, Fetch,
         FetchRateLimited, Conclude, TaskGo, request
<1>3. JoinedAwait'
         BY DEF IInv, TypeOK, JoinedAwait, Begun, Open, Leading,
         Fetch, FetchRateLimited, Conclude, TaskGo, request
<1>4. RefreshesAlone'
                 BY TaskIds DEF IInv, TypeOK, RefreshesAlone, Leading, Fetch,
                 FetchRateLimited, Conclude, TaskGo, request
<1>5. FreshIds'
  BY TaskStepKeepsIds DEF IInv, TypeOK, Leading, request, Fetch, FetchRateLimited,
         Conclude, TaskGo
<1> QED
  BY <1>1, <1>2, <1>3, <1>4, <1>5 DEF IInv

LEMMA FetchRateLimitedStep ==
  ASSUME IInv, NEW t \in Tasks, FetchRateLimited(t)
  PROVE  IInv'
<1>1. TypeOK'
         BY DEF IInv, TypeOK, Leading, Values, FetchRateLimited,
         Conclude, TaskGo, request
<1>2. SlotNamesLeader'
         BY DEF IInv, TypeOK, SlotNamesLeader, Open, Leading,
         FetchRateLimited, Conclude, TaskGo, request
<1>3. JoinedAwait'
         BY DEF IInv, TypeOK, JoinedAwait, Begun, Open, Leading,
         FetchRateLimited, Conclude, TaskGo, request
<1>4. RefreshesAlone'
         BY DEF IInv, TypeOK, RefreshesAlone, Leading,
         FetchRateLimited, Conclude, TaskGo, request
<1>5. FreshIds'
  BY TaskStepKeepsIds DEF IInv, TypeOK, Leading, request, FetchRateLimited, Conclude,
         TaskGo
<1> QED
  BY <1>1, <1>2, <1>3, <1>4, <1>5 DEF IInv

LEMMA SendStep ==
  ASSUME IInv, NEW t \in Tasks, Send(t)
  PROVE  IInv'
<1>1. TypeOK'
         BY DEF IInv, TypeOK, Leading, Values, Send, TaskGo, request
<1>2. SlotNamesLeader'
         BY DEF IInv, TypeOK, SlotNamesLeader, Open, Leading, Send,
         TaskGo, request
<1>3. JoinedAwait'
         BY DEF IInv, TypeOK, JoinedAwait, Begun, Open, Leading,
         Send, TaskGo, request
<1>4. RefreshesAlone'
         BY DEF IInv, TypeOK, RefreshesAlone, Leading, Send, TaskGo,
         request
<1>5. FreshIds'
  BY TaskStepKeepsIds DEF IInv, TypeOK, Leading, request, Send, TaskGo
<1> QED
  BY <1>1, <1>2, <1>3, <1>4, <1>5 DEF IInv

\* The slot is freed by the task it names.
LEMMA RemoveEntryStep ==
  ASSUME IInv, NEW t \in Tasks, RemoveEntry(t)
  PROVE  IInv'
<1>1. TypeOK'
         BY DEF IInv, TypeOK, Leading, Values, RemoveEntry, TaskGo,
         OwesRefresh, request
<1>2. SlotNamesLeader'
                 BY TaskIds DEF IInv, TypeOK, SlotNamesLeader, Open, Leading,
                 RemoveEntry, TaskGo, OwesRefresh, request
<1>3. JoinedAwait'
         BY DEF IInv, TypeOK, JoinedAwait, Begun, Open, Leading,
         RemoveEntry, TaskGo, OwesRefresh, request
<1>4. RefreshesAlone'
         BY DEF IInv, TypeOK, RefreshesAlone, Leading, RemoveEntry,
         TaskGo, OwesRefresh, request
<1>5. FreshIds'
  BY TaskStepKeepsIds DEF IInv, TypeOK, Leading, request, RemoveEntry, TaskGo,
         OwesRefresh
<1> QED
  BY <1>1, <1>2, <1>3, <1>4, <1>5 DEF IInv

\* A flight spawns the refresh after it has freed its slot.
LEMMA SpawnRefreshStep ==
  ASSUME IInv, NEW t \in Tasks, SpawnRefresh(t)
  PROVE  IInv'
<1>1. TypeOK'
         BY DEF IInv, TypeOK, Leading, Values, SpawnRefresh, request
<1>2. SlotNamesLeader'
  <2>1. t \in Flights /\ task[t] = "spawning" /\ t[1] \in Requests
    BY TaskIds DEF IInv, RefreshesAlone, SpawnRefresh
  <2>2. Refresh(t[1]) \in Tasks \ Flights /\ task[Refresh(t[1])] = "none"
    BY <2>1, TaskIds DEF IInv, FreshIds, UnusedRefresh
  <2> QED
    BY <2>1, <2>2, TaskIds DEF IInv, TypeOK, SlotNamesLeader, Open, Leading, SpawnRefresh
<1>3. JoinedAwait'
  <2>1. t \in Flights /\ task[t] = "spawning" /\ t[1] \in Requests
    BY TaskIds DEF IInv, RefreshesAlone, SpawnRefresh
  <2>2. Refresh(t[1]) \in Tasks \ Flights /\ task[Refresh(t[1])] = "none"
    BY <2>1, TaskIds DEF IInv, FreshIds, UnusedRefresh
  <2> QED
    BY <2>1, <2>2, TaskIds DEF IInv, TypeOK, JoinedAwait, Begun, Open, Leading,
                               SpawnRefresh, request
<1>4. RefreshesAlone'
  <2>1. t \in Flights /\ task[t] = "spawning" /\ t[1] \in Requests
    BY TaskIds DEF IInv, RefreshesAlone, SpawnRefresh
  <2>2. Refresh(t[1]) \in Tasks \ Flights /\ task[Refresh(t[1])] = "none"
    BY <2>1, TaskIds DEF IInv, FreshIds, UnusedRefresh
  <2> QED
    BY <2>1, <2>2, TaskIds DEF IInv, TypeOK, RefreshesAlone, SpawnRefresh
<1>5. FreshIds'
  <2>1. t \in Flights /\ task[t] = "spawning" /\ t[1] \in Requests
    BY TaskIds DEF IInv, RefreshesAlone, SpawnRefresh
  <2>2. Refresh(t[1]) \in Tasks \ Flights /\ task[Refresh(t[1])] = "none"
    BY <2>1, TaskIds DEF IInv, FreshIds, UnusedRefresh
  <2> DEFINE r == t[1]
  <2>3. t = <<r, 1>> \/ t = <<r, 2>>
    BY <2>1, TaskIds
  <2>4. task' = [task EXCEPT ![t] = "done", ![<<r, 3>>] = "waiting"]
    BY DEF SpawnRefresh, Refresh
  <2>5. UnusedFlights(r) /\ UnusedRefresh(r) /\ tries[r] \in 0..1 /\ r \in Requests
    BY <2>1 DEF IInv, FreshIds, TypeOK
  <2>6. /\ <<r, 1>> \in Tasks /\ <<r, 2>> \in Tasks /\ <<r, 3>> \in Tasks
        /\ <<r, 1>> # <<r, 2>> /\ <<r, 1>> # <<r, 3>> /\ <<r, 2>> # <<r, 3>>
    BY <2>5, TaskIds DEF Refresh
  <2> HIDE DEF r
  <2>7. UnusedFlights(r)'
    BY <2>1, <2>3, <2>4, <2>5, <2>6
       DEF IInv, TypeOK, UnusedFlights, Own, Before, SpawnRefresh, request
  <2>8. task'[Own(r)] = "done"
    BY <2>1, <2>3, <2>4, <2>5, <2>6 DEF IInv, TypeOK, UnusedFlights, Own
  <2>9. UnusedRefresh(r)'
    BY <2>1, <2>2, <2>3, <2>4, <2>5, <2>6, <2>8
       DEF IInv, TypeOK, JoinedAwait, UnusedFlights, UnusedRefresh, Own, Before,
           Refresh, SpawnRefresh, request
  <2>10. \A q \in Requests \ {r}, n \in 1..3 : <<q, n>> # t /\ <<q, n>> # <<r, 3>>
    BY <2>3
  <2>11. \A q \in Requests \ {r}, n \in 1..3 : task'[<<q, n>>] = task[<<q, n>>]
    <3> SUFFICES ASSUME NEW q \in Requests \ {r}, NEW n \in 1..3
                 PROVE  task'[<<q, n>>] = task[<<q, n>>]
      OBVIOUS
    <3>1. /\ <<q, 1>> \in Tasks /\ <<q, 2>> \in Tasks /\ <<q, 3>> \in Tasks
          /\ n = 1 \/ n = 2 \/ n = 3
      BY TaskIds DEF Refresh
    <3> QED
      BY <2>4, <2>10, <3>1 DEF IInv, TypeOK
  <2> QED
    BY <2>5, <2>7, <2>9, <2>11, RequestStepKeepsIds DEF IInv, SpawnRefresh, request
<1> QED
  BY <1>1, <1>2, <1>3, <1>4, <1>5 DEF IInv

LEMMA RefreshLeadStep ==
  ASSUME IInv, NEW t \in Tasks, RefreshLead(t)
  PROVE  IInv'
<1>1. TypeOK'
         BY DEF IInv, TypeOK, Leading, Values, RefreshLead, TaskGo,
         request
<1>2. SlotNamesLeader'
                 BY TaskIds DEF IInv, TypeOK, SlotNamesLeader, Open, Leading,
                 RefreshLead, TaskGo, request
<1>3. JoinedAwait'
         BY DEF IInv, TypeOK, JoinedAwait, Begun, Open, Leading,
         RefreshLead, TaskGo, request
<1>4. RefreshesAlone'
         BY DEF IInv, TypeOK, RefreshesAlone, Leading, RefreshLead,
         TaskGo, request
<1>5. FreshIds'
  BY TaskStepKeepsIds DEF IInv, TypeOK, Leading, request, RefreshLead, TaskGo
<1> QED
  BY <1>1, <1>2, <1>3, <1>4, <1>5 DEF IInv

LEMMA RefreshSkipStep ==
  ASSUME IInv, NEW t \in Tasks, RefreshSkip(t)
  PROVE  IInv'
<1>1. TypeOK'
         BY DEF IInv, TypeOK, Leading, Values, RefreshSkip, TaskGo,
         request
<1>2. SlotNamesLeader'
         BY DEF IInv, TypeOK, SlotNamesLeader, Open, Leading,
         RefreshSkip, TaskGo, request
<1>3. JoinedAwait'
         BY DEF IInv, TypeOK, JoinedAwait, Begun, Open, Leading,
         RefreshSkip, TaskGo, request
<1>4. RefreshesAlone'
         BY DEF IInv, TypeOK, RefreshesAlone, Leading, RefreshSkip,
         TaskGo, request
<1>5. FreshIds'
  BY TaskStepKeepsIds DEF IInv, TypeOK, Leading, request, RefreshSkip, TaskGo
<1> QED
  BY <1>1, <1>2, <1>3, <1>4, <1>5 DEF IInv

\* A dying task has already freed its slot.
LEMMA DieStep ==
  ASSUME IInv, NEW t \in Tasks, Die(t)
  PROVE  IInv'
<1>1. TypeOK'
                                BY SingleFlightAssumption DEF IInv, TypeOK, Leading, Values, Die, TaskGo, request
<1>2. SlotNamesLeader'
                 BY TaskIds DEF IInv, TypeOK, SlotNamesLeader, Open, Leading, Die,
                 TaskGo, request
<1>3. JoinedAwait'
         BY DEF IInv, TypeOK, JoinedAwait, Begun, Open, Leading,
         Die, TaskGo, request
<1>4. RefreshesAlone'
         BY DEF IInv, TypeOK, RefreshesAlone, Leading, Die, TaskGo,
         request
<1>5. FreshIds'
  BY TaskStepKeepsIds DEF IInv, TypeOK, Leading, request, Die, TaskGo
<1> QED
  BY <1>1, <1>2, <1>3, <1>4, <1>5 DEF IInv

LEMMA CloseChannelStep ==
  ASSUME IInv, NEW t \in Tasks, CloseChannel(t)
  PROVE  IInv'
<1>1. TypeOK'
         BY DEF IInv, TypeOK, Leading, Values, CloseChannel, TaskGo,
         request
<1>2. SlotNamesLeader'
         BY DEF IInv, TypeOK, SlotNamesLeader, Open, Leading,
         CloseChannel, TaskGo, request
<1>3. JoinedAwait'
         BY DEF IInv, TypeOK, JoinedAwait, Begun, Open, Leading,
         CloseChannel, TaskGo, request
<1>4. RefreshesAlone'
         BY DEF IInv, TypeOK, RefreshesAlone, Leading, CloseChannel,
         TaskGo, request
<1>5. FreshIds'
  BY TaskStepKeepsIds DEF IInv, TypeOK, Leading, request, CloseChannel, TaskGo
<1> QED
  BY <1>1, <1>2, <1>3, <1>4, <1>5 DEF IInv

LEMMA AgeStep ==
  ASSUME IInv, Age
  PROVE  IInv'
<1>1. TypeOK'
         BY DEF IInv, TypeOK, Leading, Values, Age, request
<1>2. SlotNamesLeader'
         BY DEF IInv, TypeOK, SlotNamesLeader, Open, Leading, Age,
         request
<1>3. JoinedAwait'
         BY DEF IInv, TypeOK, JoinedAwait, Begun, Open, Leading,
         Age, request
<1>4. RefreshesAlone'
         BY DEF IInv, TypeOK, RefreshesAlone, Leading, Age, request
<1>5. FreshIds'
         BY DEF IInv, TypeOK, FreshIds, UnusedFlights,
         UnusedRefresh, Own, Before, Leading, Refresh, Age,
         request
<1> QED
  BY <1>1, <1>2, <1>3, <1>4, <1>5 DEF IInv

\* What a finished search leaves behind names nobody and nobody awaits it.
LEMMA RecycleStep ==
  ASSUME IInv, NEW r \in Requests, Recycle(r)
  PROVE  IInv'
<1>1. TypeOK'
         BY DEF IInv, TypeOK, Leading, Values, Recycle, Finished, Go
<1>2. SlotNamesLeader'
  <2>1. \A t \in Tasks : t[1] = r => task[t] \notin Open
    BY TaskIds DEF Recycle, Finished, Refresh, Open, Leading
  <2>2. \A t \in Tasks : task'[t] = IF t[1] = r THEN "none" ELSE task[t]
    BY DEF Recycle
  <2> QED
    BY <2>1, <2>2 DEF IInv, SlotNamesLeader, Open, Leading, Recycle
<1>3. JoinedAwait'
  <2>1. \A q \in Requests, t \in Tasks : on[q] = t => t[1] # r
    BY TaskIds DEF Recycle, Finished, Refresh
  <2>2. \A t \in Tasks : task'[t] = IF t[1] = r THEN "none" ELSE task[t]
    BY DEF Recycle
  <2> QED
    BY <2>1, <2>2 DEF IInv, TypeOK, JoinedAwait, Recycle, Finished, Go
<1>4. RefreshesAlone'
                 BY TaskIds DEF IInv, TypeOK, RefreshesAlone, Leading, Recycle,
                 Finished, Go
<1>5. FreshIds'
  <2> SUFFICES ASSUME NEW q \in Requests PROVE UnusedFlights(q)' /\ UnusedRefresh(q)'
    BY DEF FreshIds
  <2>1. UnusedFlights(q)'
    BY TaskIds DEF IInv, TypeOK, FreshIds, UnusedFlights, Own, Before, Leading, Refresh,
                   Recycle, Finished, Go
  <2>2. UnusedRefresh(q)'
    BY TaskIds DEF IInv, TypeOK, FreshIds, UnusedRefresh, Own, Before, Leading, Refresh,
                   Recycle, Finished, Go
  <2> QED
    BY <2>1, <2>2
<1> QED
  BY <1>1, <1>2, <1>3, <1>4, <1>5 DEF IInv

-----------------------------------------------------------------------------
(* Safety.                                                                 *)

\* Every step of the requests, the tasks and the environment keeps it.
LEMMA NextIInv == IInv /\ [Next]_vars => IInv'
<1> SUFFICES ASSUME IInv, [Next]_vars PROVE IInv'
  OBVIOUS
<1>1. ASSUME NEW r \in Requests, Lookup(r) \/ RequestStep(r) \/ Disconnect(r) \/ Recycle(r)
      PROVE  IInv'
  BY <1>1, LookupStep, StaleLookupStep, ServeStaleStep, LeadStep, FollowStep,
     AnswerStep, ReElectStep, DisconnectStep, RecycleStep DEF RequestStep
<1>2. ASSUME NEW t \in Tasks, TaskStep(t) \/ Die(t)
      PROVE  IInv'
  BY <1>2, LexicalStep, PermitsStep, WaitTimeoutStep, OverflowStep, FetchStep,
     FetchRateLimitedStep, SendStep, RemoveEntryStep, SpawnRefreshStep,
     RefreshLeadStep, RefreshSkipStep, DieStep, CloseChannelStep DEF TaskStep
<1>3. CASE Age
  BY <1>3, AgeStep
<1>4. CASE UNCHANGED vars
  <2>1. UNCHANGED <<row, slot, task, value, pc, on, tries, deaths>>
    BY <1>4 DEF vars, request
  <2>2. TypeOK' /\ SlotNamesLeader' /\ JoinedAwait' /\ RefreshesAlone'
    BY <2>1 DEF IInv, TypeOK, SlotNamesLeader, JoinedAwait, RefreshesAlone
  <2>3. FreshIds'
    BY <2>1, TaskStepKeepsIds DEF IInv, request
  <2> QED
    BY <2>2, <2>3 DEF IInv
<1> QED
  BY <1>1, <1>2, <1>3, <1>4 DEF Next

\* The slot, the channels and the ids of the flights agree in every reachable
\* state.
THEOREM Invariance == Spec => []IInv
<1> QED
  BY InitIInv, NextIInv, PTL DEF Spec

\* Every reachable state of the single flight is well typed.
THEOREM TypeCorrect == Spec => []TypeOK
<1>1. IInv => TypeOK
  BY DEF IInv
<1> QED
  BY <1>1, Invariance, PTL

\* At most one task at a time fetches for a key: any task that leads, refreshes
\* included, is the one the slot names.
THEOREM OneFetchAlways == Spec => []OneFetch
<1>1. IInv => OneFetch
  BY DEF IInv, SlotNamesLeader, OneFetch, Open
<1> QED
  BY <1>1, Invariance, PTL

\* A refresh that finds the slot taken finds another search's flight there,
\* never the one whose stale serve owes the refresh.
THEOREM RefreshesAreFree == Spec => OwnFlightNeverBlocksRefresh
<1> DEFINE Blocked(r) == RefreshSkip(Refresh(r)) => slot[1] # r
<1>1. IInv /\ [Next]_vars => [\A r \in Requests : Blocked(r)]_vars
  <2> SUFFICES ASSUME IInv, NEW r \in Requests, RefreshSkip(Refresh(r)), slot[1] = r
               PROVE  FALSE
    OBVIOUS
  <2>1. task[Refresh(r)] = "entering" /\ slot # NoTask
    BY DEF RefreshSkip
  <2>2. slot \in Tasks /\ task[slot] \in Open
    BY <2>1 DEF IInv, TypeOK, SlotNamesLeader
  <2>3. slot # Refresh(r)
    BY <2>1, <2>2 DEF Open, Leading
  <2>4. slot = <<r, 1>> \/ slot = <<r, 2>>
    BY <2>2, <2>3, TaskIds
  <2> QED
    BY <2>1, <2>2, <2>4 DEF IInv, FreshIds, UnusedRefresh, Open, Leading
<1> QED
  BY <1>1, Invariance, PTL DEF Spec, OwnFlightNeverBlocksRefresh

-----------------------------------------------------------------------------
(* Every step is a step of the contract, or none.                          *)

Shown == Contract!abstractVars

\* Nothing is open and nobody has joined.
LEMMA InitRefines == Init => Contract!Init
  BY DEF Init, Contract!Init, Outcome, Published, Vanished, Leading, Place, Retried

\* What a flight or a refresh does before it sends, and the refreshes that it
\* spawns or that give up, are not seen.
LEMMA InnerStepsShowNothing ==
  ASSUME IInv, NEW t \in Tasks,
         \/ Lexical(t) \/ Permits(t) \/ WaitTimeout(t) \/ Overflow(t) \/ Fetch(t)
         \/ FetchRateLimited(t) \/ RefreshSkip(t) \/ SpawnRefresh(t)
  PROVE  UNCHANGED Shown
<1>1. UNCHANGED <<slot, request>>
  BY DEF Lexical, Permits, WaitTimeout, Overflow, Fetch, FetchRateLimited,
         RefreshSkip, SpawnRefresh
<1>2. \A u \in Tasks : Outcome(u)' = Outcome(u)
  <2>1. CASE Lexical(t)
    BY <2>1 DEF IInv, TypeOK, Lexical, Conclude, TaskGo, Outcome, Published,
                Vanished, Leading
  <2>2. CASE Permits(t)
    BY <2>2 DEF IInv, TypeOK, Permits, TaskGo, Outcome, Published,
                Vanished, Leading
  <2>3. CASE WaitTimeout(t)
    BY <2>3 DEF IInv, TypeOK, WaitTimeout, TaskGo, Outcome, Published,
                Vanished, Leading
  <2>4. CASE Overflow(t)
    BY <2>4 DEF IInv, TypeOK, Overflow, Conclude, TaskGo, Outcome, Published,
                Vanished, Leading
  <2>5. CASE Fetch(t)
    BY <2>5 DEF IInv, TypeOK, Fetch, Conclude, TaskGo, Outcome, Published,
                Vanished, Leading
  <2>6. CASE FetchRateLimited(t)
    BY <2>6 DEF IInv, TypeOK, FetchRateLimited, TaskGo, Outcome, Published,
                Vanished, Leading
  <2>7. CASE RefreshSkip(t)
    BY <2>7 DEF IInv, TypeOK, RefreshSkip, TaskGo, Outcome, Published,
                Vanished, Leading
  <2>8. CASE SpawnRefresh(t)
    <3>1. t \in Flights /\ task[t] = "spawning" /\ t[1] \in Requests
      BY <2>8, TaskIds DEF IInv, RefreshesAlone, SpawnRefresh
    <3>2. Refresh(t[1]) \in Tasks \ Flights /\ task[Refresh(t[1])] = "none"
      BY <3>1, TaskIds DEF IInv, FreshIds, UnusedRefresh
    <3> QED
      BY <2>8, <3>1, <3>2 DEF IInv, TypeOK, SpawnRefresh, Outcome, Published,
                              Vanished, Leading
  <2> QED
    BY <2>1, <2>2, <2>3, <2>4, <2>5, <2>6, <2>7, <2>8
<1> QED
  BY <1>1, <1>2 DEF Shown, Contract!abstractVars, request, Place, Retried

\* A request that has its answer elsewhere, or goes, leaves.
LEMMA LeavingIsShown ==
  ASSUME IInv, NEW r \in Requests, NEW to \in {"outside", "served"},
         slot' = slot, \A t \in Tasks : Outcome(t)' = Outcome(t),
         \A q \in Requests \ {r} : Place(q)' = Place(q) /\ Retried(q)' = Retried(q),
         Place(r)' = to, Retried(r)' = FALSE, on' = [on EXCEPT ![r] = NoTask]
  PROVE  Contract!Leave(r)
<1>1. Contract!Leaves(r, to, FALSE)
  BY DEF Contract!Leaves, Retried
<1>2. [t \in Tasks |-> Outcome(t)]' =
        [t \in Tasks |-> IF t \in {} THEN "none" ELSE [u \in Tasks |-> Outcome(u)][t]]
  OBVIOUS
<1>3. {} \in SUBSET {i \in Tasks \ {slot} :
               /\ [u \in Tasks |-> Outcome(u)][i] # "pending"
               /\ \A d \in Requests \ {r} : on[d] # i}
  OBVIOUS
<1> QED
  BY <1>1, <1>2, <1>3 DEF Contract!Leave

LEMMA LookupShows ==
  ASSUME IInv, NEW r \in Requests, Lookup(r)
  PROVE  Contract!Leave(r) \/ UNCHANGED Shown
<1>1. /\ UNCHANGED <<slot, task, on, tries>> /\ pc[r] = "idle"
      /\ pc' = [pc EXCEPT ![r] = pc'[r]] /\ pc'[r] \in {"served", "missed"}
  BY DEF IInv, TypeOK, Lookup, Go
<1>2. on[r] = NoTask /\ on' = [on EXCEPT ![r] = NoTask]
  BY <1>1 DEF IInv, TypeOK, JoinedAwait
<1>3. \A t \in Tasks : Outcome(t)' = Outcome(t)
  BY <1>1 DEF Outcome, Published, Vanished
<1>4. \A q \in Requests \ {r} : Place(q)' = Place(q) /\ Retried(q)' = Retried(q)
  BY <1>1 DEF IInv, TypeOK, Place, Retried
<1>5. CASE pc'[r] = "served"
  <2>1. Place(r)' = "served" /\ Retried(r)' = FALSE
    BY <1>5 DEF Place, Retried
  <2> QED
    BY <1>1, <1>2, <1>3, <1>4, <2>1, LeavingIsShown
<1>6. CASE pc'[r] = "missed"
  <2>1. Place(r)' = Place(r) /\ Retried(r)' = Retried(r)
    BY <1>1, <1>6 DEF Place, Retried
  <2> QED
    BY <1>1, <1>3, <1>4, <2>1 DEF Shown, Contract!abstractVars
<1> QED
  BY <1>1, <1>5, <1>6

LEMMA StaleLookupShows ==
  ASSUME IInv, NEW r \in Requests, StaleLookup(r)
  PROVE  UNCHANGED Shown
<1>1. UNCHANGED <<slot, task, on, tries>> /\ tries[r] = 0
  BY DEF IInv, FreshIds, UnusedFlights, Before, StaleLookup
<1>2. \A q \in Requests : Place(q)' = Place(q) /\ Retried(q)' = Retried(q)
  BY <1>1 DEF IInv, TypeOK, StaleLookup, Go, Place, Retried
<1> QED
  BY <1>1, <1>2 DEF Shown, Contract!abstractVars, Outcome, Published, Vanished

LEMMA ServeStaleShows ==
  ASSUME IInv, NEW r \in Requests, ServeStale(r)
  PROVE  Contract!Leave(r)
<1>1. Refresh(r) \in Tasks /\ task[Refresh(r)] = "none" /\ on[r] = NoTask
  BY TaskIds DEF IInv, JoinedAwait, FreshIds, UnusedRefresh, Before, ServeStale
<1>2. \A t \in Tasks : Outcome(t)' = Outcome(t)
  BY <1>1 DEF IInv, TypeOK, ServeStale, TaskGo, Outcome, Published, Vanished, Leading
<1>3. \A q \in Requests \ {r} : Place(q)' = Place(q) /\ Retried(q)' = Retried(q)
  BY DEF IInv, TypeOK, ServeStale, Go, Place, Retried
<1>4. Place(r)' = "served" /\ Retried(r)' = FALSE /\ slot' = slot
  BY DEF IInv, TypeOK, ServeStale, Go, Place, Retried
<1>5. on' = [on EXCEPT ![r] = NoTask]
  BY <1>1 DEF IInv, TypeOK, ServeStale
<1> QED
  BY <1>2, <1>3, <1>4, <1>5, LeavingIsShown

LEMMA LeadShows ==
  ASSUME IInv, NEW r \in Requests, Lead(r)
  PROVE  Contract!Join(r)
<1>1. Own(r) \in Tasks /\ task[Own(r)] = "none" /\ <<r, tries[r] + 1>> = Own(r)
  BY TaskIds DEF IInv, TypeOK, FreshIds, UnusedFlights, Lead, Own
<1>2. PICK f \in Tasks : f = <<r, tries[r] + 1>> /\ task[f] = "none"
  BY <1>1
<1>3. /\ slot' = f /\ task' = [task EXCEPT ![f] = "lexical"]
      /\ on' = [on EXCEPT ![r] = f]
  BY <1>2 DEF Lead, TaskGo
<1>4. Outcome(f) = "none" /\ Outcome(f)' = "pending"
  BY <1>2, <1>3 DEF IInv, TypeOK, Outcome, Published, Vanished, Leading
<1>5. \A t \in Tasks \ {f} : Outcome(t)' = Outcome(t)
  BY <1>3 DEF IInv, TypeOK, Outcome, Published, Vanished
<1>6. Contract!Open(f)
  BY <1>3, <1>4, <1>5 DEF Contract!Open, Lead
<1>7. Place(r) = "outside" /\ Place(r)' = "joined"
  BY DEF IInv, TypeOK, Lead, Go, Place
<1>8. \A q \in Requests \ {r} : Place(q)' = Place(q)
  BY DEF IInv, TypeOK, Lead, Go, Place
<1>9. \A q \in Requests : Retried(q)' = Retried(q)
  BY DEF IInv, TypeOK, Lead, Go, Retried
<1> QED
  BY <1>3, <1>6, <1>7, <1>8, <1>9 DEF Contract!Join

LEMMA FollowShows ==
  ASSUME IInv, NEW r \in Requests, Follow(r)
  PROVE  Contract!Join(r)
<1>1. slot # NoTask /\ UNCHANGED <<slot, task, tries>> /\ on' = [on EXCEPT ![r] = slot]
  BY DEF Follow
<1>2. \A t \in Tasks : Outcome(t)' = Outcome(t)
  BY <1>1 DEF Outcome, Published, Vanished
<1>3. Place(r) = "outside" /\ Place(r)' = "joined"
  BY DEF IInv, TypeOK, Follow, Go, Place
<1>4. \A q \in Requests \ {r} : Place(q)' = Place(q)
  BY DEF IInv, TypeOK, Follow, Go, Place
<1>5. \A q \in Requests : Retried(q)' = Retried(q)
  BY DEF IInv, TypeOK, Follow, Go, Retried
<1> QED
  BY <1>1, <1>2, <1>3, <1>4, <1>5 DEF Contract!Join

LEMMA AnswerShows ==
  ASSUME IInv, NEW r \in Requests, Answer(r)
  PROVE  Contract!Serve(r)
<1>1. /\ UNCHANGED <<slot, task, tries>> /\ on' = [on EXCEPT ![r] = NoTask]
      /\ on[r] \in Tasks /\ Outcome(on[r]) = "published"
  BY DEF IInv, TypeOK, JoinedAwait, Answer, Quits, Outcome, Published, Leading
<1>2. \A t \in Tasks : Outcome(t)' = Outcome(t)
  BY <1>1 DEF Outcome, Published, Vanished
<1>3. Place(r) = "joined" /\ Place(r)' = "served" /\ Retried(r)' = FALSE
  BY DEF IInv, TypeOK, Answer, Quits, Go, Place, Retried
<1>4. \A q \in Requests \ {r} : Place(q)' = Place(q) /\ Retried(q)' = Retried(q)
  BY DEF IInv, TypeOK, Answer, Quits, Go, Place, Retried
<1> QED
  BY <1>1, <1>2, <1>3, <1>4 DEF Contract!Serve, Contract!Leaves

\* A vanished flight sends its clients to another, or away.
LEMMA ReElectShows ==
  ASSUME IInv, NEW r \in Requests, ReElect(r)
  PROVE  Contract!Leave(r) \/ Contract!Retry(r) \/ Contract!Fail(r)
<1>1. /\ UNCHANGED <<slot, task>> /\ on' = [on EXCEPT ![r] = NoTask]
      /\ on[r] \in Tasks /\ Outcome(on[r]) = "vanished"
  BY DEF IInv, TypeOK, JoinedAwait, ReElect, Quits, Outcome, Published, Vanished,
         Leading
<1>2. \A t \in Tasks : Outcome(t)' = Outcome(t)
  BY <1>1 DEF Outcome, Published, Vanished
<1>3. \A q \in Requests \ {r} : Place(q)' = Place(q) /\ Retried(q)' = Retried(q)
  BY DEF IInv, TypeOK, ReElect, Quits, Go, Place, Retried
<1>4. pc[r] = "joined" /\ Place(r) = "joined"
  BY DEF ReElect, Place
<1>5. CASE pc'[r] = "gone"
  <2>1. Place(r)' = "outside" /\ Retried(r)' = FALSE
    BY <1>5 DEF Place, Retried
  <2> QED
    BY <1>1, <1>2, <1>3, <2>1, LeavingIsShown
<1>6. CASE pc'[r] = "failed" /\ tries[r] = 1
  <2>1. Place(r)' = "failed" /\ Retried(r)' = FALSE /\ Retried(r)
    BY <1>4, <1>6 DEF Place, Retried
  <2> QED
    BY <1>1, <1>2, <1>3, <1>4, <2>1 DEF Contract!Fail, Contract!Leaves
<1>7. CASE pc'[r] = "seeking" /\ tries[r] = 0 /\ tries'[r] = 1
  <2>1. Place(r)' = "outside" /\ Retried(r)' = TRUE /\ ~Retried(r)
    BY <1>7 DEF Place, Retried
  <2> QED
    BY <1>1, <1>2, <1>3, <1>4, <2>1 DEF Contract!Retry, Contract!Leaves
<1> QED
  BY <1>5, <1>6, <1>7 DEF IInv, TypeOK, ReElect, Quits, Go

LEMMA DisconnectShows ==
  ASSUME IInv, NEW r \in Requests, Disconnect(r)
  PROVE  Contract!Leave(r)
<1>1. UNCHANGED <<slot, task, tries>> /\ on' = [on EXCEPT ![r] = NoTask]
  BY DEF Disconnect, Quits
<1>2. \A t \in Tasks : Outcome(t)' = Outcome(t)
  BY <1>1 DEF Outcome, Published, Vanished
<1>3. Place(r)' = "outside" /\ Retried(r)' = FALSE
  BY DEF IInv, TypeOK, Disconnect, Quits, Go, Place, Retried
<1>4. \A q \in Requests \ {r} : Place(q)' = Place(q) /\ Retried(q)' = Retried(q)
  BY DEF IInv, TypeOK, Disconnect, Quits, Go, Place, Retried
<1> QED
  BY <1>1, <1>2, <1>3, <1>4, LeavingIsShown

\* The value is out before the slot is free.
LEMMA SendShows ==
  ASSUME IInv, NEW t \in Tasks, Send(t)
  PROVE  Contract!Publish
<1>1. slot = t /\ slot # NoTask /\ UNCHANGED <<slot, request>>
  BY TaskIds DEF IInv, SlotNamesLeader, Open, Send
<1>2. Outcome(t) = "pending" /\ Outcome(t)' = "published"
  BY DEF IInv, TypeOK, Send, TaskGo, Outcome, Published, Leading
<1>3. \A u \in Tasks \ {t} : Outcome(u)' = Outcome(u)
  BY DEF IInv, TypeOK, Send, TaskGo, Outcome, Published, Vanished
<1> QED
  BY <1>1, <1>2, <1>3 DEF Contract!Publish, request, Place, Retried

LEMMA RemoveEntryShows ==
  ASSUME IInv, NEW t \in Tasks, RemoveEntry(t)
  PROVE  Contract!Close
<1>1. slot = t /\ slot # NoTask /\ slot' = NoTask /\ UNCHANGED request
  BY TaskIds DEF IInv, SlotNamesLeader, Open, RemoveEntry
<1>2. \A u \in Tasks : Outcome(u)' = Outcome(u)
  BY DEF IInv, TypeOK, RemoveEntry, TaskGo, Outcome, Published, Vanished, Leading
<1> QED
  BY <1>1, <1>2 DEF Contract!Close, request, Place, Retried

\* A refresh that elects itself opens a flight nobody waits for.
LEMMA RefreshLeadShows ==
  ASSUME IInv, NEW t \in Tasks, RefreshLead(t)
  PROVE  Contract!OpenAlone
<1>1. slot = NoTask /\ slot' = t /\ UNCHANGED request
  BY DEF RefreshLead
<1>2. Outcome(t) = "none" /\ Outcome(t)' = "pending"
  BY DEF IInv, TypeOK, RefreshLead, TaskGo, Outcome, Published, Vanished, Leading
<1>3. \A u \in Tasks \ {t} : Outcome(u)' = Outcome(u)
  BY DEF IInv, TypeOK, RefreshLead, TaskGo, Outcome, Published, Vanished
<1> QED
  BY <1>1, <1>2, <1>3
     DEF Contract!OpenAlone, Contract!Open, request, Place, Retried

\* A flight that dies is closed first; its channel closes afterwards.
LEMMA DieShows ==
  ASSUME IInv, NEW t \in Tasks, Die(t)
  PROVE  Contract!Close
<1>1. slot = t /\ slot # NoTask /\ slot' = NoTask /\ UNCHANGED request
  BY TaskIds DEF IInv, SlotNamesLeader, Open, Die
<1>2. \A u \in Tasks : Outcome(u)' = Outcome(u)
  BY DEF IInv, TypeOK, Die, TaskGo, Outcome, Published, Vanished, Leading
<1> QED
  BY <1>1, <1>2 DEF Contract!Close, request, Place, Retried

LEMMA CloseChannelShows ==
  ASSUME IInv, NEW t \in Tasks, CloseChannel(t)
  PROVE  Contract!Vanish
<1>1. slot # t /\ UNCHANGED <<slot, request>>
  BY DEF CloseChannel
<1>2. Outcome(t) = "pending" /\ Outcome(t)' = "vanished"
  BY DEF IInv, TypeOK, CloseChannel, TaskGo, Outcome, Published, Vanished, Leading
<1>3. \A u \in Tasks \ {t} : Outcome(u)' = Outcome(u)
  BY DEF IInv, TypeOK, CloseChannel, TaskGo, Outcome, Published, Vanished
<1> QED
  BY <1>1, <1>2, <1>3 DEF Contract!Vanish, request, Place, Retried

\* The next search of a request forgets the flights of the last.
LEMMA RecycleShows ==
  ASSUME IInv, NEW r \in Requests, Recycle(r)
  PROVE  Contract!Leave(r)
<1> DEFINE old == {t \in Tasks : t[1] = r}
<1>1. \A t \in old : task[t] \in {"none", "dropped", "dead", "done"}
  BY TaskIds DEF Recycle, Finished, Refresh
<1>2. \A t \in old : Outcome(t) # "pending" /\ slot # t
  BY <1>1 DEF IInv, SlotNamesLeader, Open, Outcome, Published, Vanished, Leading
<1>3. \A t \in old, q \in Requests : on[q] # t
  BY TaskIds DEF Recycle, Finished, Refresh
<1>4. \A t \in Tasks : Outcome(t)' = IF t \in old THEN "none" ELSE Outcome(t)
  BY DEF Recycle, Outcome, Published, Vanished, Leading
<1>5. UNCHANGED <<slot, on>> /\ on[r] = NoTask
  BY DEF IInv, JoinedAwait, Recycle, Finished
<1>6. Place(r)' = "outside" /\ Retried(r)' = FALSE
  BY DEF IInv, TypeOK, Recycle, Go, Place, Retried
<1>7. \A q \in Requests \ {r} : Place(q)' = Place(q) /\ Retried(q)' = Retried(q)
  BY DEF IInv, TypeOK, Recycle, Go, Place, Retried
<1> HIDE DEF old
<1>8. Contract!Leaves(r, "outside", FALSE)
  BY <1>5, <1>6, <1>7 DEF IInv, TypeOK, Contract!Leaves
<1>9. old \in SUBSET {i \in Tasks \ {slot} :
               /\ [u \in Tasks |-> Outcome(u)][i] # "pending"
               /\ \A d \in Requests \ {r} : on[d] # i}
  BY <1>2, <1>3 DEF old
<1>10. [t \in Tasks |-> Outcome(t)]' =
         [t \in Tasks |-> IF t \in old THEN "none" ELSE [u \in Tasks |-> Outcome(u)][t]]
  BY <1>4
<1> QED
  BY <1>5, <1>8, <1>9, <1>10 DEF Contract!Leave

LEMMA NextRefines == IInv /\ [Next]_vars => [Contract!Next]_Shown
<1> SUFFICES ASSUME IInv, [Next]_vars PROVE Contract!Next \/ UNCHANGED Shown
  OBVIOUS
<1>1. ASSUME NEW r \in Requests, Lookup(r) \/ RequestStep(r) \/ Disconnect(r) \/ Recycle(r)
      PROVE  Contract!Next \/ UNCHANGED Shown
  BY <1>1, LookupShows, StaleLookupShows, ServeStaleShows, LeadShows, FollowShows,
     AnswerShows, ReElectShows, DisconnectShows, RecycleShows
     DEF RequestStep, Contract!Next
<1>2. ASSUME NEW t \in Tasks, TaskStep(t) \/ Die(t)
      PROVE  Contract!Next \/ UNCHANGED Shown
  BY <1>2, InnerStepsShowNothing, SendShows, RemoveEntryShows, RefreshLeadShows,
     DieShows, CloseChannelShows DEF TaskStep, Contract!Next
<1>3. CASE Age \/ UNCHANGED vars
  BY <1>3 DEF Age, vars, request, Shown, Contract!abstractVars, Outcome, Published,
              Vanished, Place, Retried
<1> QED
  BY <1>1, <1>2, <1>3 DEF Next

\* Whatever flights, refreshes, clients and deaths do, admission keeps its
\* contract: one open flight, values sent before the slot is free, and clients
\* that learn of a vanished flight and try once more.
THEOREM Implements == Spec => RefinesCoalesce
<1> QED
  BY InitRefines, Invariance, NextRefines, PTL
     DEF Spec, RefinesCoalesce, Contract!Spec, Shown

=============================================================================

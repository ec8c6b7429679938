------------------------------ MODULE Coalesce ------------------------------
(***************************************************************************)
(* What admission promises about one cache key, whatever a flight does     *)
(* inside: at most one flight is open to joiners at a time, a client gets  *)
(* what the flight it joined published or learns that it vanished, and     *)
(* after one vanished flight it tries once more.                           *)
(* SingleFlight is shown to implement this module.                         *)
(***************************************************************************)
CONSTANTS Clients, Flights, NoFlight

VARIABLES
  open,      \* the flight newcomers join, or NoFlight
  outcome,   \* of each flight: none yet used, pending, published, vanished
  at,        \* of each client: outside, joined, served, failed
  on,        \* the flight a client has joined
  retried    \* it has already lost one flight

abstractVars == <<open, outcome, at, on, retried>>

Init ==
  /\ open = NoFlight
  /\ outcome = [i \in Flights |-> "none"]
  /\ at = [c \in Clients |-> "outside"]
  /\ on = [c \in Clients |-> NoFlight]
  /\ retried = [c \in Clients |-> FALSE]

Open(i) ==
  /\ open = NoFlight /\ outcome[i] = "none"
  /\ open' = i
  /\ outcome' = [outcome EXCEPT ![i] = "pending"]

Join(c) ==
  /\ at[c] = "outside"
  /\ \/ open # NoFlight /\ UNCHANGED <<open, outcome>>
     \/ \E i \in Flights : Open(i)
  /\ at' = [at EXCEPT ![c] = "joined"]
  /\ on' = [on EXCEPT ![c] = open']
  /\ UNCHANGED retried

\* A refresh opens a flight nobody waits for.
OpenAlone == (\E i \in Flights : Open(i)) /\ UNCHANGED <<at, on, retried>>

\* The value is out before the flight closes to newcomers.
Publish ==
  /\ open # NoFlight /\ outcome[open] = "pending"
  /\ outcome' = [outcome EXCEPT ![open] = "published"]
  /\ UNCHANGED <<open, at, on, retried>>

Close == open # NoFlight /\ open' = NoFlight /\ UNCHANGED <<outcome, at, on, retried>>

\* Closed with nothing published: only then do its clients wake up to that.
Vanish ==
  /\ \E i \in Flights \ {open} :
       outcome[i] = "pending" /\ outcome' = [outcome EXCEPT ![i] = "vanished"]
  /\ UNCHANGED <<open, at, on, retried>>

Leaves(c, to, again) ==
  /\ at' = [at EXCEPT ![c] = to]
  /\ on' = [on EXCEPT ![c] = NoFlight]
  /\ retried' = [retried EXCEPT ![c] = again]

Serve(c) ==
  /\ at[c] = "joined" /\ outcome[on[c]] = "published"
  /\ Leaves(c, "served", FALSE)
  /\ UNCHANGED <<open, outcome>>

Retry(c) ==
  /\ at[c] = "joined" /\ outcome[on[c]] = "vanished" /\ ~retried[c]
  /\ Leaves(c, "outside", TRUE)
  /\ UNCHANGED <<open, outcome>>

Fail(c) ==
  /\ at[c] = "joined" /\ outcome[on[c]] = "vanished" /\ retried[c]
  /\ Leaves(c, "failed", FALSE)
  /\ UNCHANGED <<open, outcome>>

\* The client goes away, or was never here for a flight; flights that are
\* over and that nobody has joined may be forgotten.
Leave(c) ==
  /\ \E to \in {"outside", "served"} : Leaves(c, to, FALSE)
  /\ open' = open
  /\ \E old \in SUBSET {i \in Flights \ {open} :
           outcome[i] # "pending" /\ \A d \in Clients \ {c} : on[d] # i} :
       outcome' = [i \in Flights |-> IF i \in old THEN "none" ELSE outcome[i]]

Next ==
  \/ \E c \in Clients : Join(c) \/ Serve(c) \/ Retry(c) \/ Fail(c) \/ Leave(c)
  \/ OpenAlone \/ Publish \/ Close \/ Vanish

Spec == Init /\ [][Next]_abstractVars
=============================================================================

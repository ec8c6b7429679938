--------------------------- MODULE HealthPersist ---------------------------
(***************************************************************************)
(* How engine health reaches the store and comes back: the dirty set and   *)
(* the pending transitions of HealthTracker, flush_due and flush run by    *)
(* concurrent searches and by the prober, the reset route's own write, and *)
(* a restart that loads what was written                                   *)
(* (crates/cauce-core/src/health.rs, pipeline/persistence.rs).             *)
(*                                                                         *)
(* The content of a row is abstracted to the change that produced it: the  *)
(* n-th change of the process' history, 0 for a fresh row.                 *)
(***************************************************************************)
EXTENDS Integers, FiniteSets

CONSTANTS
  Engines,
  Searches,      \* searches in progress
  Prober,        \* the recovery loop, which ends each pass with flush_due
  MaxChanges,    \* bound: changes of health over the whole run
  MaxFailures,   \* bound: store calls that fail
  MaxCrashes     \* bound: crashes

Flushers == Searches \cup {Prober}
Changes == 0..MaxChanges
Entries == Engines \X Changes   \* a row, or a transition: <<engine, change>>

ASSUME BoundAssumption ==
  /\ MaxChanges \in Nat /\ MaxFailures \in Nat /\ MaxCrashes \in Nat
  /\ IsFiniteSet(Engines)
  /\ Prober \notin Searches

VARIABLES
  mem,        \* Inner.map: the last change of each engine's health
  changes,    \* changes so far
  dirty,      \* Inner.dirty
  pending,    \* Inner.transitions
  recent,     \* last_flush is less than PERSIST_DEBOUNCE ago
  disk,       \* the engine_health rows
  pc, rows, batch,  \* each flusher: where it is, what it has yet to write
  resetting,  \* rows the reset route has yet to write
  high,       \* history: the newest row ever written, per engine
  settled,    \* history: transitions in the audit table, or reported lost
  failures, crashes

memory == <<mem, dirty, pending, recent>>
flushing == <<pc, rows, batch>>
store == <<disk, high, settled, failures>>
vars == <<memory, changes, flushing, resetting, store, crashes>>

TypeOK ==
  /\ mem \in [Engines -> Changes] /\ disk \in [Engines -> Changes]
  /\ high \in [Engines -> Changes]
  /\ changes \in Changes
  /\ dirty \subseteq Engines
  /\ pending \subseteq Entries /\ settled \subseteq Entries
  /\ resetting \subseteq Entries
  /\ recent \in BOOLEAN
  /\ pc \in [Flushers -> {"idle", "recorded", "due", "writing", "done"}]
  /\ rows \in [Flushers -> SUBSET Entries]
  /\ batch \in [Flushers -> SUBSET Entries]
  /\ failures \in 0..MaxFailures /\ crashes \in 0..MaxCrashes

-----------------------------------------------------------------------------

\* A change of e's health under the tracker's lock: the row is dirty.
Change(e) ==
  /\ changes < MaxChanges
  /\ changes' = changes + 1
  /\ mem' = [mem EXCEPT ![e] = changes']
  /\ dirty' = dirty \cup {e}

\* record_ok / record_err / admission on behalf of f.  A step that moves the
\* breaker (flips) also queues a transition, which makes the flush urgent.
Record(f) ==
  /\ pc[f] \in {"idle", "recorded"}
  /\ pc' = [pc EXCEPT ![f] = "recorded"]
  /\ \E e \in Engines, flips \in BOOLEAN :
       LET t == IF flips THEN {<<e, changes + 1>>} ELSE {}
       IN  /\ Change(e)
           /\ pending' = pending \cup t
  /\ UNCHANGED <<recent, rows, batch, resetting, store, crashes>>

\* Mutated Due: only a transition makes a flush due.
DueUrgentOnly == pending # {}

Due == pending # {} \/ (dirty # {} /\ ~recent)

\* flush_due, its own lock section: is a flush due?  finish_fetch reaches it
\* after the fan-out, the prober after every pass, probes or none.
FlushDue(f) ==
  /\ pc[f] = "recorded" \/ (f = Prober /\ pc[f] = "idle")
  /\ pc' = [pc EXCEPT ![f] = IF Due THEN "due" ELSE "done"]
  /\ UNCHANGED <<memory, changes, rows, batch, resetting, store, crashes>>

\* flush, a second lock section: take the dirty rows as they are now and the
\* transitions.  Another flush may have taken them since FlushDue looked.
Drain(f) ==
  /\ pc[f] = "due"
  /\ pc' = [pc EXCEPT ![f] = "writing"]
  /\ recent' = TRUE
  /\ rows' = [rows EXCEPT ![f] = {<<e, mem[e]>> : e \in dirty}]
  /\ dirty' = {}
  /\ batch' = [batch EXCEPT ![f] = pending]
  /\ pending' = {}
  /\ UNCHANGED <<mem, changes, resetting, store, crashes>>

Write(r) ==
  /\ disk' = [disk EXCEPT ![r[1]] = r[2]]
  /\ high' = [high EXCEPT ![r[1]] = IF r[2] > @ THEN r[2] ELSE @]

Fails == failures < MaxFailures /\ failures' = failures + 1

\* Mutated PutHealth: a failed row is dropped instead of being dirty again.
PutHealthDrop(f) ==
  /\ pc[f] = "writing"
  /\ \E r \in rows[f] :
       /\ rows' = [rows EXCEPT ![f] = @ \ {r}]
       /\ \/ Write(r) /\ UNCHANGED failures
          \/ Fails /\ UNCHANGED <<disk, high>>
  /\ UNCHANGED <<memory, changes, pc, batch, resetting, settled, crashes>>

\* put_health of one drained row; the row of a failed write is dirty again.
PutHealth(f) ==
  /\ pc[f] = "writing"
  /\ \E r \in rows[f] :
       /\ rows' = [rows EXCEPT ![f] = @ \ {r}]
       /\ \/ Write(r) /\ UNCHANGED <<dirty, failures>>
          \/ Fails /\ dirty' = dirty \cup {r[1]} /\ UNCHANGED <<disk, high>>
  /\ UNCHANGED <<mem, pending, recent, changes, pc, batch, resetting,
                 settled, crashes>>

\* The audit rows follow the health rows; a failed insert is only reported.
Audit(f) ==
  /\ pc[f] = "writing" /\ rows[f] = {}
  /\ \E t \in batch[f] :
       /\ batch' = [batch EXCEPT ![f] = @ \ {t}]
       /\ settled' = settled \cup {t}
       /\ UNCHANGED failures \/ Fails
  /\ UNCHANGED <<memory, changes, pc, rows, resetting, disk, high, crashes>>

\* flush_due has returned; the search answers its caller.
Return(f) ==
  /\ \/ pc[f] = "done"
     \/ pc[f] = "writing" /\ rows[f] = {} /\ batch[f] = {}
  /\ pc' = [pc EXCEPT ![f] = "idle"]
  /\ UNCHANGED <<memory, changes, rows, batch, resetting, store, crashes>>

\* More than PERSIST_DEBOUNCE since the last flush.
DebounceElapses ==
  /\ recent /\ recent' = FALSE
  /\ UNCHANGED <<mem, dirty, pending, changes, flushing, resetting, store, crashes>>

-----------------------------------------------------------------------------
\* engine_reset: HealthTracker::reset marks the row dirty and hands it back,
\* and the handler writes that row itself; no transition is queued.
Reset(e) ==
  /\ Change(e)
  /\ resetting' = resetting \cup {<<e, changes'>>}
  /\ UNCHANGED <<pending, recent, flushing, store, crashes>>

ResetWrite ==
  /\ \E r \in resetting :
       /\ resetting' = resetting \ {r}
       /\ \/ Write(r) /\ UNCHANGED failures
          \/ Fails /\ UNCHANGED <<disk, high>>
  /\ UNCHANGED <<memory, changes, flushing, settled, crashes>>

\* The process dies and comes back: load reads the rows on disk, and serve
\* goes on with fresh health when that fails.
CrashAndLoad ==
  /\ crashes < MaxCrashes /\ crashes' = crashes + 1
  /\ \/ mem' = disk /\ UNCHANGED failures
     \/ mem' = [e \in Engines |-> 0] /\ Fails
  /\ dirty' = {} /\ pending' = {} /\ recent' = FALSE
  /\ settled' = settled \cup pending \cup UNION {batch[f] : f \in Flushers}
  /\ pc' = [f \in Flushers |-> "idle"]
  /\ rows' = [f \in Flushers |-> {}] /\ batch' = [f \in Flushers |-> {}]
  /\ resetting' = {}
  /\ UNCHANGED <<changes, disk, high>>

-----------------------------------------------------------------------------
Init ==
  /\ mem = [e \in Engines |-> 0] /\ disk = [e \in Engines |-> 0]
  /\ changes = 0
  /\ dirty = {} /\ pending = {} /\ recent = FALSE
  /\ pc = [f \in Flushers |-> "idle"]
  /\ rows = [f \in Flushers |-> {}] /\ batch = [f \in Flushers |-> {}]
  /\ resetting = {}
  /\ high = [e \in Engines |-> 0] /\ settled = {}
  /\ failures = 0 /\ crashes = 0

Flush(f) == FlushDue(f) \/ Drain(f) \/ PutHealth(f) \/ Audit(f) \/ Return(f)

Next ==
  \/ \E f \in Flushers : Record(f) \/ Flush(f)
  \/ \E e \in Engines : Reset(e)
  \/ ResetWrite
  \/ DebounceElapses
  \/ CrashAndLoad

\* A flush runs to its end, the prober keeps passing and the clock keeps
\* going; searches, operators, failures and crashes come as they please.
Fairness ==
  /\ \A f \in Flushers : WF_vars(Flush(f))
  /\ WF_vars(DebounceElapses)

Spec == Init /\ [][Next]_vars
FairSpec == Spec /\ Fairness

-----------------------------------------------------------------------------
(* What persistence promises.                                              *)

\* The current health of an engine is never forgotten: it has been written,
\* or a flush holds it, or the row is still dirty for the next one.  A
\* failed write, a flush that found nothing left and a restart all keep it.
NothingForgotten ==
  \A e \in Engines :
    \/ e \in dirty
    \/ \E f \in Flushers : <<e, mem[e]>> \in rows[f]
    \/ high[e] >= mem[e]

\* A transition has one place: pending, in the hands of one flush, or settled
\* (audited, or lost to a failed insert or a crash).  No two flushes audit it,
\* and none is audited again.
OnePlace ==
  /\ \A f \in Flushers : batch[f] \cap (pending \cup settled) = {}
  /\ \A f, g \in Flushers : f # g => batch[f] \cap batch[g] = {}
  /\ pending \cap settled = {}

\* Whatever fails, races or crashes, no change of health and no transition is
\* lost on its way to the store or the audit table, and none is doubled.
NothingLost == NothingForgotten /\ OnePlace

\* health.rs:665: a failed write is retried.  Whatever health an engine has
\* does reach the store, unless it changes again first.
Persisted ==
  \A e \in Engines, n \in Changes :
    mem[e] = n ~> (high[e] >= n \/ mem[e] # n)

\* health.rs:37: the breaker's row is stored "so a restart does not hammer a
\* blocked engine": once nothing is dirty and no write is under way, the row a
\* restart would load is the health the tracker holds.
QuiescentStoreCurrent ==
  (dirty = {} /\ resetting = {} /\ \A f \in Flushers : rows[f] = {})
     => disk = mem
=============================================================================

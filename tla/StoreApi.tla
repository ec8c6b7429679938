------------------------------ MODULE StoreApi ------------------------------
(***************************************************************************)
(* The store at work: the writes of the search path, the admin handlers    *)
(* (cauce-server/src/handlers/{history,cache,pages}.rs) and the MCP tools  *)
(* (mcp/mod.rs), whose store call and audit row are two calls, the         *)
(* eviction task, and crashes.                                             *)
(***************************************************************************)
EXTENDS SqliteStore

CONSTANTS
  Calls,       \* admin requests
  Archiving,   \* archive.enabled
  Budgets      \* bound: how often a behaviour writes to each group of tables,
               \* reads a feed, sweeps, changes the grace and ticks

VARIABLES
  left,        \* what is left of the behaviour's budget
  call,        \* each admin request
  grace,       \* cache.stale_grace_s
  sweep        \* the eviction: waiting for the writer with its cutoff, or not

apiVars == <<left, call, grace, sweep>>
vars == <<sqlVars, apiVars>>

AuditActions ==
  {"history.delete", "answer_log.delete", "cache.delete", "cache.evict_expired", "cache.clear",
   "page.index", "page.delete", "mcp.cache_invalidate", "mcp.fetch_and_index",
   "mcp.search_web", "mcp.cache_status", "mcp.exa_search", "mcp.search_archive"}

ASSUME AuditAssumption == [by : Calls, action : AuditActions] \subseteq AuditRows

Rest == [at |-> "idle", action |-> None, done |-> FALSE, strict |-> TRUE]
NoSweep == [waits |-> FALSE, cutoff |-> 0, grace |-> 0]

ApiTypeOK ==
  /\ \A c \in Calls : call[c].at \in {"idle", "audit", "acked", "failed"}
  /\ grace \in Graces /\ sweep.grace \in Graces \cup {0}
TypeOK == SqlTypeOK /\ ApiTypeOK

Spend(what) == left[what] > 0 /\ left' = [left EXCEPT ![what] = @ - 1]

\* What the search path, its beacons and the answer loop write.
Write ==
  /\ \/ Spend("cache") /\ \E k \in Keys :
          GetExact(k) \/ \E doc \in Payloads, ttl \in TTLs : PutCache(k, doc, ttl)
     \/ Spend("pages") /\ \E u \in Urls, text \in Contract!Texts : PutPage(u, text)
     \/ Spend("history") /\ \E row \in [ts : 0..now, key : Keys, origin : Origins] :
          LogSearch(row) \/ RecordClick(row) \/ LogAnswer(row)
  /\ UNCHANGED <<feed, call, grace, sweep>>

-----------------------------------------------------------------------------
(* The admin handlers.                                                     *)

\* The store has answered: with an audit row to write, whose failure fails the
\* request where it is strict, or not found.
Answered(c, action, done, strict) ==
  /\ call' = [call EXCEPT ![c] =
       IF done THEN [at |-> "audit", action |-> action, done |-> TRUE, strict |-> strict]
       ELSE [Rest EXCEPT !.at = "failed"]]
  /\ UNCHANGED <<feed, left, grace, sweep>>

Then(c, action, done) == Answered(c, action, done, TRUE)

NotFound(c, action) == Then(c, action, FALSE) /\ UNCHANGED <<now, tables>>

HistoryDelete(c) == \E id \in Ids :
  \/ DeleteSearchLog(id) /\ Then(c, "history.delete", TRUE)
  \/ id \notin DOMAIN searchLog /\ NotFound(c, "history.delete")

AnswerLogDelete(c) == \E id \in Ids :
  \/ DeleteAnswerLog(id) /\ Then(c, "answer_log.delete", TRUE)
  \/ id \notin DOMAIN answerLog /\ NotFound(c, "answer_log.delete")

CacheDeleteAs(c, action) == \E k \in Keys : LET rs == RowsOf(entries, LAMBDA e : e.key = k) IN
  \/ rs # {} /\ DeleteEntries(rs) /\ Then(c, action, TRUE)
  \/ rs = {} /\ NotFound(c, action)

CacheDelete(c) == CacheDeleteAs(c, "cache.delete")

\* Both bulk deletes are audited whatever they removed.
CacheBulkDelete(c) ==
  \/ DeleteEntries(Expired(Contract!Cutoff(grace))) /\ Then(c, "cache.evict_expired", TRUE)
  \/ DeleteEntries(DOMAIN entries) /\ Then(c, "cache.clear", TRUE)

PagesIndex(c) ==
  /\ Archiving /\ left["pages"] > 0        \* bound: where the archive is the subject
  /\ \E u \in Urls, text \in Contract!Texts : PutPage(u, text)
  /\ Then(c, "page.index", TRUE)

PagesDelete(c) ==
  /\ Archiving
  /\ \E u \in Urls : LET rs == RowsOf(pageRows, LAMBDA p : p.url = u) IN
       \/ rs # {} /\ DeletePages(rs) /\ Then(c, "page.delete", TRUE)
       \/ rs = {} /\ NotFound(c, "page.delete")

\* The tools, on the same store.  cache_invalidate takes one of its three
\* selectors and is strict about its row; fetch_and_index, which writes a
\* page, is not, nor are the tools that only read.  A tool whose arguments,
\* search or read fail has no row.
CacheInvalidate(c) ==
  \/ CacheDeleteAs(c, "mcp.cache_invalidate")
  \/ \E rs \in {Expired(Contract!Cutoff(grace)), DOMAIN entries} :
        DeleteEntries(rs) /\ Then(c, "mcp.cache_invalidate", TRUE)

FetchTool(c) ==
  /\ Archiving /\ left["pages"] > 0
  /\ \E u \in Urls, text \in Contract!Texts : PutPage(u, text)
  /\ Answered(c, "mcp.fetch_and_index", TRUE, FALSE)

ReadTool(c, tool) ==
  /\ UNCHANGED <<now, tables>>
  /\ \E done \in BOOLEAN : Answered(c, tool, done, FALSE)

SearchWeb(c)     == ReadTool(c, "mcp.search_web")
CacheStatus(c)   == ReadTool(c, "mcp.cache_status")
ExaSearch(c)     == ReadTool(c, "mcp.exa_search")
SearchArchive(c) == ReadTool(c, "mcp.search_archive")

Request(c) ==
  /\ call[c].at = "idle"
  /\ \/ HistoryDelete(c) \/ AnswerLogDelete(c) \/ CacheDelete(c) \/ CacheBulkDelete(c)
     \/ PagesIndex(c) \/ PagesDelete(c)
     \/ CacheInvalidate(c) \/ FetchTool(c)
     \/ SearchWeb(c) \/ CacheStatus(c) \/ ExaSearch(c) \/ SearchArchive(c)

\* Mutated AuditFault: the fault is swallowed.
AuditFaultIgnored(strict) == "acked"

\* The error of a strict row is the request's, though the delete stands.
AuditFault(strict) == IF strict THEN "failed" ELSE "acked"

WriteAuditRow(c) ==
  /\ call[c].at = "audit"
  /\ \/ WriteAudit([by |-> c, action |-> call[c].action])
        /\ call' = [call EXCEPT ![c].at = "acked"]
     \/ UNCHANGED <<now, tables>> /\ call' = [call EXCEPT ![c].at = AuditFault(call[c].strict)]
  /\ UNCHANGED <<feed, left, grace, sweep>>

-----------------------------------------------------------------------------
(* The eviction task, a hot-applied grace, and a crash.                    *)

\* Mutated SweepCutoff: a row goes as soon as it has expired.
SweepCutoffAtExpiry == now

SweepCutoff == Contract!Cutoff(grace)

\* evict_expired: the cutoff is taken before the writer is.
BeginSweep ==
  /\ ~sweep.waits /\ Spend("sweep")
  /\ sweep' = [waits |-> TRUE, cutoff |-> SweepCutoff, grace |-> grace]
  /\ UNCHANGED <<sqlVars, call, grace>>

Sweep ==
  /\ sweep.waits /\ sweep' = NoSweep
  /\ DeleteEntries(Expired(sweep.cutoff))
  /\ UNCHANGED <<feed, left, call, grace>>

SetGrace ==
  /\ grace' \in Graces \ {grace} /\ Spend("grace")
  /\ UNCHANGED <<sqlVars, call, sweep>>

\* The process dies: what was committed stays, what was under way is lost.
Crash ==
  /\ call' = [c \in Calls |-> IF call[c].at = "audit" THEN [call[c] EXCEPT !.at = "failed"]
                              ELSE call[c]]
  /\ sweep' = NoSweep /\ feed' = Idle
  /\ UNCHANGED <<now, tables, left, grace>>

Init ==
  /\ SqlInit /\ left \in Budgets /\ sweep = NoSweep
  /\ call = [c \in Calls |-> Rest]
  /\ grace \in Graces

Next ==
  \/ Write
  \/ ((BeginFeed /\ Spend("feed")) \/ (Tick /\ Spend("tick"))) /\ UNCHANGED <<call, grace, sweep>>
  \/ (NextStatement \/ EndFeed) /\ UNCHANGED apiVars
  \/ \E c \in Calls : Request(c) \/ WriteAuditRow(c)
  \/ BeginSweep \/ Sweep \/ SetGrace \/ Crash

Spec == Init /\ [][Next]_vars

-----------------------------------------------------------------------------
(* What the surface promises.                                              *)

\* The audit log tells the truth (write_audit, audit_tool): an acknowledged
\* request has its one row, unless it is a tool that is lax about it, and a row
\* stands for something that was done, whatever write failed or crash came
\* between the two.
AuditTrail ==
  /\ \A c \in Calls : call[c].at = "acked" =>
       LET rows == Cardinality({n \in DOMAIN audit : audit[n].by = c})
       IN  rows = 1 \/ (rows = 0 /\ ~call[c].strict)
  /\ \A n \in DOMAIN audit :
       call[audit[n].by].done /\ call[audit[n].by].action = audit[n].action

\* evict.rs: a sweep takes no row that has been expired for less than the
\* grace it was begun with, though the row may be rewritten and the grace
\* changed while it waits for the writer.
GraceKept ==
  [][sweep.waits /\ ~sweep'.waits =>
       \A k \in Keys : CacheOf[k] # None /\ CacheOf'[k] = None =>
         CacheOf[k].expires + sweep.grace <= now]_vars
=============================================================================

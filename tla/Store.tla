------------------------------- MODULE Store -------------------------------
(***************************************************************************)
(* What every store promises (crates/cauce-core/src/store): each call of   *)
(* the Store trait is one step on plain tables, as the in-memory store     *)
(* takes it under its lock.                                                *)
(*                                                                         *)
(* A text is the set of its terms.  Time is counted in ticks.  A query and *)
(* its cache key are one thing here.  The answers, threads and engine      *)
(* health tables belong to AnswerLoop, AnswerServer and HealthPersist.     *)
(***************************************************************************)
EXTENDS Integers, Sequences, FiniteSets, SequencesExt

CONSTANTS
  Keys, Urls, Terms,
  Payloads,   \* cached responses: [query: a text, results: a set of texts]
  Origins,    \* {"user", "agent"}
  TTLs, Graces,
  Ids,        \* bound: row ids
  EndOfTime,  \* the largest timestamp a row can hold; the clock's bound too
  MaxHits,    \* bound: hits of a cache row
  AuditRows,  \* [by: who asked, action: what was done]
  None

VARIABLES
  now,
  cache,      \* key -> row or None
  pages,      \* URL -> page or None
  searches,   \* id -> row of the search log
  clicks,     \* id -> row
  answerLog,  \* id -> row
  answerIds,  \* ids the answer log has given out
  audit       \* audit rows

storeVars == <<now, cache, pages, searches, clicks, answerLog, answerIds, audit>>

Texts == SUBSET Terms
Times == 0..EndOfTime
CacheRows == [doc : Payloads, created : Times, expires : Times, hits : 0..MaxHits]
PageRows == [text : Texts, fetched : Times]
LogRows == [ts : Times, key : Keys, origin : Origins]

StoreTypeOK ==
  /\ now \in Times
  /\ \A k \in Keys : cache[k] = None \/ cache[k] \in CacheRows
  /\ \A u \in Urls : pages[u] = None \/ pages[u] \in PageRows
  /\ \A t \in {searches, clicks, answerLog} :
       DOMAIN t \subseteq Ids /\ \A i \in DOMAIN t : t[i] \in LogRows
  /\ DOMAIN answerLog \subseteq answerIds /\ answerIds \subseteq Ids

\* calculate_expiry: now + ttl, saturating.
Expiry(ttl) == IF now + ttl > EndOfTime THEN EndOfTime ELSE now + ttl
\* calculate_cutoff: a grace longer than the clock gives an instant before 0.
Cutoff(grace) == now - grace

Insert(table, id, row) == [i \in DOMAIN table \cup {id} |-> IF i = id THEN row ELSE table[i]]
Without(table, ids) == [i \in DOMAIN table \ ids |-> table[i]]

-----------------------------------------------------------------------------
(* The cache and the archive.                                              *)

FreshAt(k, t) == cache[k] # None /\ cache[k].expires > t

GetExact(k) ==
  /\ FreshAt(k, now) /\ cache[k].hits < MaxHits
  /\ cache' = [cache EXCEPT ![k].hits = @ + 1]
  /\ UNCHANGED <<now, pages, searches, clicks, answerLog, answerIds, audit>>

PutCache(k, doc, ttl) ==
  /\ cache' = [cache EXCEPT ![k] =
       [doc |-> doc, created |-> now, expires |-> Expiry(ttl), hits |-> 0]]
  /\ UNCHANGED <<now, pages, searches, clicks, answerLog, answerIds, audit>>

EvictUpTo(cutoff) ==
  /\ cache' = [k \in Keys |->
       IF cache[k] # None /\ cache[k].expires <= cutoff THEN None ELSE cache[k]]
  /\ UNCHANGED <<now, pages, searches, clicks, answerLog, answerIds, audit>>

DeleteCache(ks) ==
  /\ cache' = [k \in Keys |-> IF k \in ks THEN None ELSE cache[k]]
  /\ UNCHANGED <<now, pages, searches, clicks, answerLog, answerIds, audit>>

PutPage(u, text) ==
  /\ pages' = [pages EXCEPT ![u] = [text |-> text, fetched |-> now]]
  /\ UNCHANGED <<now, cache, searches, clicks, answerLog, answerIds, audit>>

DeletePage(u) ==
  /\ pages' = [pages EXCEPT ![u] = None]
  /\ UNCHANGED <<now, cache, searches, clicks, answerLog, answerIds, audit>>

Text(doc) == doc.query \cup UNION doc.results

\* get_lexical: rows whose query and results cover the terms, expired or not.
Lexical(terms) == {k \in Keys : cache[k] # None /\ terms \subseteq Text(cache[k].doc)}

\* search_cache_fts: the results that cover the terms by themselves.
CachedResults(terms) ==
  UNION {{<<k, r>> : r \in {r \in cache[k].doc.results : terms \subseteq r}} :
           k \in {k \in Keys : cache[k] # None}}

SearchPages(terms) == {u \in Urls : pages[u] # None /\ terms \subseteq pages[u].text}

-----------------------------------------------------------------------------
(* The history.                                                            *)

LogSearch(id, row) ==
  /\ id \in Ids \ DOMAIN searches
  /\ searches' = Insert(searches, id, row)
  /\ UNCHANGED <<now, cache, pages, clicks, answerLog, answerIds, audit>>

RecordClick(id, row) ==
  /\ id \in Ids \ DOMAIN clicks
  /\ clicks' = Insert(clicks, id, row)
  /\ UNCHANGED <<now, cache, pages, searches, answerLog, answerIds, audit>>

\* The id is a permalink (/answer/{id}): it is given out once.
LogAnswer(id, row) ==
  /\ id \in Ids \ answerIds
  /\ answerLog' = Insert(answerLog, id, row)
  /\ answerIds' = answerIds \cup {id}
  /\ UNCHANGED <<now, cache, pages, searches, clicks, audit>>

DeleteAnswerLog(id) ==
  /\ answerLog' = Without(answerLog, {id})
  /\ UNCHANGED <<now, cache, pages, searches, clicks, answerIds, audit>>

\* The clicks of a query go with its last row.
DeleteSearchLog(id) ==
  /\ id \in DOMAIN searches
  /\ searches' = Without(searches, {id})
  /\ clicks' = LET key == searches[id].key IN
       IF \E i \in DOMAIN searches \ {id} : searches[i].key = key THEN clicks
       ELSE Without(clicks, {i \in DOMAIN clicks : clicks[i].key = key})
  /\ UNCHANGED <<now, cache, pages, answerLog, answerIds, audit>>

Audit(row) ==
  /\ audit' = Append(audit, row)
  /\ UNCHANGED <<now, cache, pages, searches, clicks, answerLog, answerIds>>

Tick ==
  /\ now < EndOfTime /\ now' = now + 1
  /\ UNCHANGED <<cache, pages, searches, clicks, answerLog, answerIds, audit>>

\* list_history's filter; q and origin may be None.
Filters == [since : Times, q : Keys \cup {None}, origin : Origins \cup {None},
            cached : BOOLEAN, limit : Nat \ {0}]

Kinds == <<"search", "click", "answer">>
Table(kind) == CASE kind = "search" -> searches
                 [] kind = "click"  -> clicks
                 [] kind = "answer" -> answerLog

\* The rows of a kind a filter lets through: q does not hold clicks back, and
\* an answer has no cache row.  A row is cached if its key's row is fresh at t0.
Selected(kind, f, t0) ==
  LET t == Table(kind) IN
  {[kind |-> kind, id |-> i, ts |-> t[i].ts, key |-> t[i].key] :
     i \in {i \in DOMAIN t :
       /\ t[i].ts >= f.since
       /\ f.q = None \/ kind = "click" \/ t[i].key = f.q
       /\ f.origin = None \/ t[i].origin = f.origin
       /\ f.cached => kind # "answer" /\ FreshAt(t[i].key, t0)}}

\* Newest first; of the same instant, the larger id, then the kinds in order.
Newer(a, b) ==
  LET rank(x) == CHOOSE n \in 1..3 : Kinds[n] = x.kind IN
  \/ a.ts > b.ts
  \/ a.ts = b.ts /\ a.id > b.id
  \/ a.ts = b.ts /\ a.id = b.id /\ rank(a) < rank(b)

\* ORDER BY ts DESC, id DESC LIMIT limit: the rows with fewer newer ones.
Latest(rows, limit) == {x \in rows : Cardinality({y \in rows : Newer(y, x)}) < limit}

\* list_history
Feed(f) == Latest(UNION {Selected(Kinds[n], f, now) : n \in 1..3}, f.limit)

\* history_stats: the searches and answers a filter matches, uncut.
Matching(f) == Cardinality(Selected("search", f, now)) + Cardinality(Selected("answer", f, now))

StoreInit ==
  /\ now = 0
  /\ cache = [k \in Keys |-> None] /\ pages = [u \in Urls |-> None]
  /\ searches = <<>> /\ clicks = <<>> /\ answerLog = <<>> /\ answerIds = {}
  /\ audit = <<>>

StoreNext ==
  \/ \E k \in Keys : GetExact(k)
  \/ \E k \in Keys, doc \in Payloads, ttl \in TTLs : PutCache(k, doc, ttl)
  \/ \E cutoff \in 0..now : EvictUpTo(cutoff)
  \/ \E ks \in SUBSET Keys : DeleteCache(ks)
  \/ \E u \in Urls, text \in Texts : PutPage(u, text)
  \/ \E u \in Urls : DeletePage(u)
  \/ \E id \in Ids, row \in LogRows :
       LogSearch(id, row) \/ RecordClick(id, row) \/ LogAnswer(id, row)
  \/ \E id \in Ids : DeleteSearchLog(id) \/ DeleteAnswerLog(id)
  \/ \E row \in AuditRows : Audit(row)
  \/ Tick

StoreSpec == StoreInit /\ [][StoreNext]_storeVars
=============================================================================

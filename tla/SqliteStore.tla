---------------------------- MODULE SqliteStore ----------------------------
(***************************************************************************)
(* The SQLite store (crates/cauce-store-sqlite/src/store, migrations).     *)
(* One writer connection: each write is one statement or transaction, with *)
(* its triggers.  Readers do not wait for it; each SELECT of theirs sees a *)
(* snapshot of its own.  The full-text tables keep no text: triggers add   *)
(* and retract index rows, and a retraction must name what was indexed.    *)
(***************************************************************************)
EXTENDS Integers, Sequences, FiniteSets, SequencesExt

CONSTANTS Keys, Urls, Terms, Payloads, Origins, TTLs, Graces, Ids, EndOfTime, MaxHits,
          AuditRows, None,
          FeedFilters   \* filters a feed may be asked with

VARIABLES
  now,
  entries,    \* cache_entries: rowid -> row
  cacheFts,   \* cache_fts: set of <<rowid, text>>
  pageRows,   \* pages: rowid -> row
  pagesFts,   \* pages_fts: set of <<rowid, text>>
  searchLog, clicks, answerLog,
  answerSeq,  \* sqlite_sequence of answer_log
  audit,
  feed        \* a list_history in progress

tables == <<entries, cacheFts, pageRows, pagesFts, searchLog, clicks, answerLog,
            answerSeq, audit>>
sqlVars == <<now, tables, feed>>

CacheOf == [k \in Keys |->
  LET rs == {r \in DOMAIN entries : entries[r].key = k} IN
  IF rs = {} THEN None
  ELSE LET e == entries[CHOOSE r \in rs : TRUE] IN
       [doc |-> e.doc, created |-> e.created, expires |-> e.expires, hits |-> e.hits]]

PagesOf == [u \in Urls |->
  LET rs == {r \in DOMAIN pageRows : pageRows[r].url = u} IN
  IF rs = {} THEN None
  ELSE LET p == pageRows[CHOOSE r \in rs : TRUE] IN [text |-> p.text, fetched |-> p.fetched]]

\* The tables, read as the promise.
Contract == INSTANCE Store WITH
  cache <- CacheOf, pages <- PagesOf, searches <- searchLog, answerIds <- 1..answerSeq

\* Row ids are 1, 2, ... up to the bound; a row is never None.
ASSUME IdsAssumption == IsFiniteSet(Ids) /\ Ids = 1..Cardinality(Ids)
ASSUME TimesAssumption ==
  EndOfTime \in Nat /\ MaxHits \in Nat /\ TTLs \subseteq Nat /\ Graces \subseteq Nat
ASSUME FiltersAssumption == \A f \in FeedFilters : f.limit \in Nat
ASSUME NoneAssumption == None \notin Contract!CacheRows /\ None \notin Contract!PageRows

Idle == [at |-> 0, filter |-> None, began |-> 0, found |-> {}, known |-> {}]

\* INTEGER PRIMARY KEY and rowid: one more than the largest in the table.
NextRowid(table) ==
  IF DOMAIN table = {} THEN 1 ELSE 1 + CHOOSE m \in DOMAIN table : \A i \in DOMAIN table : i <= m

RowsOf(table, P(_)) == {r \in DOMAIN table : P(table[r])}

-----------------------------------------------------------------------------
(* The cache.                                                              *)

\* What a trigger retracts: the index row as the table's row makes it.
EntryText(e) == Contract!Text(e.doc)
EntryDocs(rowids) == {<<r, EntryText(entries[r])>> : r \in rowids}
PageDocs(rowids) == {<<r, pageRows[r].text>> : r \in rowids}

\* UPDATE ... SET hits RETURNING: no trigger watches that column.
GetExact(k) ==
  \E r \in DOMAIN entries :
    /\ entries[r].key = k /\ entries[r].expires > now /\ entries[r].hits < MaxHits
    /\ entries' = [entries EXCEPT ![r].hits = @ + 1]
    /\ UNCHANGED <<now, cacheFts, pageRows, pagesFts, searchLog, clicks, answerLog,
                   answerSeq, audit>>

\* Mutated UpsertAt: INSERT OR REPLACE, whose delete fires no trigger.
UpsertAtReplace(table, old) == <<NextRowid(table), {}>>

\* ON CONFLICT DO UPDATE keeps the row and fires the update trigger, which
\* retracts its index row.
UpsertAt(table, old) ==
  IF old = {} THEN <<NextRowid(table), {}>> ELSE <<CHOOSE r \in old : TRUE, old>>

PutCache(k, doc, ttl) ==
  LET old == RowsOf(entries, LAMBDA e : e.key = k)
      at  == UpsertAt(entries, old)
      new == [key |-> k, doc |-> doc, created |-> now, expires |-> Contract!Expiry(ttl),
              hits |-> 0]
  IN /\ at[1] \in Ids
     /\ entries' = Contract!Insert(Contract!Without(entries, old), at[1], new)
     /\ cacheFts' = (cacheFts \ EntryDocs(at[2]))
                       \cup {<<at[1], EntryText(new)>>}
     /\ UNCHANGED <<now, pageRows, pagesFts, searchLog, clicks, answerLog, answerSeq, audit>>

\* DELETE FROM cache_entries, and its trigger for each row.
DeleteEntries(rs) ==
  /\ entries' = Contract!Without(entries, rs)
  /\ cacheFts' = cacheFts \ EntryDocs(rs)
  /\ UNCHANGED <<now, pageRows, pagesFts, searchLog, clicks, answerLog, answerSeq, audit>>

Expired(cutoff) == RowsOf(entries, LAMBDA e : e.expires <= cutoff)

\* get_lexical: MATCH, joined to the table by rowid.
SqlLexical(terms) ==
  {entries[x[1]].key : x \in {x \in cacheFts : x[1] \in DOMAIN entries /\ terms \subseteq x[2]}}

\* search_cache_fts: the same candidates, then their results one by one.
SqlCachedResults(terms) ==
  UNION {{<<entries[x[1]].key, r>> :
            r \in {r \in entries[x[1]].doc.results : terms \subseteq r}} :
           x \in {x \in cacheFts : x[1] \in DOMAIN entries /\ terms \subseteq x[2]}}

-----------------------------------------------------------------------------
(* The archive.                                                            *)

PutPage(u, text) ==
  LET old == RowsOf(pageRows, LAMBDA p : p.url = u)
      at  == UpsertAt(pageRows, old)
  IN /\ at[1] \in Ids
     /\ pageRows' = Contract!Insert(Contract!Without(pageRows, old), at[1],
                      [url |-> u, text |-> text, fetched |-> now])
     /\ pagesFts' = (pagesFts \ PageDocs(at[2])) \cup {<<at[1], text>>}
     /\ UNCHANGED <<now, entries, cacheFts, searchLog, clicks, answerLog, answerSeq, audit>>

DeletePages(rs) ==
  /\ pageRows' = Contract!Without(pageRows, rs)
  /\ pagesFts' = pagesFts \ PageDocs(rs)
  /\ UNCHANGED <<now, entries, cacheFts, searchLog, clicks, answerLog, answerSeq, audit>>

SqlSearchPages(terms) ==
  {pageRows[x[1]].url : x \in {x \in pagesFts : x[1] \in DOMAIN pageRows /\ terms \subseteq x[2]}}

-----------------------------------------------------------------------------
(* The history.                                                            *)

\* log_search.  The row's ts was taken before the writer was.
LogSearch(row) ==
  /\ NextRowid(searchLog) \in Ids
  /\ searchLog' = Contract!Insert(searchLog, NextRowid(searchLog), row)
  /\ UNCHANGED <<now, entries, cacheFts, pageRows, pagesFts, clicks, answerLog, answerSeq, audit>>

RecordClick(row) ==
  /\ NextRowid(clicks) \in Ids
  /\ clicks' = Contract!Insert(clicks, NextRowid(clicks), row)
  /\ UNCHANGED <<now, entries, cacheFts, pageRows, pagesFts, searchLog, answerLog, answerSeq, audit>>

\* Mutated NextAnswerId: a plain INTEGER PRIMARY KEY.
NextAnswerIdPlain == NextRowid(answerLog)

\* AUTOINCREMENT: larger than any id the table ever gave.
NextAnswerId == answerSeq + 1

LogAnswer(row) ==
  /\ NextAnswerId \in Ids
  /\ answerLog' = Contract!Insert(answerLog, NextAnswerId, row)
  /\ answerSeq' = NextAnswerId
  /\ UNCHANGED <<now, entries, cacheFts, pageRows, pagesFts, searchLog, clicks, audit>>

DeleteAnswerLog(id) ==
  /\ id \in DOMAIN answerLog
  /\ answerLog' = Contract!Without(answerLog, {id})
  /\ UNCHANGED <<now, entries, cacheFts, pageRows, pagesFts, searchLog, clicks, answerSeq, audit>>

\* One transaction: the row, then the clicks of its key if no row has it left.
DeleteSearchLog(id) ==
  /\ id \in DOMAIN searchLog
  /\ searchLog' = Contract!Without(searchLog, {id})
  /\ clicks' = Contract!Without(clicks,
       {i \in DOMAIN clicks :
          /\ clicks[i].key = searchLog[id].key
          /\ \A j \in DOMAIN searchLog' : searchLog'[j].key # clicks[i].key})
  /\ UNCHANGED <<now, entries, cacheFts, pageRows, pagesFts, answerLog, answerSeq, audit>>

WriteAudit(row) ==
  /\ audit' = Append(audit, row)
  /\ UNCHANGED <<now, entries, cacheFts, pageRows, pagesFts, searchLog, clicks, answerLog, answerSeq>>

Tick ==
  /\ now < EndOfTime /\ now' = now + 1
  /\ UNCHANGED <<tables, feed>>

-----------------------------------------------------------------------------
(* list_history: three SELECTs, each cut at the limit, merged and cut.     *)

\* Mutated FeedOrder: the clicks first.
FeedOrderClicksFirst == <<"click", "search", "answer">>
FeedOrder == <<"search", "click", "answer">>

\* Mutated Statement: ORDER BY id DESC.
StatementById(kind, f, t0) ==
  LET rows == Contract!Selected(kind, f, t0) IN
  {x \in rows : Cardinality({y \in rows : y.id > x.id}) < f.limit}

Statement(kind, f, t0) == Contract!Latest(Contract!Selected(kind, f, t0), f.limit)

Merged(found, limit) == Contract!Latest(found, limit)
SqlFeed(f) == Merged(UNION {Statement(FeedOrder[n], f, now) : n \in 1..3}, f.limit)

\* history_stats: two COUNTs in the one statement, the cached filter as an EXISTS
\* that answers have no part in.
SqlMatching(f) ==
  LET asked(t) == {i \in DOMAIN t : /\ t[i].ts >= f.since
                                    /\ f.q = None \/ t[i].key = f.q
                                    /\ f.origin = None \/ t[i].origin = f.origin}
      cached(i) == \E r \in DOMAIN entries :
                      entries[r].key = searchLog[i].key /\ entries[r].expires > now
  IN Cardinality({i \in asked(searchLog) : f.cached => cached(i)})
       + (IF f.cached THEN 0 ELSE Cardinality(asked(answerLog)))

\* known, for properties only: the queries with a row when the read began.
BeginFeed ==
  /\ feed.at = 0
  /\ \E f \in FeedFilters : feed' =
       [at |-> 1, filter |-> f, began |-> now, found |-> Statement(FeedOrder[1], f, now),
        known |-> {x.key : x \in Contract!Selected("search", f, now)}]
  /\ UNCHANGED <<now, tables>>

NextStatement ==
  /\ feed.at \in {1, 2}
  /\ feed' = [feed EXCEPT !.at = @ + 1,
                !.found = @ \cup Statement(FeedOrder[feed.at + 1], feed.filter, feed.began)]
  /\ UNCHANGED <<now, tables>>

EndFeed ==
  /\ feed.at = 3 /\ feed' = Idle
  /\ UNCHANGED <<now, tables>>

SqlInit ==
  /\ now = 0
  /\ entries = <<>> /\ cacheFts = {} /\ pageRows = <<>> /\ pagesFts = {}
  /\ searchLog = <<>> /\ clicks = <<>> /\ answerLog = <<>> /\ answerSeq = 0
  /\ audit = <<>> /\ feed = Idle

-----------------------------------------------------------------------------
(* What the tables and their indexes promise.                              *)

SqlTypeOK == Contract!StoreTypeOK /\ feed.at \in 0..3

\* migrations/0001, 0004: after any sequence of inserts, upserts and deletes a
\* full-text search finds the rows whose present text has the terms, no ghost
\* of an older text and none lost.
IndexesAgree ==
  \A terms \in SUBSET Terms \ {{}} :
    /\ SqlLexical(terms) = Contract!Lexical(terms)
    /\ SqlCachedResults(terms) = Contract!CachedResults(terms)
    /\ SqlSearchPages(terms) = Contract!SearchPages(terms)

\* Cutting each table at the limit and merging loses no row of the feed, and the
\* count above it is of the rows the same filter matches (list_history,
\* history_stats).
FeedAgrees == \A f \in FeedFilters :
  SqlFeed(f) = Contract!Feed(f) /\ SqlMatching(f) = Contract!Matching(f)

\* store/history.rs:313-316, "the row can never disappear while its clicks stay
\* visible": a feed that shows a click of a query logged when the read began
\* shows the query too, unless it is full; writes may fall between the SELECTs.
ClicksShowTheirQuery ==
  feed.at = 3 =>
    LET shown == Merged(feed.found, feed.filter.limit) IN
    \A c \in shown : c.kind = "click" /\ c.key \in feed.known =>
      \/ \E s \in shown : s.kind = "search" /\ s.key = c.key
      \/ Cardinality(shown) = feed.filter.limit

\* The tables implement the promise.
RefinesStore == Contract!StoreSpec
=============================================================================

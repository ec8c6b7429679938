---------------------------- MODULE StoreProofs ----------------------------
(***************************************************************************)
(* The store, proved for any keys, texts, requests and clock: the SQLite   *)
(* tables implement the plain tables of Store, the full-text indexes hold  *)
(* the rows they index, the audit log tells the truth, and a sweep keeps   *)
(* the grace.                                                              *)
(*                                                                         *)
(* The argument is one invariant of the tables, SqlInv: at most one row    *)
(* for a key or URL, ids that are never given twice, and an index that is  *)
(* exactly the set of its rows' texts, so that a retraction always names   *)
(* what was indexed.                                                       *)
(***************************************************************************)
EXTENDS StoreApi, FiniteSetTheorems, WellFoundedInduction, TLAPS

\* The rows of each table.
EntryRows == [key : Keys, doc : Payloads, created : Contract!Times,
              expires : Contract!Times, hits : 0..MaxHits]
PageTable == [url : Urls, text : Contract!Texts, fetched : Contract!Times]
LogTable(t) == t \in [DOMAIN t -> Contract!LogRows] /\ DOMAIN t \subseteq Ids

EntryTable(t) ==
  /\ t \in [DOMAIN t -> EntryRows] /\ DOMAIN t \subseteq Ids
  /\ \A i, j \in DOMAIN t : t[i].key = t[j].key => i = j
PagesTable(t) ==
  /\ t \in [DOMAIN t -> PageTable] /\ DOMAIN t \subseteq Ids
  /\ \A i, j \in DOMAIN t : t[i].url = t[j].url => i = j

\* What an index holds when it agrees with its table.
EntriesDocs(t, rs) == {<<r, EntryText(t[r])>> : r \in rs}
PagesDocs(t, rs) == {<<r, t[r].text>> : r \in rs}
EntryIndex(t) == EntriesDocs(t, DOMAIN t)
PageIndex(t) == PagesDocs(t, DOMAIN t)

SqlInv ==
  /\ now \in Contract!Times
  /\ EntryTable(entries) /\ cacheFts = EntryIndex(entries)
  /\ PagesTable(pageRows) /\ pagesFts = PageIndex(pageRows)
  /\ LogTable(searchLog) /\ LogTable(clicks) /\ LogTable(answerLog)
  /\ answerSeq \in Nat /\ DOMAIN answerLog \subseteq 1..answerSeq

-----------------------------------------------------------------------------
(* Row ids.                                                                *)

\* The ids are numbers, bounded by how many there are.
LEMMA IdsAreNumbers == \E n \in Nat : Ids = 1..n
<1>1. Cardinality(Ids) \in Nat
  BY IdsAssumption, FS_CardinalityType
<1> QED
  BY <1>1, IdsAssumption

\* The least bound of a table's ids is one of them.
LEMMA LargestId ==
  ASSUME NEW S \in SUBSET Ids, S # {}
  PROVE  \E m \in S : \A i \in S : i <= m
<1>1. PICK n \in Nat : Ids = 1..n
  BY IdsAreNumbers
<1> DEFINE B == {b \in Nat : \A i \in S : i <= b}
<1>2. n \in B
  BY <1>1
<1>3. PICK m \in B : \A b \in B : m <= b
  <2>1. B \subseteq Nat /\ B # {}
    BY <1>2
  <2> HIDE DEF B
  <2>2. PICK m \in B : \A b \in B : <<b, m>> \notin OpToRel(<, Nat)
    BY <2>1, NatLessThanWellFounded, WFMin
  <2>3. \A b \in B : ~(b < m)
    BY <2>1, <2>2 DEF OpToRel
  <2> QED
    BY <2>1, <2>3
<1>4. m \in Nat /\ \A i \in S : i \in Nat \ {0} /\ i <= m
  BY <1>1, <1>3
<1>5. m \in S
  <2> SUFFICES ASSUME m \notin S PROVE FALSE
    OBVIOUS
  <2>1. \A i \in S : i <= m - 1
    BY <1>4
  <2>2. m - 1 \in Nat
    BY <1>4
  <2>3. m - 1 \in B
    BY <2>1, <2>2
  <2> QED
    BY <1>3, <1>4, <2>3
<1> QED
  BY <1>4, <1>5

\* A new row gets an id that no row of the table has.
LEMMA NextRowidFresh ==
  ASSUME NEW t, DOMAIN t \subseteq Ids
  PROVE  NextRowid(t) \in Nat \ {0} /\ NextRowid(t) \notin DOMAIN t
<1>1. PICK n \in Nat : Ids = 1..n
  BY IdsAreNumbers
<1>2. CASE DOMAIN t = {}
  BY <1>2 DEF NextRowid
<1>3. CASE DOMAIN t # {}
  <2> DEFINE m == CHOOSE m \in DOMAIN t : \A i \in DOMAIN t : i <= m
  <2>1. m \in DOMAIN t /\ \A i \in DOMAIN t : i <= m
    BY <1>3, LargestId
  <2>2. NextRowid(t) = 1 + m
    BY <1>3 DEF NextRowid
  <2> HIDE DEF m
  <2> QED
    BY <1>1, <2>1, <2>2
<1> QED
  BY <1>2, <1>3

-----------------------------------------------------------------------------
(* The tables, read as the promise.                                        *)

\* What CacheOf and PagesOf show of a table.
EntryShown(e) == [doc |-> e.doc, created |-> e.created, expires |-> e.expires, hits |-> e.hits]
PageShown(p) == [text |-> p.text, fetched |-> p.fetched]

Entries(t) == [k \in Keys |->
  LET rs == {r \in DOMAIN t : t[r].key = k} IN
  IF rs = {} THEN None ELSE EntryShown(t[CHOOSE r \in rs : TRUE])]
Pages(t) == [u \in Urls |->
  LET rs == {r \in DOMAIN t : t[r].url = u} IN
  IF rs = {} THEN None ELSE PageShown(t[CHOOSE r \in rs : TRUE])]

LEMMA CacheShown == CacheOf = Entries(entries) /\ PagesOf = Pages(pageRows)
  BY DEF CacheOf, PagesOf, Entries, Pages, EntryShown, PageShown

\* A key with a row shows it, one without shows None.
LEMMA EntryOf ==
  ASSUME NEW t, EntryTable(t), NEW k \in Keys
  PROVE  /\ \A r \in DOMAIN t : t[r].key = k =>
              Entries(t)[k] = EntryShown(t[r]) /\ Entries(t)[k] # None
         /\ (\A r \in DOMAIN t : t[r].key # k) => Entries(t)[k] = None
<1>1. ASSUME NEW r \in DOMAIN t, t[r].key = k
      PROVE  Entries(t)[k] = EntryShown(t[r]) /\ Entries(t)[k] # None
  <2>1. {s \in DOMAIN t : t[s].key = k} = {r}
    BY <1>1 DEF EntryTable
  <2>2. (CHOOSE s \in {r} : TRUE) = r
    OBVIOUS
  <2>3. Entries(t)[k] = EntryShown(t[r])
    BY <2>1, <2>2 DEF Entries
  <2>4. EntryShown(t[r]) \in Contract!CacheRows
    BY <1>1 DEF EntryTable, EntryRows, EntryShown, Contract!CacheRows
  <2> QED
    BY <2>3, <2>4, NoneAssumption
<1>2. ASSUME \A r \in DOMAIN t : t[r].key # k PROVE Entries(t)[k] = None
  <2>1. {s \in DOMAIN t : t[s].key = k} = {}
    BY <1>2
  <2> QED
    BY <2>1 DEF Entries
<1> QED
  BY <1>1, <1>2

LEMMA PageOf ==
  ASSUME NEW t, PagesTable(t), NEW u \in Urls
  PROVE  /\ \A r \in DOMAIN t : t[r].url = u =>
              Pages(t)[u] = PageShown(t[r]) /\ Pages(t)[u] # None
         /\ (\A r \in DOMAIN t : t[r].url # u) => Pages(t)[u] = None
<1>1. ASSUME NEW r \in DOMAIN t, t[r].url = u
      PROVE  Pages(t)[u] = PageShown(t[r]) /\ Pages(t)[u] # None
  <2>1. {s \in DOMAIN t : t[s].url = u} = {r}
    BY <1>1 DEF PagesTable
  <2>2. (CHOOSE s \in {r} : TRUE) = r
    OBVIOUS
  <2>3. Pages(t)[u] = PageShown(t[r])
    BY <2>1, <2>2 DEF Pages
  <2>4. PageShown(t[r]) \in Contract!PageRows
    BY <1>1 DEF PagesTable, PageTable, PageShown, Contract!PageRows
  <2> QED
    BY <2>3, <2>4, NoneAssumption
<1>2. ASSUME \A r \in DOMAIN t : t[r].url # u PROVE Pages(t)[u] = None
  <2>1. {s \in DOMAIN t : t[s].url = u} = {}
    BY <1>2
  <2> QED
    BY <2>1 DEF Pages
<1> QED
  BY <1>1, <1>2

-----------------------------------------------------------------------------
(* What a write makes of a table.                                          *)

LEMMA EntriesWithout ==
  ASSUME NEW t, EntryTable(t), NEW rs \in SUBSET DOMAIN t,
         NEW u, u = Contract!Without(t, rs)
  PROVE  /\ EntryTable(u) /\ DOMAIN u = DOMAIN t \ rs
         /\ \A i \in DOMAIN u : u[i] = t[i]
         /\ EntryIndex(u) = EntryIndex(t) \ EntriesDocs(t, rs)
<1>1. DOMAIN u = DOMAIN t \ rs /\ \A i \in DOMAIN u : u[i] = t[i]
  BY DEF Contract!Without
<1>2. u \in [DOMAIN u -> EntryRows]
  BY DEF EntryTable, Contract!Without
<1>3. EntryTable(u)
  BY <1>1, <1>2 DEF EntryTable
<1>4. EntryIndex(u) = EntryIndex(t) \ EntriesDocs(t, rs)
  BY <1>1 DEF EntryIndex, EntriesDocs
<1> QED
  BY <1>1, <1>3, <1>4

LEMMA PagesWithout ==
  ASSUME NEW t, PagesTable(t), NEW rs \in SUBSET DOMAIN t,
         NEW u, u = Contract!Without(t, rs)
  PROVE  /\ PagesTable(u) /\ DOMAIN u = DOMAIN t \ rs
         /\ \A i \in DOMAIN u : u[i] = t[i]
         /\ PageIndex(u) = PageIndex(t) \ PagesDocs(t, rs)
<1>1. DOMAIN u = DOMAIN t \ rs /\ \A i \in DOMAIN u : u[i] = t[i]
  BY DEF Contract!Without
<1>2. u \in [DOMAIN u -> PageTable]
  BY DEF PagesTable, Contract!Without
<1>3. PagesTable(u)
  BY <1>1, <1>2 DEF PagesTable
<1>4. PageIndex(u) = PageIndex(t) \ PagesDocs(t, rs)
  BY <1>1 DEF PageIndex, PagesDocs
<1> QED
  BY <1>1, <1>3, <1>4

\* A row with a key or URL of its own, under an id of its own.
LEMMA EntriesInsert ==
  ASSUME NEW t, EntryTable(t), NEW id \in Ids, id \notin DOMAIN t,
         NEW row \in EntryRows, \A i \in DOMAIN t : t[i].key # row.key,
         NEW u, u = Contract!Insert(t, id, row)
  PROVE  /\ EntryTable(u) /\ DOMAIN u = DOMAIN t \cup {id}
         /\ u[id] = row /\ \A i \in DOMAIN t : u[i] = t[i]
         /\ EntryIndex(u) = EntryIndex(t) \cup {<<id, EntryText(row)>>}
<1>1. /\ DOMAIN u = DOMAIN t \cup {id}
      /\ u[id] = row /\ \A i \in DOMAIN t : u[i] = t[i]
  BY DEF Contract!Insert
<1>2. u \in [DOMAIN u -> EntryRows]
  BY DEF EntryTable, Contract!Insert
<1>3. EntryTable(u)
  BY <1>1, <1>2 DEF EntryTable
<1>4. EntryIndex(u) = EntryIndex(t) \cup {<<id, EntryText(row)>>}
  BY <1>1 DEF EntryIndex, EntriesDocs
<1> QED
  BY <1>1, <1>3, <1>4

LEMMA PagesInsert ==
  ASSUME NEW t, PagesTable(t), NEW id \in Ids, id \notin DOMAIN t,
         NEW row \in PageTable, \A i \in DOMAIN t : t[i].url # row.url,
         NEW u, u = Contract!Insert(t, id, row)
  PROVE  /\ PagesTable(u) /\ DOMAIN u = DOMAIN t \cup {id}
         /\ u[id] = row /\ \A i \in DOMAIN t : u[i] = t[i]
         /\ PageIndex(u) = PageIndex(t) \cup {<<id, row.text>>}
<1>1. /\ DOMAIN u = DOMAIN t \cup {id}
      /\ u[id] = row /\ \A i \in DOMAIN t : u[i] = t[i]
  BY DEF Contract!Insert
<1>2. u \in [DOMAIN u -> PageTable]
  BY DEF PagesTable, Contract!Insert
<1>3. PagesTable(u)
  BY <1>1, <1>2 DEF PagesTable
<1>4. PageIndex(u) = PageIndex(t) \cup {<<id, row.text>>}
  BY <1>1 DEF PageIndex, PagesDocs
<1> QED
  BY <1>1, <1>3, <1>4

LEMMA LogInsert ==
  ASSUME NEW t, LogTable(t), NEW id \in Ids, NEW row \in Contract!LogRows
  PROVE  LogTable(Contract!Insert(t, id, row))
  BY DEF LogTable, Contract!Insert

LEMMA LogWithout ==
  ASSUME NEW t, LogTable(t), NEW ids
  PROVE  LogTable(Contract!Without(t, ids))
  BY DEF LogTable, Contract!Without

-----------------------------------------------------------------------------
(* The cache.  Every write of it keeps the invariant, and is a step of the *)
(* promise.                                                                *)

\* The other tables as they were.
CacheOnly ==
  UNCHANGED <<now, pageRows, pagesFts, searchLog, clicks, answerLog, answerSeq, audit>>
PagesOnly ==
  UNCHANGED <<now, entries, cacheFts, searchLog, clicks, answerLog, answerSeq, audit>>

LEMMA CacheWritten ==
  ASSUME SqlInv, CacheOnly, EntryTable(entries'), cacheFts' = EntryIndex(entries')
  PROVE  SqlInv'
  BY DEF SqlInv, CacheOnly, EntryTable, EntryIndex, LogTable, PagesTable, PageIndex,
         PagesDocs

LEMMA DeleteEntriesEffect ==
  ASSUME SqlInv, NEW rs \in SUBSET DOMAIN entries, DeleteEntries(rs)
  PROVE  /\ SqlInv' /\ CacheOnly
         /\ CacheOf' = [k \in Keys |-> IF \E r \in rs : entries[r].key = k THEN None
                                       ELSE CacheOf[k]]
<1>1. /\ CacheOnly /\ entries' = Contract!Without(entries, rs)
      /\ cacheFts' = cacheFts \ EntryDocs(rs) /\ EntryTable(entries)
  BY DEF DeleteEntries, CacheOnly, SqlInv
<1>2. /\ EntryTable(entries') /\ DOMAIN entries' = DOMAIN entries \ rs
      /\ \A i \in DOMAIN entries' : entries'[i] = entries[i]
      /\ EntryIndex(entries') = EntryIndex(entries) \ EntryDocs(rs)
  <2>1. EntryDocs(rs) = EntriesDocs(entries, rs)
    BY DEF EntryDocs, EntriesDocs
  <2>2. /\ EntryTable(entries') /\ DOMAIN entries' = DOMAIN entries \ rs
        /\ EntryIndex(entries') = EntryIndex(entries) \ EntriesDocs(entries, rs)
    BY <1>1, EntriesWithout
  <2>3. \A i \in DOMAIN entries' : entries'[i] = entries[i]
    BY <1>1 DEF Contract!Without
  <2> QED
    BY <2>1, <2>2, <2>3
<1>3. SqlInv'
  BY <1>1, <1>2, CacheWritten DEF SqlInv
<1>4. ASSUME NEW k \in Keys
      PROVE  Entries(entries')[k] = IF \E r \in rs : entries[r].key = k THEN None
                                    ELSE Entries(entries)[k]
  <2>1. CASE \E r \in rs : entries[r].key = k
    <3>1. \A i \in DOMAIN entries' : entries'[i].key # k
      BY <1>1, <1>2, <2>1 DEF EntryTable
    <3> QED
      BY <1>2, <2>1, <3>1, EntryOf
  <2>2. CASE \A r \in rs : entries[r].key # k
    <3>1. CASE \E i \in DOMAIN entries : entries[i].key = k
      <4>1. PICK i \in DOMAIN entries' : entries[i].key = k /\ entries'[i] = entries[i]
        BY <1>2, <2>2, <3>1
      <4> QED
        BY <1>1, <1>2, <2>2, <4>1, EntryOf
    <3>2. CASE \A i \in DOMAIN entries : entries[i].key # k
      <4>1. \A i \in DOMAIN entries' : entries'[i].key # k
        BY <1>2, <3>2
      <4> QED
        BY <1>1, <1>2, <2>2, <3>2, <4>1, EntryOf
    <3> QED
      BY <3>1, <3>2
  <2> QED
    BY <2>1, <2>2
<1>5. CacheOf = Entries(entries) /\ CacheOf' = Entries(entries')
  BY CacheShown DEF CacheOf, Entries, EntryShown
<1>6. Entries(entries') = [k \in Keys |-> Entries(entries')[k]]
  BY DEF Entries
<1> QED
  BY <1>1, <1>3, <1>4, <1>5, <1>6

LEMMA GetExactEffect ==
  ASSUME SqlInv, NEW k \in Keys, GetExact(k)
  PROVE  /\ SqlInv' /\ CacheOnly /\ Contract!GetExact(k)
<1>1. PICK r \in DOMAIN entries :
        /\ entries[r].key = k /\ entries[r].expires > now /\ entries[r].hits < MaxHits
        /\ entries' = [entries EXCEPT ![r].hits = @ + 1]
  BY DEF GetExact
<1>2. CacheOnly /\ UNCHANGED cacheFts /\ EntryTable(entries)
  BY DEF GetExact, CacheOnly, SqlInv
<1> DEFINE e == [entries[r] EXCEPT !.hits = @ + 1]
<1>3. entries[r] \in EntryRows /\ entries[r].hits \in 0..MaxHits /\ MaxHits \in Nat
  BY <1>2, TimesAssumption DEF EntryTable, EntryRows
<1>4. /\ e \in EntryRows /\ e.key = k /\ e.doc = entries[r].doc
      /\ EntryShown(e) = [EntryShown(entries[r]) EXCEPT !.hits = @ + 1]
  BY <1>1, <1>3 DEF EntryRows, EntryShown
<1>5. entries' = [entries EXCEPT ![r] = e]
  BY <1>1
<1> HIDE DEF e
<1>6. /\ DOMAIN entries' = DOMAIN entries /\ entries'[r] = e
      /\ \A i \in DOMAIN entries \ {r} : entries'[i] = entries[i]
      /\ entries' \in [DOMAIN entries' -> EntryRows]
  BY <1>2, <1>4, <1>5 DEF EntryTable
<1>7. EntryTable(entries')
  BY <1>1, <1>2, <1>4, <1>6 DEF EntryTable
<1>8. EntryIndex(entries') = EntryIndex(entries)
  BY <1>4, <1>6 DEF EntryIndex, EntriesDocs, EntryText
<1>9. SqlInv'
  BY <1>2, <1>7, <1>8, CacheWritten DEF SqlInv
<1>10. /\ Entries(entries)[k] = EntryShown(entries[r]) /\ Entries(entries)[k] # None
       /\ Entries(entries')[k] = EntryShown(e)
  <2>1. r \in DOMAIN entries' /\ entries'[r] = e /\ entries'[r].key = k
    BY <1>1, <1>4, <1>6
  <2>2. Entries(entries')[k] = EntryShown(entries'[r])
    BY <1>7, <2>1, EntryOf
  <2> QED
    BY <1>1, <1>2, <2>1, <2>2, EntryOf
<1>11. ASSUME NEW j \in Keys \ {k} PROVE Entries(entries')[j] = Entries(entries)[j]
  <2>1. CASE \E i \in DOMAIN entries : entries[i].key = j
    <3>1. PICK i \in DOMAIN entries : entries[i].key = j
      BY <2>1
    <3>2. i # r /\ entries'[i] = entries[i] /\ i \in DOMAIN entries'
      BY <1>1, <1>6, <3>1
    <3> QED
      BY <1>2, <1>7, <3>1, <3>2, EntryOf
  <2>2. CASE \A i \in DOMAIN entries : entries[i].key # j
    <3>1. \A i \in DOMAIN entries' : entries'[i].key # j
      BY <1>4, <1>6, <2>2
    <3> QED
      BY <1>2, <1>7, <2>2, <3>1, EntryOf
  <2> QED
    BY <2>1, <2>2
<1>12. CacheOf = Entries(entries) /\ CacheOf' = Entries(entries')
  BY CacheShown DEF CacheOf, Entries, EntryShown
<1>13. /\ CacheOf' = [CacheOf EXCEPT ![k].hits = @ + 1]
       /\ CacheOf[k].expires > now /\ CacheOf[k].hits < MaxHits /\ CacheOf[k] # None
  <2>1. /\ Entries(entries) = [j \in Keys |-> Entries(entries)[j]]
        /\ Entries(entries') = [j \in Keys |-> Entries(entries')[j]]
    BY DEF Entries
  <2>2. EntryShown(entries[r]).expires > now /\ EntryShown(entries[r]).hits < MaxHits
    BY <1>1 DEF EntryShown
  <2> QED
    BY <1>4, <1>10, <1>11, <1>12, <2>1, <2>2
<1> QED
  BY <1>2, <1>9, <1>13 DEF CacheOnly, Contract!GetExact, Contract!FreshAt, PagesOf

\* An upsert either takes a fresh id, and no row of the key goes, or the id of the
\* key's row, which goes with the index row it had.
LEMMA PutCacheEffect ==
  ASSUME SqlInv, NEW k \in Keys, NEW doc \in Payloads, NEW ttl \in TTLs, PutCache(k, doc, ttl)
  PROVE  SqlInv' /\ CacheOnly /\ Contract!PutCache(k, doc, ttl)
<1> DEFINE old == {r \in DOMAIN entries : entries[r].key = k}
           at  == UpsertAt(entries, old)
           new == [key |-> k, doc |-> doc, created |-> now, expires |-> Contract!Expiry(ttl),
                   hits |-> 0]
           base == Contract!Without(entries, old)
<1>1. /\ at[1] \in Ids /\ entries' = Contract!Insert(base, at[1], new)
      /\ cacheFts' = (cacheFts \ EntryDocs(at[2])) \cup {<<at[1], EntryText(new)>>}
      /\ CacheOnly /\ EntryTable(entries)
  BY DEF PutCache, CacheOnly, RowsOf, SqlInv
<1>2. new \in EntryRows /\ new.key = k
  BY TimesAssumption DEF EntryRows, SqlInv, Contract!Times, Contract!Expiry
<1>3. /\ EntryTable(base) /\ DOMAIN base = DOMAIN entries \ old
      /\ EntryIndex(base) = EntryIndex(entries) \ EntriesDocs(entries, old)
  <2>1. old \in SUBSET DOMAIN entries
    OBVIOUS
  <2>2. EntryTable(entries) /\ base = Contract!Without(entries, old)
    BY <1>1
  <2> HIDE DEF old, base
  <2> QED
    BY ONLY ZenonT(30), <2>1, <2>2, EntriesWithout
<1>4. /\ at[1] \notin DOMAIN base
      /\ EntriesDocs(entries, at[2]) = EntriesDocs(entries, old)
  <2>1. CASE old = {}
    <3>1. at[1] = NextRowid(entries) /\ at[2] = {}
      BY <2>1 DEF UpsertAt
    <3>2. DOMAIN entries \subseteq Ids
      BY <1>1 DEF EntryTable
    <3> QED
      BY <1>3, <2>1, <3>1, <3>2, NextRowidFresh
  <2>2. CASE old # {}
    <3>1. at[1] = CHOOSE r \in old : TRUE
      BY <2>2 DEF UpsertAt
    <3>2. at[1] \in old /\ at[2] = old
      BY <2>2, <3>1 DEF UpsertAt
    <3> QED
      BY <1>3, <3>2
  <2> QED
    BY <2>1, <2>2
<1>5. /\ \A i \in DOMAIN base : base[i].key # k /\ base[i] = entries[i]
      /\ \A i \in DOMAIN entries : entries[i].key # k => i \in DOMAIN base
  BY <1>3 DEF Contract!Without
<1>6. EntryDocs(at[2]) = EntriesDocs(entries, at[2])
  BY DEF EntryDocs, EntriesDocs
<1> HIDE DEF old, at, new, base
<1>7. /\ EntryTable(entries') /\ DOMAIN entries' = DOMAIN base \cup {at[1]}
      /\ entries'[at[1]] = new
      /\ EntryIndex(entries') = EntryIndex(base) \cup {<<at[1], EntryText(new)>>}
  BY <1>1, <1>2, <1>3, <1>4, <1>5, EntriesInsert
<1>8. \A i \in DOMAIN base : entries'[i] = entries[i]
  BY <1>1, <1>4, <1>5 DEF Contract!Insert
<1>9. SqlInv'
  <2>1. cacheFts = EntryIndex(entries)
    BY DEF SqlInv
  <2>2. cacheFts' = EntryIndex(entries')
    BY <1>1, <1>3, <1>4, <1>6, <1>7, <2>1
  <2> QED
    BY <1>1, <1>7, <2>2, CacheWritten
<1>10. Entries(entries')[k] = EntryShown(new)
  <2>1. at[1] \in DOMAIN entries' /\ entries'[at[1]].key = k
    BY <1>2, <1>7
  <2> QED
    BY <1>7, <2>1, EntryOf
<1>11. ASSUME NEW j \in Keys \ {k} PROVE Entries(entries')[j] = Entries(entries)[j]
  <2>1. CASE \E i \in DOMAIN entries : entries[i].key = j
    <3>1. PICK i \in DOMAIN entries : entries[i].key = j
      BY <2>1
    <3>2. entries'[i] = entries[i] /\ i \in DOMAIN entries'
      BY <1>5, <1>7, <1>8, <3>1
    <3> QED
      BY <1>1, <1>7, <3>1, <3>2, EntryOf
  <2>2. CASE \A i \in DOMAIN entries : entries[i].key # j
    <3>1. \A i \in DOMAIN entries' : entries'[i].key # j
      BY <1>2, <1>3, <1>7, <1>8, <2>2
    <3> QED
      BY <1>1, <1>7, <2>2, <3>1, EntryOf
  <2> QED
    BY <2>1, <2>2
<1>12. CacheOf = Entries(entries) /\ CacheOf' = Entries(entries')
  BY CacheShown DEF CacheOf, Entries, EntryShown
<1>13. CacheOf' = [CacheOf EXCEPT ![k] =
         [doc |-> doc, created |-> now, expires |-> Contract!Expiry(ttl), hits |-> 0]]
  <2>1. /\ Entries(entries) = [j \in Keys |-> Entries(entries)[j]]
        /\ Entries(entries') = [j \in Keys |-> Entries(entries')[j]]
    BY DEF Entries
  <2>2. EntryShown(new) =
          [doc |-> doc, created |-> now, expires |-> Contract!Expiry(ttl), hits |-> 0]
    BY DEF EntryShown, new
  <2> QED
    BY <1>10, <1>11, <1>12, <2>1, <2>2
<1> QED
  BY <1>1, <1>9, <1>13 DEF CacheOnly, Contract!PutCache, PagesOf

\* The rows that go are those of the keys that show nothing any more.
LEMMA DeleteShows ==
  ASSUME SqlInv, NEW k \in Keys, DeleteEntries(RowsOf(entries, LAMBDA e : e.key = k))
  PROVE  SqlInv' /\ Contract!DeleteCache({k})
<1> DEFINE rs == {r \in DOMAIN entries : entries[r].key = k}
<1>1. rs \in SUBSET DOMAIN entries /\ DeleteEntries(rs)
  BY DEF RowsOf
<1>2. ASSUME NEW j \in Keys PROVE (\E r \in rs : entries[r].key = j) \/ (j = k => CacheOf[j] = None)
  BY EntryOf, CacheShown DEF SqlInv
<1>3. \A j \in Keys : (\E r \in rs : entries[r].key = j) => j = k
  OBVIOUS
<1> HIDE DEF rs
<1>4. /\ SqlInv' /\ CacheOnly
      /\ CacheOf' = [j \in Keys |-> IF \E r \in rs : entries[r].key = j THEN None
                                    ELSE CacheOf[j]]
  BY <1>1, DeleteEntriesEffect
<1>5. CacheOf' = [j \in Keys |-> IF j \in {k} THEN None ELSE CacheOf[j]]
  BY <1>2, <1>3, <1>4
<1> QED
  BY <1>4, <1>5 DEF CacheOnly, Contract!DeleteCache, PagesOf

LEMMA ClearShows ==
  ASSUME SqlInv, DeleteEntries(DOMAIN entries)
  PROVE  SqlInv' /\ Contract!DeleteCache(Keys)
<1>1. ASSUME NEW j \in Keys
      PROVE  (\E r \in DOMAIN entries : entries[r].key = j) \/ CacheOf[j] = None
  BY EntryOf, CacheShown DEF SqlInv
<1>2. /\ SqlInv' /\ CacheOnly
      /\ CacheOf' = [j \in Keys |-> IF \E r \in DOMAIN entries : entries[r].key = j THEN None
                                    ELSE CacheOf[j]]
  BY DeleteEntriesEffect
<1>3. CacheOf' = [j \in Keys |-> IF j \in Keys THEN None ELSE CacheOf[j]]
  BY <1>1, <1>2
<1> QED
  BY <1>2, <1>3 DEF CacheOnly, Contract!DeleteCache, PagesOf

\* A sweep takes exactly the keys whose row had expired by its cutoff.
LEMMA EvictEffect ==
  ASSUME SqlInv, NEW cutoff \in Int, DeleteEntries(Expired(cutoff))
  PROVE  /\ SqlInv' /\ CacheOnly
         /\ CacheOf' = [k \in Keys |-> IF CacheOf[k] # None /\ CacheOf[k].expires <= cutoff
                                       THEN None ELSE CacheOf[k]]
<1> DEFINE rs == {r \in DOMAIN entries : entries[r].expires <= cutoff}
<1>1. rs \in SUBSET DOMAIN entries /\ DeleteEntries(rs)
  BY DEF Expired, RowsOf
<1>2. CacheOf = Entries(entries) /\ EntryTable(entries)
  BY CacheShown DEF SqlInv
<1>3. ASSUME NEW k \in Keys
      PROVE  (\E r \in rs : entries[r].key = k) <=>
               CacheOf[k] # None /\ CacheOf[k].expires <= cutoff
  <2>1. CASE \E r \in DOMAIN entries : entries[r].key = k
    <3>1. PICK r \in DOMAIN entries : entries[r].key = k
      BY <2>1
    <3>2. CacheOf[k] = EntryShown(entries[r]) /\ CacheOf[k] # None
      BY <1>2, <3>1, EntryOf
    <3>3. CacheOf[k].expires = entries[r].expires
      BY <3>2 DEF EntryShown
    <3>4. \A i \in DOMAIN entries : entries[i].key = k => i = r
      BY <1>2, <3>1 DEF EntryTable
    <3> QED
      BY <3>1, <3>2, <3>3, <3>4
  <2>2. CASE \A r \in DOMAIN entries : entries[r].key # k
    BY <1>2, <2>2, EntryOf
  <2> QED
    BY <2>1, <2>2
<1> HIDE DEF rs
<1>4. /\ SqlInv' /\ CacheOnly
      /\ CacheOf' = [j \in Keys |-> IF \E r \in rs : entries[r].key = j THEN None
                                    ELSE CacheOf[j]]
  BY <1>1, DeleteEntriesEffect
<1> QED
  BY <1>3, <1>4

\* A cutoff before the first instant takes no row.
LEMMA EvictShows ==
  ASSUME SqlInv, NEW cutoff \in Int, cutoff <= now, DeleteEntries(Expired(cutoff))
  PROVE  \/ \E c \in 0..now : Contract!EvictUpTo(c)
         \/ UNCHANGED Contract!storeVars
<1>1. /\ CacheOnly
      /\ CacheOf' = [k \in Keys |-> IF CacheOf[k] # None /\ CacheOf[k].expires <= cutoff
                                    THEN None ELSE CacheOf[k]]
  BY EvictEffect
<1>2. now \in Nat
  BY TimesAssumption DEF SqlInv, Contract!Times
<1>3. CASE cutoff >= 0
  <2>1. cutoff \in 0..now
    BY <1>2, <1>3
  <2>2. Contract!EvictUpTo(cutoff)
    BY <1>1 DEF CacheOnly, Contract!EvictUpTo, PagesOf
  <2> QED
    BY <2>1, <2>2
<1>4. CASE cutoff < 0
  <2>1. ASSUME NEW k \in Keys PROVE ~(CacheOf[k] # None /\ CacheOf[k].expires <= cutoff)
    <3>1. CASE \E r \in DOMAIN entries : entries[r].key = k
      <4>1. PICK r \in DOMAIN entries : entries[r].key = k
        BY <3>1
      <4>2. CacheOf[k] = EntryShown(entries[r])
        BY <4>1, EntryOf, CacheShown DEF SqlInv
      <4>3. entries[r].expires \in Nat
        BY <4>1 DEF SqlInv, EntryTable, EntryRows, Contract!Times
      <4>4. CacheOf[k].expires \in Nat
        BY <4>2, <4>3 DEF EntryShown
      <4> QED
        BY <1>4, <4>4
    <3>2. CASE \A r \in DOMAIN entries : entries[r].key # k
      BY <3>2, EntryOf, CacheShown DEF SqlInv
    <3> QED
      BY <3>1, <3>2
  <2>2. CacheOf = [k \in Keys |-> CacheOf[k]]
    BY DEF CacheOf
  <2>3. CacheOf' = CacheOf
    BY <1>1, <2>1, <2>2
  <2> QED
    BY <1>1, <2>3 DEF CacheOnly, Contract!storeVars, PagesOf
<1> QED
  BY <1>3, <1>4

-----------------------------------------------------------------------------
(* The archive, in the same way.                                           *)

LEMMA PagesWritten ==
  ASSUME SqlInv, PagesOnly, PagesTable(pageRows'), pagesFts' = PageIndex(pageRows')
  PROVE  SqlInv'
  BY DEF SqlInv, PagesOnly, PagesTable, PageIndex, EntryTable, EntryIndex, EntriesDocs, EntryText,
         LogTable

LEMMA PutPageEffect ==
  ASSUME SqlInv, NEW u \in Urls, NEW text \in Contract!Texts, PutPage(u, text)
  PROVE  SqlInv' /\ PagesOnly /\ Contract!PutPage(u, text)
<1> DEFINE old == {r \in DOMAIN pageRows : pageRows[r].url = u}
           at  == UpsertAt(pageRows, old)
           new == [url |-> u, text |-> text, fetched |-> now]
           base == Contract!Without(pageRows, old)
<1>1. /\ at[1] \in Ids /\ pageRows' = Contract!Insert(base, at[1], new)
      /\ pagesFts' = (pagesFts \ PageDocs(at[2])) \cup {<<at[1], text>>}
      /\ PagesOnly /\ PagesTable(pageRows)
  BY DEF PutPage, PagesOnly, RowsOf, SqlInv
<1>2. new \in PageTable /\ new.url = u /\ new.text = text
  BY DEF PageTable, SqlInv
<1>3. /\ PagesTable(base) /\ DOMAIN base = DOMAIN pageRows \ old
      /\ PageIndex(base) = PageIndex(pageRows) \ PagesDocs(pageRows, old)
  <2>1. old \in SUBSET DOMAIN pageRows
    OBVIOUS
  <2> HIDE DEF old
  <2> QED
    BY <1>1, <2>1, PagesWithout
<1>4. /\ at[1] \notin DOMAIN base
      /\ PagesDocs(pageRows, at[2]) = PagesDocs(pageRows, old)
  <2>1. CASE old = {}
    <3>1. at[1] = NextRowid(pageRows) /\ at[2] = {}
      BY <2>1 DEF UpsertAt
    <3>2. DOMAIN pageRows \subseteq Ids
      BY <1>1 DEF PagesTable
    <3> QED
      BY <1>3, <2>1, <3>1, <3>2, NextRowidFresh
  <2>2. CASE old # {}
    <3>1. at[1] = CHOOSE r \in old : TRUE
      BY <2>2 DEF UpsertAt
    <3>2. at[1] \in old /\ at[2] = old
      BY <2>2, <3>1 DEF UpsertAt
    <3> QED
      BY <1>3, <3>2
  <2> QED
    BY <2>1, <2>2
<1>5. /\ \A i \in DOMAIN base : base[i].url # u /\ base[i] = pageRows[i]
      /\ \A i \in DOMAIN pageRows : pageRows[i].url # u => i \in DOMAIN base
  BY <1>3 DEF Contract!Without
<1>6. PageDocs(at[2]) = PagesDocs(pageRows, at[2])
  BY DEF PageDocs, PagesDocs
<1> HIDE DEF old, at, new, base
<1>7. /\ PagesTable(pageRows') /\ DOMAIN pageRows' = DOMAIN base \cup {at[1]}
      /\ pageRows'[at[1]] = new
      /\ PageIndex(pageRows') = PageIndex(base) \cup {<<at[1], text>>}
  <2>1. /\ PagesTable(pageRows') /\ DOMAIN pageRows' = DOMAIN base \cup {at[1]}
        /\ PageIndex(pageRows') = PageIndex(base) \cup {<<at[1], new.text>>}
    <3>1. \A i \in DOMAIN base : base[i].url # new.url
      BY <1>2, <1>5
    <3>2. PagesTable(pageRows')
      BY <1>1, <1>2, <1>3, <1>4, <3>1, PagesInsert
    <3>3. DOMAIN pageRows' = DOMAIN base \cup {at[1]}
      BY <1>1 DEF Contract!Insert
    <3>4. pageRows'[at[1]] = new /\ \A i \in DOMAIN base : pageRows'[i] = base[i]
      BY <1>1, <1>4 DEF Contract!Insert
    <3>5. PageIndex(pageRows') = PageIndex(base) \cup {<<at[1], new.text>>}
      BY <3>3, <3>4 DEF PageIndex, PagesDocs
    <3> QED
      BY <3>2, <3>3, <3>5
  <2>2. pageRows'[at[1]] = new
    BY <1>1 DEF Contract!Insert
  <2> QED
    BY <1>2, <2>1, <2>2
<1>8. \A i \in DOMAIN base : pageRows'[i] = pageRows[i]
  BY <1>1, <1>4, <1>5 DEF Contract!Insert
<1>9. SqlInv'
  <2>1. pagesFts = PageIndex(pageRows)
    BY DEF SqlInv
  <2>2. pagesFts' = PageIndex(pageRows')
    BY <1>1, <1>3, <1>4, <1>6, <1>7, <2>1
  <2> QED
    BY <1>1, <1>7, <2>2, PagesWritten
<1>10. Pages(pageRows')[u] = PageShown(new)
  <2>1. at[1] \in DOMAIN pageRows' /\ pageRows'[at[1]].url = u
    BY <1>2, <1>7
  <2> QED
    BY <1>7, <2>1, PageOf
<1>11. ASSUME NEW v \in Urls \ {u} PROVE Pages(pageRows')[v] = Pages(pageRows)[v]
  <2>1. CASE \E i \in DOMAIN pageRows : pageRows[i].url = v
    <3>1. PICK i \in DOMAIN pageRows : pageRows[i].url = v
      BY <2>1
    <3>2. pageRows'[i] = pageRows[i] /\ i \in DOMAIN pageRows'
      BY <1>5, <1>7, <1>8, <3>1
    <3> QED
      BY <1>1, <1>7, <3>1, <3>2, PageOf
  <2>2. CASE \A i \in DOMAIN pageRows : pageRows[i].url # v
    <3>1. \A i \in DOMAIN pageRows' : pageRows'[i].url # v
      BY <1>2, <1>3, <1>7, <1>8, <2>2
    <3> QED
      BY <1>1, <1>7, <2>2, <3>1, PageOf
  <2> QED
    BY <2>1, <2>2
<1>12. PagesOf = Pages(pageRows) /\ PagesOf' = Pages(pageRows')
  BY CacheShown DEF PagesOf, Pages, PageShown
<1>13. PagesOf' = [PagesOf EXCEPT ![u] = [text |-> text, fetched |-> now]]
  <2>1. /\ Pages(pageRows) = [v \in Urls |-> Pages(pageRows)[v]]
        /\ Pages(pageRows') = [v \in Urls |-> Pages(pageRows')[v]]
    BY DEF Pages
  <2>2. PageShown(new) = [text |-> text, fetched |-> now]
    BY DEF PageShown, new
  <2> QED
    BY <1>10, <1>11, <1>12, <2>1, <2>2
<1> QED
  BY <1>1, <1>9, <1>13 DEF PagesOnly, Contract!PutPage, CacheOf

LEMMA DeletePagesShows ==
  ASSUME SqlInv, NEW u \in Urls, DeletePages(RowsOf(pageRows, LAMBDA p : p.url = u))
  PROVE  SqlInv' /\ PagesOnly /\ Contract!DeletePage(u)
<1> DEFINE rs == {r \in DOMAIN pageRows : pageRows[r].url = u}
<1>1. /\ PagesOnly /\ pageRows' = Contract!Without(pageRows, rs)
      /\ pagesFts' = pagesFts \ PagesDocs(pageRows, rs) /\ PagesTable(pageRows)
  BY DEF DeletePages, PagesOnly, PageDocs, PagesDocs, RowsOf, SqlInv
<1>2. rs \in SUBSET DOMAIN pageRows
  OBVIOUS
<1>3. \A i \in DOMAIN pageRows : i \in rs <=> pageRows[i].url = u
  OBVIOUS
<1> HIDE DEF rs
<1>4. /\ PagesTable(pageRows') /\ DOMAIN pageRows' = DOMAIN pageRows \ rs
      /\ PageIndex(pageRows') = PageIndex(pageRows) \ PagesDocs(pageRows, rs)
  <2>1. PagesTable(pageRows) /\ pageRows' = Contract!Without(pageRows, rs)
    BY <1>1
  <2> QED
    BY ONLY ZenonT(30), <1>2, <2>1, PagesWithout
<1>5. \A i \in DOMAIN pageRows' : pageRows'[i] = pageRows[i]
  BY <1>1, <1>4 DEF Contract!Without
<1>6. SqlInv'
  BY <1>1, <1>4, PagesWritten DEF SqlInv
<1>7. Pages(pageRows')[u] = None
  <2>1. \A i \in DOMAIN pageRows' : pageRows'[i].url # u
    BY <1>3, <1>4, <1>5
  <2> QED
    BY <1>4, <2>1, PageOf
<1>8. ASSUME NEW v \in Urls \ {u} PROVE Pages(pageRows')[v] = Pages(pageRows)[v]
  <2>1. CASE \E i \in DOMAIN pageRows : pageRows[i].url = v
    <3>1. PICK i \in DOMAIN pageRows : pageRows[i].url = v
      BY <2>1
    <3>2. pageRows'[i] = pageRows[i] /\ i \in DOMAIN pageRows'
      BY <1>3, <1>4, <1>5, <3>1
    <3> QED
      BY <1>1, <1>4, <3>1, <3>2, PageOf
  <2>2. CASE \A i \in DOMAIN pageRows : pageRows[i].url # v
    <3>1. \A i \in DOMAIN pageRows' : pageRows'[i].url # v
      BY <1>4, <1>5, <2>2
    <3> QED
      BY <1>1, <1>4, <2>2, <3>1, PageOf
  <2> QED
    BY <2>1, <2>2
<1>9. PagesOf = Pages(pageRows) /\ PagesOf' = Pages(pageRows')
  BY CacheShown DEF PagesOf, Pages, PageShown
<1>10. PagesOf' = [PagesOf EXCEPT ![u] = None]
  <2>1. /\ Pages(pageRows) = [v \in Urls |-> Pages(pageRows)[v]]
        /\ Pages(pageRows') = [v \in Urls |-> Pages(pageRows')[v]]
    BY DEF Pages
  <2> QED
    BY <1>7, <1>8, <1>9, <2>1
<1> QED
  BY <1>1, <1>6, <1>10 DEF PagesOnly, Contract!DeletePage, CacheOf

-----------------------------------------------------------------------------
(* The history.                                                            *)

LEMMA LogSearchEffect ==
  ASSUME SqlInv, NEW row \in Contract!LogRows, LogSearch(row)
  PROVE  SqlInv' /\ \E id \in Ids : Contract!LogSearch(id, row)
<1> DEFINE id == NextRowid(searchLog)
<1>1. /\ id \in Ids /\ searchLog' = Contract!Insert(searchLog, id, row)
      /\ UNCHANGED <<now, entries, cacheFts, pageRows, pagesFts, clicks, answerLog,
                     answerSeq, audit>>
  BY DEF LogSearch
<1>2. id \notin DOMAIN searchLog
  BY NextRowidFresh DEF SqlInv, LogTable
<1>3. LogTable(searchLog')
  BY <1>1, LogInsert DEF SqlInv
<1>4. SqlInv'
  BY <1>1, <1>3 DEF SqlInv
<1>5. UNCHANGED <<CacheOf, PagesOf>>
  BY <1>1 DEF CacheOf, PagesOf
<1> QED
  BY <1>1, <1>2, <1>4, <1>5 DEF Contract!LogSearch

LEMMA RecordClickEffect ==
  ASSUME SqlInv, NEW row \in Contract!LogRows, RecordClick(row)
  PROVE  SqlInv' /\ \E id \in Ids : Contract!RecordClick(id, row)
<1> DEFINE id == NextRowid(clicks)
<1>1. /\ id \in Ids /\ clicks' = Contract!Insert(clicks, id, row)
      /\ UNCHANGED <<now, entries, cacheFts, pageRows, pagesFts, searchLog, answerLog,
                     answerSeq, audit>>
  BY DEF RecordClick
<1>2. id \notin DOMAIN clicks
  BY NextRowidFresh DEF SqlInv, LogTable
<1>3. LogTable(clicks')
  BY <1>1, LogInsert DEF SqlInv
<1>4. SqlInv'
  BY <1>1, <1>3 DEF SqlInv
<1>5. UNCHANGED <<CacheOf, PagesOf>>
  BY <1>1 DEF CacheOf, PagesOf
<1> QED
  BY <1>1, <1>2, <1>4, <1>5 DEF Contract!RecordClick

\* AUTOINCREMENT: an id below the sequence is never given again, deleted or not.
LEMMA LogAnswerEffect ==
  ASSUME SqlInv, NEW row \in Contract!LogRows, LogAnswer(row)
  PROVE  SqlInv' /\ \E id \in Ids : Contract!LogAnswer(id, row)
<1> DEFINE id == answerSeq + 1
<1>1. /\ id \in Ids /\ answerLog' = Contract!Insert(answerLog, id, row) /\ answerSeq' = id
      /\ UNCHANGED <<now, entries, cacheFts, pageRows, pagesFts, searchLog, clicks, audit>>
  BY DEF LogAnswer, NextAnswerId
<1>2. answerSeq \in Nat /\ DOMAIN answerLog \subseteq 1..answerSeq
  BY DEF SqlInv
<1>3. id \notin 1..answerSeq /\ 1..answerSeq' = (1..answerSeq) \cup {id}
  BY <1>1, <1>2
<1>4. LogTable(answerLog') /\ DOMAIN answerLog' = DOMAIN answerLog \cup {id}
  <2>1. LogTable(answerLog')
    BY <1>1, LogInsert DEF SqlInv
  <2> QED
    BY <1>1, <2>1 DEF Contract!Insert
<1>5. DOMAIN answerLog' \subseteq 1..answerSeq' /\ answerSeq' \in Nat
  BY <1>1, <1>2, <1>3, <1>4
<1>6. SqlInv'
  BY <1>1, <1>4, <1>5 DEF SqlInv, EntryTable, PagesTable, EntryIndex, PageIndex, EntriesDocs,
                          PagesDocs, EntryText, Contract!Text, LogTable
<1>7. UNCHANGED <<CacheOf, PagesOf>>
  BY <1>1 DEF CacheOf, PagesOf
<1> QED
  BY <1>1, <1>3, <1>6, <1>7 DEF Contract!LogAnswer

LEMMA DeleteAnswerLogEffect ==
  ASSUME SqlInv, NEW id \in Ids, DeleteAnswerLog(id)
  PROVE  SqlInv' /\ Contract!DeleteAnswerLog(id)
<1>1. /\ answerLog' = Contract!Without(answerLog, {id})
      /\ UNCHANGED <<now, entries, cacheFts, pageRows, pagesFts, searchLog, clicks,
                     answerSeq, audit>>
  BY DEF DeleteAnswerLog
<1>2. LogTable(answerLog') /\ DOMAIN answerLog' \subseteq DOMAIN answerLog
  <2>1. LogTable(answerLog')
    BY <1>1, LogWithout DEF SqlInv
  <2> QED
    BY <1>1, <2>1 DEF Contract!Without
<1>3. SqlInv'
  BY <1>1, <1>2 DEF SqlInv
<1>4. UNCHANGED <<CacheOf, PagesOf>>
  BY <1>1 DEF CacheOf, PagesOf
<1> QED
  BY <1>1, <1>3, <1>4 DEF Contract!DeleteAnswerLog

\* The transaction asks, after its first delete, for the clicks no row is left
\* for; the promise asks before it whether another row has the key.
LEMMA DeleteSearchLogEffect ==
  ASSUME SqlInv, NEW id \in Ids, DeleteSearchLog(id)
  PROVE  SqlInv' /\ Contract!DeleteSearchLog(id)
<1> DEFINE key  == searchLog[id].key
           gone == {i \in DOMAIN clicks :
                     /\ clicks[i].key = key
                     /\ \A j \in DOMAIN searchLog' : searchLog'[j].key # clicks[i].key}
<1>1. /\ id \in DOMAIN searchLog /\ searchLog' = Contract!Without(searchLog, {id})
      /\ clicks' = Contract!Without(clicks, gone)
      /\ UNCHANGED <<now, entries, cacheFts, pageRows, pagesFts, answerLog, answerSeq, audit>>
  BY DEF DeleteSearchLog
<1>2. LogTable(searchLog') /\ LogTable(clicks')
  BY <1>1, LogWithout DEF SqlInv
<1>3. SqlInv'
  BY <1>1, <1>2 DEF SqlInv
<1>4. UNCHANGED <<CacheOf, PagesOf>>
  BY <1>1 DEF CacheOf, PagesOf
<1>5. /\ DOMAIN searchLog' = DOMAIN searchLog \ {id}
      /\ \A i \in DOMAIN searchLog' : searchLog'[i] = searchLog[i]
  BY <1>1 DEF Contract!Without
<1>6. clicks' = IF \E i \in DOMAIN searchLog \ {id} : searchLog[i].key = key THEN clicks
                ELSE Contract!Without(clicks, {i \in DOMAIN clicks : clicks[i].key = key})
  <2>1. CASE \E i \in DOMAIN searchLog \ {id} : searchLog[i].key = key
    <3>1. gone = {}
      BY <1>5, <2>1
    <3> HIDE DEF gone
    <3>2. clicks \in [DOMAIN clicks -> Contract!LogRows]
      BY DEF SqlInv, LogTable
    <3>3. Contract!Without(clicks, {}) = clicks
      BY <3>2 DEF Contract!Without
    <3> QED
      BY <1>1, <2>1, <3>1, <3>3
  <2>2. CASE ~\E i \in DOMAIN searchLog \ {id} : searchLog[i].key = key
    <3>1. gone = {i \in DOMAIN clicks : clicks[i].key = key}
      BY <1>5, <2>2
    <3> HIDE DEF gone
    <3> QED
      BY <1>1, <2>2, <3>1
  <2> QED
    BY <2>1, <2>2
<1> QED
  BY <1>1, <1>3, <1>4, <1>6 DEF Contract!DeleteSearchLog

\* What touches neither table nor index.
LEMMA TablesUnchanged ==
  ASSUME SqlInv, UNCHANGED <<entries, cacheFts, pageRows, pagesFts, searchLog, clicks,
                             answerLog, answerSeq>>, now' \in Contract!Times
  PROVE  SqlInv' /\ UNCHANGED <<CacheOf, PagesOf>>
<1>1. SqlInv'
  BY DEF SqlInv, EntryTable, PagesTable, EntryIndex, PageIndex, EntriesDocs, PagesDocs,
         EntryText, Contract!Text, LogTable
<1>2. UNCHANGED <<CacheOf, PagesOf>>
  BY DEF CacheOf, PagesOf
<1> QED
  BY <1>1, <1>2

-----------------------------------------------------------------------------
(* The indexes.                                                            *)

\* What the tables' invariant says of a full-text search.
LEMMA IndexesShow == SqlInv => IndexesAgree
<1> SUFFICES ASSUME SqlInv, NEW terms \in SUBSET Terms \ {{}}
             PROVE  /\ SqlLexical(terms) = Contract!Lexical(terms)
                    /\ SqlCachedResults(terms) = Contract!CachedResults(terms)
                    /\ SqlSearchPages(terms) = Contract!SearchPages(terms)
  BY DEF IndexesAgree
<1>1. /\ CacheOf = Entries(entries) /\ EntryTable(entries)
      /\ PagesOf = Pages(pageRows) /\ PagesTable(pageRows)
  BY CacheShown DEF SqlInv
<1>2. ASSUME NEW r \in DOMAIN entries
      PROVE  LET k == entries[r].key IN
             k \in Keys /\ CacheOf[k] # None /\ CacheOf[k].doc = entries[r].doc
  <2>1. entries[r].key \in Keys
    BY <1>1 DEF EntryTable, EntryRows
  <2>2. CacheOf[entries[r].key] # None /\ CacheOf[entries[r].key] = EntryShown(entries[r])
    BY <1>1, <2>1, EntryOf
  <2> QED
    BY <2>1, <2>2 DEF EntryShown
<1>3. ASSUME NEW k \in Keys, CacheOf[k] # None
      PROVE  \E r \in DOMAIN entries : entries[r].key = k
  BY <1>1, <1>3, EntryOf
<1>4. ASSUME NEW r \in DOMAIN pageRows
      PROVE  LET u == pageRows[r].url IN
             u \in Urls /\ PagesOf[u] # None /\ PagesOf[u].text = pageRows[r].text
  <2>1. pageRows[r].url \in Urls
    BY <1>1 DEF PagesTable, PageTable
  <2>2. PagesOf[pageRows[r].url] # None /\ PagesOf[pageRows[r].url] = PageShown(pageRows[r])
    BY <1>1, <2>1, PageOf
  <2> QED
    BY <2>1, <2>2 DEF PageShown
<1>5. ASSUME NEW u \in Urls, PagesOf[u] # None
      PROVE  \E r \in DOMAIN pageRows : pageRows[r].url = u
  BY <1>1, <1>5, PageOf
<1> DEFINE hits == {x \in cacheFts : x[1] \in DOMAIN entries /\ terms \subseteq x[2]}
           rows == {r \in DOMAIN entries : terms \subseteq EntryText(entries[r])}
<1>6. /\ \A x \in hits : x[1] \in rows
      /\ \A r \in rows : \E x \in hits : x[1] = r
  <2>1. cacheFts = {<<r, EntryText(entries[r])>> : r \in DOMAIN entries}
    BY DEF SqlInv, EntryIndex, EntriesDocs
  <2>2. ASSUME NEW x \in hits PROVE x[1] \in rows
    <3>1. PICK r \in DOMAIN entries : x = <<r, EntryText(entries[r])>>
      BY <2>1
    <3>2. x[1] = r /\ x[2] = EntryText(entries[r])
      BY <3>1
    <3> QED
      BY <3>2
  <2>3. ASSUME NEW r \in rows PROVE \E x \in hits : x[1] = r
    <3> DEFINE x == <<r, EntryText(entries[r])>>
    <3>1. x \in cacheFts /\ x[1] = r /\ x[2] = EntryText(entries[r])
      BY <2>1
    <3> HIDE DEF x
    <3> QED
      BY <3>1
  <2> QED
    BY <2>2, <2>3
<1>7. SqlLexical(terms) = Contract!Lexical(terms)
  <2>1. SqlLexical(terms) = {entries[x[1]].key : x \in hits}
    BY DEF SqlLexical
  <2>2. {entries[x[1]].key : x \in hits} = {entries[r].key : r \in rows}
    <3> HIDE DEF hits, rows
    <3> QED
      BY <1>6
  <2>3. {entries[r].key : r \in rows} = Contract!Lexical(terms)
    BY <1>2, <1>3 DEF Contract!Lexical, EntryText
  <2> QED
    BY <2>1, <2>2, <2>3
<1>8. SqlSearchPages(terms) = Contract!SearchPages(terms)
  <2> DEFINE found == {x \in pagesFts : x[1] \in DOMAIN pageRows /\ terms \subseteq x[2]}
             having == {r \in DOMAIN pageRows : terms \subseteq pageRows[r].text}
  <2>1. pagesFts = {<<r, pageRows[r].text>> : r \in DOMAIN pageRows}
    BY DEF SqlInv, PageIndex, PagesDocs
  <2>2. ASSUME NEW x \in found PROVE x[1] \in having
    <3>1. PICK r \in DOMAIN pageRows : x = <<r, pageRows[r].text>>
      BY <2>1
    <3>2. x[1] = r /\ x[2] = pageRows[r].text
      BY <3>1
    <3> QED
      BY <3>2
  <2>3. ASSUME NEW r \in having PROVE \E x \in found : x[1] = r
    <3> DEFINE x == <<r, pageRows[r].text>>
    <3>1. x \in pagesFts /\ x[1] = r /\ x[2] = pageRows[r].text
      BY <2>1
    <3> HIDE DEF x
    <3> QED
      BY <3>1
  <2>4. SqlSearchPages(terms) = {pageRows[x[1]].url : x \in found}
    BY DEF SqlSearchPages
  <2>5. {pageRows[x[1]].url : x \in found} = {pageRows[r].url : r \in having}
    <3> HIDE DEF found, having
    <3> QED
      BY <2>2, <2>3
  <2>6. {pageRows[r].url : r \in having} = Contract!SearchPages(terms)
    BY <1>4, <1>5 DEF Contract!SearchPages
  <2> QED
    BY <2>4, <2>5, <2>6
<1>9. SqlCachedResults(terms) = Contract!CachedResults(terms)
  <2> DEFINE Found(r) == {x \in entries[r].doc.results : terms \subseteq x}
             Result(r) == {<<entries[r].key, x>> : x \in Found(r)}
  <2>1. SqlCachedResults(terms) = UNION {Result(x[1]) : x \in hits}
    BY DEF SqlCachedResults
  <2>2. UNION {Result(x[1]) : x \in hits} = UNION {Result(r) : r \in rows}
    <3> HIDE DEF hits, rows, Result
    <3> QED
      BY <1>6
  <2>3. \A r \in DOMAIN entries : \A x \in Found(r) : r \in rows
    BY DEF EntryText, Contract!Text
  <2>4. \A y : y \in UNION {Result(r) : r \in rows} <=>
                \E r \in DOMAIN entries : \E x \in Found(r) : y = <<entries[r].key, x>>
    BY <2>3
  <2>5. \A y : y \in Contract!CachedResults(terms) <=>
                \E r \in DOMAIN entries : \E x \in Found(r) : y = <<entries[r].key, x>>
    BY <1>2, <1>3 DEF Contract!CachedResults
  <2> QED
    BY <2>1, <2>2, <2>4, <2>5
<1> QED
  BY <1>7, <1>8, <1>9

-----------------------------------------------------------------------------
(* The store at work.                                                      *)

Stages == {"idle", "audit", "acked", "failed"}
AuditTable == [by : Calls, action : AuditActions]
CallRecords == [at : Stages, action : AuditActions \cup {None}, done : BOOLEAN, strict : BOOLEAN]

\* A request has at most one audit row, only once it is acknowledged, and the
\* row says what the request did.
CallInv ==
  /\ call \in [Calls -> CallRecords] /\ audit \in Seq(AuditTable)
  /\ \A c \in Calls : call[c].at = "audit" => call[c].done /\ call[c].action \in AuditActions
  /\ \A n \in DOMAIN audit : LET c == audit[n].by IN
       call[c].at = "acked" /\ call[c].done /\ call[c].action = audit[n].action
  /\ \A m, n \in DOMAIN audit : audit[m].by = audit[n].by => m = n
  /\ \A c \in Calls : call[c].at = "acked" =>
       ~call[c].strict \/ \E n \in DOMAIN audit : audit[n].by = c

\* A sweep that waits has a cutoff its grace behind a clock that has only run on.
SweepInv ==
  /\ grace \in Graces
  /\ sweep.waits => /\ sweep.grace \in Nat /\ sweep.cutoff \in Int
                    /\ sweep.cutoff + sweep.grace <= now

IInv == SqlInv /\ CallInv /\ SweepInv

\* A step of the promise, or none.
Shows == Contract!StoreNext \/ UNCHANGED Contract!storeVars

\* A request's answer, as the tables and the request see it.
Served(c) ==
  /\ SqlInv' /\ Shows /\ UNCHANGED <<now, audit, grace, sweep>>
  /\ \E action \in AuditActions : \E done, strict \in BOOLEAN :
       call' = [call EXCEPT ![c] =
         IF done THEN [at |-> "audit", action |-> action, done |-> TRUE, strict |-> strict]
         ELSE [Rest EXCEPT !.at = "failed"]]

\* A request has been served when its store call was and its answer is known.
LEMMA ServedBy ==
  ASSUME NEW c \in Calls, NEW action \in AuditActions, NEW done \in BOOLEAN,
         NEW strict \in BOOLEAN, Answered(c, action, done, strict),
         SqlInv', Shows, UNCHANGED <<now, audit>>
  PROVE  Served(c)
<1> QED
  BY DEF Answered, Served

\* Nothing was found, or nothing is written.
LEMMA NothingWritten ==
  ASSUME SqlInv, UNCHANGED <<now, tables>>
  PROVE  SqlInv' /\ Shows /\ UNCHANGED <<now, audit>>
<1>1. UNCHANGED <<now, entries, cacheFts, pageRows, pagesFts, searchLog, clicks, answerLog,
                  answerSeq, audit>>
  BY DEF tables
<1>2. SqlInv' /\ UNCHANGED <<CacheOf, PagesOf>>
  BY <1>1, TablesUnchanged DEF SqlInv
<1> QED
  BY <1>1, <1>2 DEF Shows, Contract!storeVars

\* The rows the search path logs were stamped by the store's own clock.
LEMMA Stamped ==
  ASSUME SqlInv, NEW row \in [ts : 0..now, key : Keys, origin : Origins]
  PROVE  row \in Contract!LogRows
  BY TimesAssumption DEF SqlInv, Contract!Times, Contract!LogRows

LEMMA WriteShows ==
  ASSUME SqlInv, Write
  PROVE  SqlInv' /\ Shows /\ UNCHANGED <<now, audit, call, grace, sweep>>
<1>1. UNCHANGED <<call, grace, sweep>>
  BY DEF Write
<1>2. ASSUME NEW k \in Keys, GetExact(k)
      PROVE  SqlInv' /\ Shows /\ UNCHANGED <<now, audit>>
  BY <1>2, GetExactEffect DEF CacheOnly, Shows, Contract!StoreNext
<1>3. ASSUME NEW k \in Keys, NEW doc \in Payloads, NEW ttl \in TTLs, PutCache(k, doc, ttl)
      PROVE  SqlInv' /\ Shows /\ UNCHANGED <<now, audit>>
  BY <1>3, PutCacheEffect DEF CacheOnly, Shows, Contract!StoreNext
<1>4. ASSUME NEW u \in Urls, NEW text \in Contract!Texts, PutPage(u, text)
      PROVE  SqlInv' /\ Shows /\ UNCHANGED <<now, audit>>
  BY <1>4, PutPageEffect DEF PagesOnly, Shows, Contract!StoreNext
<1>5. ASSUME NEW row \in [ts : 0..now, key : Keys, origin : Origins],
             LogSearch(row) \/ RecordClick(row) \/ LogAnswer(row)
      PROVE  SqlInv' /\ Shows /\ UNCHANGED <<now, audit>>
  <2>1. row \in Contract!LogRows
    BY Stamped
  <2>2. UNCHANGED <<now, audit>>
    BY <1>5 DEF LogSearch, RecordClick, LogAnswer
  <2> QED
    BY <1>5, <2>1, <2>2, LogSearchEffect, RecordClickEffect, LogAnswerEffect
       DEF Shows, Contract!StoreNext
<1> QED
  BY <1>1, <1>2, <1>3, <1>4, <1>5 DEF Write

LEMMA HistoryDeleteServed ==
  ASSUME SqlInv, NEW c \in Calls, HistoryDelete(c)
  PROVE  Served(c)
<1>1. "history.delete" \in AuditActions
  BY DEF AuditActions
<1>2. PICK id \in Ids :
        \/ DeleteSearchLog(id) /\ Then(c, "history.delete", TRUE)
        \/ id \notin DOMAIN searchLog /\ NotFound(c, "history.delete")
  BY DEF HistoryDelete
<1>3. CASE DeleteSearchLog(id) /\ Then(c, "history.delete", TRUE)
  <2>1. SqlInv' /\ Shows
    BY <1>3, DeleteSearchLogEffect DEF Shows, Contract!StoreNext
  <2>2. UNCHANGED <<now, audit>>
    BY <1>3 DEF DeleteSearchLog
  <2> QED
    BY <1>1, <1>3, <2>1, <2>2, ServedBy DEF Then
<1>4. CASE NotFound(c, "history.delete")
  BY <1>1, <1>4, NothingWritten, ServedBy DEF NotFound, Then
<1> QED
  BY <1>2, <1>3, <1>4

LEMMA AnswerLogDeleteServed ==
  ASSUME SqlInv, NEW c \in Calls, AnswerLogDelete(c)
  PROVE  Served(c)
<1>1. "answer_log.delete" \in AuditActions
  BY DEF AuditActions
<1>2. PICK id \in Ids :
        \/ DeleteAnswerLog(id) /\ Then(c, "answer_log.delete", TRUE)
        \/ id \notin DOMAIN answerLog /\ NotFound(c, "answer_log.delete")
  BY DEF AnswerLogDelete
<1>3. CASE DeleteAnswerLog(id) /\ Then(c, "answer_log.delete", TRUE)
  <2>1. SqlInv' /\ Shows
    BY <1>3, DeleteAnswerLogEffect DEF Shows, Contract!StoreNext
  <2>2. UNCHANGED <<now, audit>>
    BY <1>3 DEF DeleteAnswerLog
  <2> QED
    BY <1>1, <1>3, <2>1, <2>2, ServedBy DEF Then
<1>4. CASE NotFound(c, "answer_log.delete")
  BY <1>1, <1>4, NothingWritten, ServedBy DEF NotFound, Then
<1> QED
  BY <1>2, <1>3, <1>4

LEMMA CacheDeleteServed ==
  ASSUME SqlInv, NEW c \in Calls, NEW action \in AuditActions, CacheDeleteAs(c, action)
  PROVE  Served(c)
<1>1. PICK k \in Keys :
        \/ DeleteEntries(RowsOf(entries, LAMBDA e : e.key = k)) /\ Then(c, action, TRUE)
        \/ NotFound(c, action)
  BY DEF CacheDeleteAs
<1>2. CASE DeleteEntries(RowsOf(entries, LAMBDA e : e.key = k)) /\ Then(c, action, TRUE)
  <2>1. SqlInv' /\ Contract!DeleteCache({k}) /\ {k} \in SUBSET Keys
    BY <1>2, DeleteShows
  <2>2. Shows
    BY <2>1 DEF Shows, Contract!StoreNext
  <2>3. UNCHANGED <<now, audit>>
    BY <1>2 DEF DeleteEntries
  <2> QED
    BY <1>2, <2>1, <2>2, <2>3, ServedBy DEF Then
<1>3. CASE NotFound(c, action)
  BY <1>3, NothingWritten, ServedBy DEF NotFound, Then
<1> QED
  BY <1>1, <1>2, <1>3

\* The bulk deletes: what has been expired for the grace, or everything.
LEMMA BulkDeleteServed ==
  ASSUME IInv, NEW c \in Calls, NEW action \in AuditActions, Then(c, action, TRUE),
         NEW rs \in {Expired(Contract!Cutoff(grace)), DOMAIN entries}, DeleteEntries(rs)
  PROVE  Served(c)
<1>1. SqlInv /\ UNCHANGED <<now, audit>>
  BY DEF IInv, DeleteEntries
<1>2. CASE rs = Expired(Contract!Cutoff(grace))
  <2>1. Contract!Cutoff(grace) \in Int /\ Contract!Cutoff(grace) <= now
    BY TimesAssumption DEF IInv, SqlInv, SweepInv, Contract!Cutoff, Contract!Times
  <2>2. SqlInv' /\ Shows
    BY <1>1, <1>2, <2>1, EvictEffect, EvictShows DEF Shows, Contract!StoreNext
  <2> QED
    BY <1>1, <2>2, ServedBy DEF Then
<1>3. CASE rs = DOMAIN entries
  <2>1. SqlInv' /\ Contract!DeleteCache(Keys) /\ Keys \in SUBSET Keys
    BY <1>1, <1>3, ClearShows
  <2>2. Shows
    BY <2>1 DEF Shows, Contract!StoreNext
  <2> QED
    BY <1>1, <2>1, <2>2, ServedBy DEF Then
<1> QED
  BY <1>2, <1>3

LEMMA PagesServed ==
  ASSUME SqlInv, NEW c \in Calls, PagesIndex(c) \/ PagesDelete(c) \/ FetchTool(c)
  PROVE  Served(c)
<1>1. {"page.index", "page.delete", "mcp.fetch_and_index"} \subseteq AuditActions
  BY DEF AuditActions
<1>2. ASSUME NEW u \in Urls, NEW text \in Contract!Texts, PutPage(u, text)
      PROVE  SqlInv' /\ Shows /\ UNCHANGED <<now, audit>>
  BY <1>2, PutPageEffect DEF PagesOnly, Shows, Contract!StoreNext
<1>3. CASE PagesIndex(c)
  BY <1>1, <1>2, <1>3, ServedBy DEF PagesIndex, Then
<1>4. CASE FetchTool(c)
  BY <1>1, <1>2, <1>4, ServedBy DEF FetchTool
<1>5. CASE PagesDelete(c)
  <2>1. PICK u \in Urls :
          \/ DeletePages(RowsOf(pageRows, LAMBDA p : p.url = u)) /\ Then(c, "page.delete", TRUE)
          \/ NotFound(c, "page.delete")
    BY <1>5 DEF PagesDelete
  <2>2. CASE DeletePages(RowsOf(pageRows, LAMBDA p : p.url = u)) /\ Then(c, "page.delete", TRUE)
    <3>1. SqlInv' /\ PagesOnly /\ Contract!DeletePage(u)
      BY <2>2, DeletePagesShows
    <3>2. Shows /\ UNCHANGED <<now, audit>>
      BY <3>1 DEF Shows, Contract!StoreNext, PagesOnly
    <3> QED
      BY <1>1, <2>2, <3>1, <3>2, ServedBy DEF Then
  <2>3. CASE NotFound(c, "page.delete")
    BY <1>1, <2>3, NothingWritten, ServedBy DEF NotFound, Then
  <2> QED
    BY <2>1, <2>2, <2>3
<1> QED
  BY <1>3, <1>4, <1>5

LEMMA ReadToolServed ==
  ASSUME SqlInv, NEW c \in Calls, NEW tool \in AuditActions, ReadTool(c, tool)
  PROVE  Served(c)
<1>1. SqlInv' /\ Shows /\ UNCHANGED <<now, audit>>
  BY NothingWritten DEF ReadTool
<1>2. PICK done \in BOOLEAN : Answered(c, tool, done, FALSE)
  BY DEF ReadTool
<1> QED
  BY <1>1, <1>2, ServedBy

LEMMA RequestServed ==
  ASSUME IInv, NEW c \in Calls, Request(c)
  PROVE  Served(c) /\ call[c].at = "idle"
<1>1. SqlInv /\ call[c].at = "idle"
  BY DEF IInv, Request
<1>2. {"cache.delete", "mcp.cache_invalidate", "cache.evict_expired", "cache.clear",
       "mcp.search_web", "mcp.cache_status", "mcp.exa_search", "mcp.search_archive"}
        \subseteq AuditActions
  BY DEF AuditActions
<1>3. CASE HistoryDelete(c) \/ AnswerLogDelete(c)
  BY <1>1, <1>3, HistoryDeleteServed, AnswerLogDeleteServed
<1>4. CASE CacheDelete(c)
  BY <1>1, <1>2, <1>4, CacheDeleteServed DEF CacheDelete
<1>5. CASE CacheBulkDelete(c)
  BY <1>1, <1>2, <1>5, BulkDeleteServed DEF CacheBulkDelete
<1>6. CASE CacheInvalidate(c)
  BY <1>1, <1>2, <1>6, CacheDeleteServed, BulkDeleteServed DEF CacheInvalidate
<1>7. CASE PagesIndex(c) \/ PagesDelete(c) \/ FetchTool(c)
  BY <1>1, <1>7, PagesServed
<1>8. CASE SearchWeb(c) \/ CacheStatus(c) \/ ExaSearch(c) \/ SearchArchive(c)
  BY <1>1, <1>2, <1>8, ReadToolServed DEF SearchWeb, CacheStatus, ExaSearch, SearchArchive
<1> QED
  BY <1>1, <1>3, <1>4, <1>5, <1>6, <1>7, <1>8 DEF Request

-----------------------------------------------------------------------------
(* The requests and their audit rows.                                      *)

\* Audit rows name requests.
LEMMA AuditBy ==
  ASSUME CallInv
  PROVE  \A n \in DOMAIN audit : audit[n].by \in Calls
<1>1. audit \in [1..Len(audit) -> AuditTable]
  BY DEF CallInv
<1>2. \A n \in DOMAIN audit : audit[n] \in AuditTable
  BY <1>1
<1> QED
  BY <1>2 DEF AuditTable

\* A request that is answered has no row yet, and gets none by that.
LEMMA ServedCallInv ==
  ASSUME CallInv, NEW c \in Calls, call[c].at = "idle", Served(c)
  PROVE  CallInv'
<1>1. PICK action \in AuditActions, done \in BOOLEAN, strict \in BOOLEAN :
        call' = [call EXCEPT ![c] =
          IF done THEN [at |-> "audit", action |-> action, done |-> TRUE, strict |-> strict]
          ELSE [Rest EXCEPT !.at = "failed"]]
  BY DEF Served
<1>2. audit' = audit /\ call \in [Calls -> CallRecords] /\ audit \in Seq(AuditTable)
  BY DEF Served, CallInv
<1> DEFINE next == IF done THEN [at |-> "audit", action |-> action, done |-> TRUE,
                                 strict |-> strict]
                   ELSE [Rest EXCEPT !.at = "failed"]
<1>3. /\ next \in CallRecords /\ next.at \in {"audit", "failed"}
      /\ next.at = "audit" => next.done /\ next.action \in AuditActions
  BY DEF CallRecords, Stages, Rest
<1>4. call' = [call EXCEPT ![c] = next]
  BY <1>1
<1> HIDE DEF next
<1>5. /\ call' \in [Calls -> CallRecords] /\ call'[c] = next
      /\ \A d \in Calls \ {c} : call'[d] = call[d]
  BY <1>2, <1>3, <1>4
<1>6. \A n \in DOMAIN audit : audit[n].by # c /\ audit[n].by \in Calls
  BY <1>2, AuditBy DEF CallInv
<1> QED
  BY <1>2, <1>3, <1>5, <1>6 DEF CallInv

LEMMA WriteAuditRowEffect ==
  ASSUME IInv, NEW c \in Calls, WriteAuditRow(c)
  PROVE  SqlInv' /\ Shows /\ CallInv' /\ UNCHANGED <<now, grace, sweep>>
<1>1. /\ call \in [Calls -> CallRecords] /\ audit \in Seq(AuditTable)
      /\ call[c].at = "audit" /\ call[c].done /\ call[c].action \in AuditActions
      /\ UNCHANGED <<grace, sweep>>
  BY DEF IInv, CallInv, WriteAuditRow
<1>2. \A n \in DOMAIN audit : audit[n].by # c /\ audit[n].by \in Calls
  BY <1>1, AuditBy DEF IInv, CallInv
<1>3. CASE /\ WriteAudit([by |-> c, action |-> call[c].action])
           /\ call' = [call EXCEPT ![c].at = "acked"]
  <2> DEFINE row == [by |-> c, action |-> call[c].action]
             done == [call[c] EXCEPT !.at = "acked"]
             n0 == Len(audit) + 1
  <2>1. /\ audit' = Append(audit, row) /\ row \in AuditTable
        /\ UNCHANGED <<now, entries, cacheFts, pageRows, pagesFts, searchLog, clicks, answerLog,
                       answerSeq>>
    BY <1>1, <1>3 DEF WriteAudit, AuditTable
  <2>2. SqlInv' /\ UNCHANGED <<CacheOf, PagesOf>>
    BY <2>1, TablesUnchanged DEF IInv, SqlInv
  <2>3. Shows
    <3>1. row \in AuditRows
      BY <2>1, AuditAssumption DEF AuditTable
    <3>2. Contract!Audit(row)
      BY <2>1, <2>2 DEF Contract!Audit
    <3> QED
      BY <3>1, <3>2 DEF Shows, Contract!StoreNext
  <2>4. /\ call' \in [Calls -> CallRecords] /\ call'[c] = done
        /\ done.at = "acked" /\ done.done /\ done.action = call[c].action
        /\ \A d \in Calls \ {c} : call'[d] = call[d]
    BY <1>1, <1>3 DEF CallRecords, Stages
  <2>5. /\ audit' \in Seq(AuditTable) /\ DOMAIN audit' = DOMAIN audit \cup {n0}
        /\ audit'[n0] = row /\ n0 \notin DOMAIN audit
        /\ \A n \in DOMAIN audit : audit'[n] = audit[n]
    BY <1>1, <2>1
  <2>6. row.by = c /\ row.action = call[c].action
    OBVIOUS
  <2> HIDE DEF row, done, n0
  <2>7. CallInv'
    <3>1. \A d \in Calls : call'[d].at = "audit" => call'[d].done /\ call'[d].action \in AuditActions
      BY <2>4 DEF IInv, CallInv
    <3>2. ASSUME NEW n \in DOMAIN audit'
          PROVE  LET d == audit'[n].by IN
                 call'[d].at = "acked" /\ call'[d].done /\ call'[d].action = audit'[n].action
      BY <1>2, <2>4, <2>5, <2>6 DEF IInv, CallInv
    <3>3. \A m, n \in DOMAIN audit' : audit'[m].by = audit'[n].by => m = n
      BY <1>2, <2>5, <2>6 DEF IInv, CallInv
    <3>4. ASSUME NEW d \in Calls, call'[d].at = "acked"
          PROVE  ~call'[d].strict \/ \E n \in DOMAIN audit' : audit'[n].by = d
      <4>1. CASE d = c
        BY <2>5, <2>6, <4>1
      <4>2. CASE d # c
        BY <2>4, <2>5, <3>4, <4>2 DEF IInv, CallInv
      <4> QED
        BY <4>1, <4>2
    <3> QED
      BY <2>4, <2>5, <3>1, <3>2, <3>3, <3>4 DEF CallInv
  <2> QED
    BY <1>1, <2>1, <2>2, <2>3, <2>7
<1>4. CASE /\ UNCHANGED <<now, tables>>
           /\ call' = [call EXCEPT ![c].at = AuditFault(call[c].strict)]
  <2>1. SqlInv' /\ Shows /\ UNCHANGED <<now, audit>>
    BY <1>4, NothingWritten DEF IInv
  <2> DEFINE done == [call[c] EXCEPT !.at = AuditFault(call[c].strict)]
  <2>2. /\ call' \in [Calls -> CallRecords] /\ call'[c] = done
        /\ done.at = (IF call[c].strict THEN "failed" ELSE "acked")
        /\ done.strict = call[c].strict
        /\ \A d \in Calls \ {c} : call'[d] = call[d]
    BY <1>1, <1>4 DEF CallRecords, Stages, AuditFault
  <2> HIDE DEF done
  <2>3. CallInv'
    BY <1>1, <1>2, <2>1, <2>2 DEF IInv, CallInv
  <2> QED
    BY <1>1, <2>1, <2>3
<1> QED
  BY <1>3, <1>4 DEF WriteAuditRow

\* A crash takes a pending row with its request.
LEMMA CrashEffect ==
  ASSUME IInv, Crash
  PROVE  SqlInv' /\ Shows /\ CallInv' /\ SweepInv'
<1>1. /\ call' = [c \in Calls |-> IF call[c].at = "audit" THEN [call[c] EXCEPT !.at = "failed"]
                                  ELSE call[c]]
      /\ sweep' = NoSweep /\ UNCHANGED <<now, tables, grace>>
  BY DEF Crash
<1>2. SqlInv' /\ Shows /\ UNCHANGED <<now, audit>>
  BY <1>1, NothingWritten DEF IInv
<1>3. call \in [Calls -> CallRecords] /\ audit \in Seq(AuditTable)
  BY DEF IInv, CallInv
<1>4. ASSUME NEW c \in Calls
      PROVE  /\ call'[c] \in CallRecords /\ call'[c].at # "audit"
             /\ call[c].at # "audit" => call'[c] = call[c]
             /\ call[c].at = "audit" => call'[c].at = "failed"
  BY <1>1, <1>3 DEF CallRecords, Stages
<1>5. call' \in [Calls -> CallRecords]
  BY <1>1, <1>4
<1>6. \A n \in DOMAIN audit : audit[n].by \in Calls
  BY AuditBy DEF IInv
<1>7. CallInv'
  BY <1>2, <1>4, <1>5, <1>6 DEF IInv, CallInv
<1>8. SweepInv'
  BY <1>1 DEF IInv, SweepInv, NoSweep
<1> QED
  BY <1>2, <1>7, <1>8

-----------------------------------------------------------------------------
(* The other steps.                                                        *)

\* What writes no row and moves no clock keeps the requests' invariant, and
\* the sweep's as long as it stays as it was begun.
LEMMA IdleStep ==
  ASSUME IInv, UNCHANGED <<now, tables, call>>
  PROVE  SqlInv' /\ Shows /\ CallInv'
<1>1. SqlInv' /\ Shows /\ UNCHANGED <<now, audit>>
  BY NothingWritten DEF IInv
<1> QED
  BY <1>1 DEF IInv, CallInv

\* The clock runs on, so a cutoff only falls further behind it.
LEMMA TickEffect ==
  ASSUME IInv, Tick, UNCHANGED <<call, grace, sweep>>
  PROVE  IInv' /\ Shows
<1>1. /\ now < EndOfTime /\ now' = now + 1
      /\ UNCHANGED <<entries, cacheFts, pageRows, pagesFts, searchLog, clicks, answerLog,
                     answerSeq, audit>>
  BY DEF Tick, tables
<1>2. now \in Contract!Times /\ now' \in Contract!Times
  BY <1>1, TimesAssumption DEF IInv, SqlInv, Contract!Times
<1>3. SqlInv' /\ UNCHANGED <<CacheOf, PagesOf>>
  BY <1>1, <1>2, TablesUnchanged DEF IInv
<1>4. Contract!Tick
  BY <1>1, <1>3 DEF Contract!Tick
<1>5. CallInv'
  BY <1>1 DEF IInv, CallInv
<1>6. SweepInv'
  BY <1>1, <1>2, TimesAssumption DEF IInv, SweepInv, Contract!Times
<1> QED
  BY <1>3, <1>4, <1>5, <1>6 DEF IInv, Shows, Contract!StoreNext

\* A sweep is begun with the cutoff its grace gives at that instant.
LEMMA BeginSweepEffect ==
  ASSUME IInv, BeginSweep
  PROVE  IInv' /\ Shows
<1>1. /\ UNCHANGED <<now, tables, call, grace>>
      /\ sweep' = [waits |-> TRUE, cutoff |-> now - grace, grace |-> grace]
  BY DEF BeginSweep, sqlVars, SweepCutoff, Contract!Cutoff
<1>2. now \in Nat /\ grace \in Nat
  BY TimesAssumption DEF IInv, SqlInv, SweepInv, Contract!Times
<1>3. SweepInv'
  BY <1>1, <1>2 DEF IInv, SweepInv
<1> QED
  BY <1>1, <1>3, IdleStep DEF IInv

\* What a sweep that waited takes is what had expired by its cutoff.
LEMMA SweepEffect ==
  ASSUME IInv, Sweep
  PROVE  /\ IInv' /\ Shows
         /\ CacheOf' = [k \in Keys |->
              IF CacheOf[k] # None /\ CacheOf[k].expires <= sweep.cutoff THEN None
              ELSE CacheOf[k]]
<1>1. /\ sweep.waits /\ sweep' = NoSweep /\ DeleteEntries(Expired(sweep.cutoff))
      /\ UNCHANGED <<call, grace>>
  BY DEF Sweep
<1>2. now \in Nat /\ sweep.cutoff \in Int /\ sweep.cutoff <= now
  BY <1>1, TimesAssumption DEF IInv, SqlInv, SweepInv, Contract!Times
<1>3. /\ SqlInv' /\ CacheOnly
      /\ CacheOf' = [k \in Keys |->
           IF CacheOf[k] # None /\ CacheOf[k].expires <= sweep.cutoff THEN None
           ELSE CacheOf[k]]
  BY <1>1, <1>2, EvictEffect DEF IInv
<1>4. Shows
  BY <1>1, <1>2, EvictShows DEF IInv, Shows, Contract!StoreNext
<1>5. CallInv'
  BY <1>1, <1>3 DEF IInv, CallInv, CacheOnly
<1>6. SweepInv'
  BY <1>1 DEF IInv, SweepInv, NoSweep
<1> QED
  BY <1>3, <1>4, <1>5, <1>6 DEF IInv

-----------------------------------------------------------------------------
(* The invariant, and what follows from it.                                *)

\* The empty tables, read as the promise, are its empty tables.
LEMMA InitShows == Init => IInv /\ Contract!StoreInit
<1> SUFFICES ASSUME Init PROVE IInv /\ Contract!StoreInit
  OBVIOUS
<1>1. /\ now = 0 /\ entries = <<>> /\ cacheFts = {} /\ pageRows = <<>> /\ pagesFts = {}
      /\ searchLog = <<>> /\ clicks = <<>> /\ answerLog = <<>> /\ answerSeq = 0
      /\ audit = <<>> /\ sweep = NoSweep /\ call = [c \in Calls |-> Rest] /\ grace \in Graces
  BY DEF Init, SqlInit
<1>2. DOMAIN <<>> = {}
  OBVIOUS
<1>3. SqlInv
  <2>1. EntryTable(<<>>) /\ PagesTable(<<>>) /\ LogTable(<<>>)
    BY <1>2 DEF EntryTable, PagesTable, LogTable
  <2>2. EntryIndex(<<>>) = {} /\ PageIndex(<<>>) = {}
    BY <1>2 DEF EntryIndex, PageIndex, EntriesDocs, PagesDocs
  <2>3. 0 \in Contract!Times
    BY TimesAssumption DEF Contract!Times
  <2> QED
    BY <1>1, <1>2, <2>1, <2>2, <2>3 DEF SqlInv
<1>4. CallInv
  <2>1. Rest \in CallRecords /\ Rest.at = "idle"
    BY DEF Rest, CallRecords, Stages
  <2> QED
    BY <1>1, <1>2, <2>1 DEF CallInv
<1>5. SweepInv
  BY <1>1 DEF SweepInv, NoSweep
<1>6. /\ CacheOf = [k \in Keys |-> None] /\ PagesOf = [u \in Urls |-> None]
      /\ 1..answerSeq = {}
  <2>1. /\ \A k \in Keys : {r \in DOMAIN entries : entries[r].key = k} = {}
        /\ \A u \in Urls : {r \in DOMAIN pageRows : pageRows[r].url = u} = {}
    BY <1>1, <1>2
  <2> QED
    BY <1>1, <2>1 DEF CacheOf, PagesOf
<1> QED
  BY <1>1, <1>3, <1>4, <1>5, <1>6 DEF IInv, Contract!StoreInit

\* Every step of the store at work keeps the invariant and is a step of the
\* promise, or shows nothing.
LEMMA NextShows == IInv /\ [Next]_vars => IInv' /\ Shows
<1> SUFFICES ASSUME IInv, [Next]_vars PROVE IInv' /\ Shows
  OBVIOUS
<1>1. CASE Write
  <2>1. SqlInv' /\ Shows /\ UNCHANGED <<now, audit, call, grace, sweep>>
    BY <1>1, WriteShows DEF IInv
  <2>2. CallInv' /\ SweepInv'
    BY <2>1 DEF IInv, CallInv, SweepInv
  <2> QED
    BY <2>1, <2>2 DEF IInv
<1>2. CASE UNCHANGED <<now, tables, call, sweep>> /\ grace' \in Graces
  <2>1. SweepInv'
    BY <1>2 DEF IInv, SweepInv
  <2> QED
    BY <1>2, <2>1, IdleStep DEF IInv
<1>3. CASE Tick /\ UNCHANGED <<call, grace, sweep>>
  BY <1>3, TickEffect
<1>4. ASSUME NEW c \in Calls, Request(c) PROVE IInv' /\ Shows
  <2>1. Served(c) /\ call[c].at = "idle"
    BY <1>4, RequestServed
  <2>2. CallInv'
    BY <2>1, ServedCallInv DEF IInv
  <2>3. SqlInv' /\ Shows /\ UNCHANGED <<now, grace, sweep>>
    BY <2>1 DEF Served
  <2>4. SweepInv'
    BY <2>3 DEF IInv, SweepInv
  <2> QED
    BY <2>2, <2>3, <2>4 DEF IInv
<1>5. ASSUME NEW c \in Calls, WriteAuditRow(c) PROVE IInv' /\ Shows
  <2>1. SqlInv' /\ Shows /\ CallInv' /\ UNCHANGED <<now, grace, sweep>>
    BY <1>5, WriteAuditRowEffect
  <2>2. SweepInv'
    BY <2>1 DEF IInv, SweepInv
  <2> QED
    BY <2>1, <2>2 DEF IInv
<1>6. CASE BeginSweep \/ Sweep \/ Crash
  BY <1>6, BeginSweepEffect, SweepEffect, CrashEffect DEF IInv
<1>7. CASE UNCHANGED <<now, tables, call, grace, sweep>>
  <2>1. grace' \in Graces
    BY <1>7 DEF IInv, SweepInv
  <2> QED
    BY <1>2, <1>7, <2>1
<1>8. CASE SetGrace
  BY <1>2, <1>8 DEF SetGrace, sqlVars
<1>9. CASE (BeginFeed \/ NextStatement \/ EndFeed) /\ UNCHANGED <<call, grace, sweep>>
  BY <1>7, <1>9 DEF BeginFeed, NextStatement, EndFeed
<1> QED
  BY <1>1, <1>3, <1>4, <1>5, <1>6, <1>7, <1>8, <1>9 DEF Next, vars, sqlVars, apiVars

\* The invariant of the tables, the requests and the sweep.
THEOREM Invariance == Spec => []IInv
<1> QED
  BY InitShows, NextShows, PTL DEF Spec

\* migrations/0001, 0004: after any sequence of inserts, upserts and deletes a
\* full-text search finds exactly the rows whose present text has the terms.
THEOREM IndexesHold == Spec => []IndexesAgree
<1>1. IInv => IndexesAgree
  BY IndexesShow DEF IInv
<1> QED
  BY <1>1, Invariance, PTL

\* A set with at most one member, counted.
LEMMA AtMostOne ==
  ASSUME NEW S, \A m, n \in S : m = n
  PROVE  Cardinality(S) = IF S = {} THEN 0 ELSE 1
<1>1. S = {} \/ \E n \in S : S = {n}
  OBVIOUS
<1>2. Cardinality({}) = 0 /\ \A n : Cardinality({n}) = 1
  BY FS_EmptySet, FS_Singleton
<1> QED
  BY <1>1, <1>2, Zenon

\* The audit log tells the truth, whatever write fails or crash comes between
\* a store call and its row: an acknowledged request has its one row, unless
\* it is a tool that is lax about it, and a row stands for something done.
THEOREM AuditHolds == Spec => []AuditTrail
<1>1. IInv => AuditTrail
  <2> SUFFICES ASSUME IInv PROVE AuditTrail
    OBVIOUS
  <2>1. ASSUME NEW c \in Calls, call[c].at = "acked"
        PROVE  LET rows == Cardinality({n \in DOMAIN audit : audit[n].by = c})
               IN  rows = 1 \/ (rows = 0 /\ ~call[c].strict)
    <3> DEFINE S == {n \in DOMAIN audit : audit[n].by = c}
    <3>1. /\ \A m, n \in S : m = n
          /\ S = {} => ~call[c].strict
      BY <2>1 DEF IInv, CallInv
    <3> HIDE DEF S
    <3>2. Cardinality(S) = IF S = {} THEN 0 ELSE 1
      BY <3>1, AtMostOne
    <3>3. Cardinality(S) = 1 \/ (Cardinality(S) = 0 /\ ~call[c].strict)
      BY <3>1, <3>2
    <3> QED
      BY <3>3 DEF S
  <2>2. \A n \in DOMAIN audit :
          call[audit[n].by].done /\ call[audit[n].by].action = audit[n].action
    BY DEF IInv, CallInv
  <2> QED
    BY <2>1, <2>2 DEF AuditTrail
<1> QED
  BY <1>1, Invariance, PTL

\* The row of a key with a row expires at a number.
LEMMA ExpiryIsNumber ==
  ASSUME SqlInv, NEW k \in Keys, CacheOf[k] # None
  PROVE  CacheOf[k].expires \in Nat
<1>1. CacheOf = Entries(entries) /\ EntryTable(entries)
  BY CacheShown DEF SqlInv
<1>2. PICK r \in DOMAIN entries : entries[r].key = k
  BY <1>1, EntryOf
<1>3. CacheOf[k] = EntryShown(entries[r])
  BY <1>1, <1>2, EntryOf
<1>4. entries[r].expires \in Nat
  BY <1>1 DEF EntryTable, EntryRows, Contract!Times
<1> QED
  BY <1>3, <1>4 DEF EntryShown

\* evict.rs: a sweep takes no row that has been expired for less than the
\* grace it was begun with, though the row may be rewritten and the grace
\* changed while it waits for the writer.
THEOREM GraceHolds == Spec => GraceKept
<1>1. ASSUME IInv, [Next]_vars, sweep.waits, ~sweep'.waits,
             NEW k \in Keys, CacheOf[k] # None, CacheOf'[k] = None
      PROVE  CacheOf[k].expires + sweep.grace <= now
  <2>1. Sweep \/ Crash
    <3>1. CASE Write
      BY <1>1, <3>1 DEF Write
    <3>2. ASSUME NEW c \in Calls, Request(c) PROVE FALSE
      <4>1. Served(c)
        BY <1>1, <3>2, RequestServed
      <4> QED
        BY <1>1, <4>1 DEF Served
    <3>3. ASSUME NEW c \in Calls, WriteAuditRow(c) PROVE FALSE
      BY <1>1, <3>3 DEF WriteAuditRow
    <3> QED
      BY <1>1, <3>1, <3>2, <3>3 DEF Next, vars, apiVars, BeginSweep, SetGrace
  <2>2. ~Crash
    <3>1. ASSUME Crash PROVE UNCHANGED CacheOf
      BY <3>1 DEF Crash, tables, CacheOf
    <3> QED
      BY <1>1, <3>1
  <2>3. Sweep
    BY <2>1, <2>2
  <2>4. CacheOf[k].expires <= sweep.cutoff
    BY <1>1, <2>3, SweepEffect
  <2>5. CacheOf[k].expires \in Nat
    BY <1>1, ExpiryIsNumber DEF IInv
  <2>6. /\ sweep.cutoff \in Int /\ sweep.grace \in Nat /\ now \in Nat
        /\ sweep.cutoff + sweep.grace <= now
    BY <1>1, TimesAssumption DEF IInv, SqlInv, SweepInv, Contract!Times
  <2> QED
    BY <2>4, <2>5, <2>6
<1>2. IInv /\ [Next]_vars =>
        [sweep.waits /\ ~sweep'.waits =>
           \A k \in Keys : CacheOf[k] # None /\ CacheOf'[k] = None =>
             CacheOf[k].expires + sweep.grace <= now]_vars
  BY <1>1
<1> QED
  BY <1>2, Invariance, PTL DEF Spec, GraceKept

\* The SQLite tables, their triggers and their sequences keep the promise of
\* the plain tables (store/mod.rs and memory.rs): every write, whatever its
\* upserts, index rows and ids do inside, is one step of it.
THEOREM Implements == Spec => RefinesStore
<1>1. Init => Contract!StoreInit
  BY InitShows
<1>2. IInv /\ [Next]_vars => [Contract!StoreNext]_Contract!storeVars
  BY NextShows DEF Shows
<1> QED
  BY <1>1, <1>2, Invariance, PTL DEF Spec, RefinesStore, Contract!StoreSpec
-----------------------------------------------------------------------------
(* The feed.  Of each table list_history takes the latest rows only, and  *)
(* from what three such SELECTs found the latest again.                   *)

FeedRows == [kind : {"search", "click", "answer"}, id : Ids, ts : Contract!Times, key : Keys]
Ranked(kind) == IF kind = "search" THEN 1 ELSE IF kind = "click" THEN 2 ELSE 3

\* The newer ones among some rows.
NewerIn(rows, x) == {y \in rows : Contract!Newer(y, x)}

LEMMA NewerTold ==
  ASSUME NEW a \in FeedRows, NEW b \in FeedRows
  PROVE  Contract!Newer(a, b) <=>
           \/ a.ts > b.ts
           \/ a.ts = b.ts /\ a.id > b.id
           \/ a.ts = b.ts /\ a.id = b.id /\ Ranked(a.kind) < Ranked(b.kind)
<1> DEFINE rank(x) == CHOOSE n \in 1..3 : Contract!Kinds[n] = x.kind
<1>1. \A x \in FeedRows : rank(x) = Ranked(x.kind)
  <2> SUFFICES ASSUME NEW x \in FeedRows PROVE rank(x) = Ranked(x.kind)
    OBVIOUS
  <2>1. /\ Contract!Kinds[1] = "search" /\ Contract!Kinds[2] = "click"
        /\ Contract!Kinds[3] = "answer"
    BY DEF Contract!Kinds
  <2>2. \A n \in 1..3 : n = 1 \/ n = 2 \/ n = 3
    OBVIOUS
  <2>3. x.kind \in {"search", "click", "answer"}
    BY DEF FeedRows
  <2>4. Ranked(x.kind) \in 1..3 /\ Contract!Kinds[Ranked(x.kind)] = x.kind
    BY <2>1, <2>3 DEF Ranked
  <2>5. \A n \in 1..3 : Contract!Kinds[n] = x.kind => n = Ranked(x.kind)
    BY <2>1, <2>2, <2>3 DEF Ranked
  <2> QED
    BY <2>4, <2>5
<1> HIDE DEF rank
<1>2. rank(a) = Ranked(a.kind) /\ rank(b) = Ranked(b.kind)
  BY <1>1
<1>3. Contract!Newer(a, b) <=>
           \/ a.ts > b.ts
           \/ a.ts = b.ts /\ a.id > b.id
           \/ a.ts = b.ts /\ a.id = b.id /\ rank(a) < rank(b)
  BY DEF Contract!Newer, rank
<1> QED
  BY <1>2, <1>3

\* Newer is a strict order of rows, and of two rows that are not of one kind
\* and id one is the newer.
LEMMA NewerOrders ==
  /\ \A a \in FeedRows : ~Contract!Newer(a, a)
  /\ \A a, b, c \in FeedRows :
       Contract!Newer(a, b) /\ Contract!Newer(b, c) => Contract!Newer(a, c)
  /\ \A a, b \in FeedRows :
       (a.kind = b.kind /\ a.id = b.id) \/ Contract!Newer(a, b) \/ Contract!Newer(b, a)
<1>1. PICK n \in Nat : Ids = 1..n
  BY IdsAreNumbers
<1>2. \A a \in FeedRows : /\ a.ts \in Int /\ a.id \in Int /\ Ranked(a.kind) \in Int
                          /\ a.kind \in {"search", "click", "answer"}
  BY <1>1, TimesAssumption DEF FeedRows, Contract!Times, Ranked
<1>3. \A a, b \in FeedRows : Ranked(a.kind) = Ranked(b.kind) => a.kind = b.kind
  BY <1>2 DEF Ranked
<1>4. ASSUME NEW a \in FeedRows PROVE ~Contract!Newer(a, a)
  BY <1>2, NewerTold
<1>5. ASSUME NEW a \in FeedRows, NEW b \in FeedRows, NEW c \in FeedRows,
             Contract!Newer(a, b), Contract!Newer(b, c)
      PROVE  Contract!Newer(a, c)
  BY <1>2, <1>5, NewerTold
<1>6. ASSUME NEW a \in FeedRows, NEW b \in FeedRows
      PROVE  (a.kind = b.kind /\ a.id = b.id) \/ Contract!Newer(a, b) \/ Contract!Newer(b, a)
  BY <1>2, <1>3, NewerTold
<1> QED
  BY <1>4, <1>5, <1>6

\* Of some rows, all but those among the latest: one that has nothing of them
\* before it.
LEMMA NewestOf ==
  ASSUME NEW rows \in SUBSET FeedRows, IsFiniteSet(rows),
         NEW some \in SUBSET rows, some # {}
  PROVE  \E w \in some : \A y \in some : ~Contract!Newer(y, w)
<1> DEFINE Count(x) == Cardinality(NewerIn(rows, x))
           Counts == {Count(x) : x \in some}
<1>1. \A x : IsFiniteSet(NewerIn(rows, x)) /\ Count(x) \in Nat
  BY FS_Subset, FS_CardinalityType DEF NewerIn
<1>2. Counts \subseteq Nat /\ Counts # {}
  BY <1>1
<1>3. PICK m \in Counts : \A n \in Counts : <<n, m>> \notin OpToRel(<, Nat)
  <2> HIDE DEF Counts
  <2> QED
    BY <1>2, NatLessThanWellFounded, WFMin
<1>4. PICK w \in some : m = Count(w)
  BY <1>3
<1>5. ASSUME NEW y \in some, Contract!Newer(y, w) PROVE FALSE
  <2>1. NewerIn(rows, y) \subseteq NewerIn(rows, w)
    BY <1>5, NewerOrders DEF NewerIn
  <2>2. y \in NewerIn(rows, w) /\ y \notin NewerIn(rows, y)
    BY <1>5, NewerOrders DEF NewerIn
  <2>3. Count(y) <= Count(w) /\ Count(y) # Count(w)
    BY <1>1, <2>1, <2>2, FS_Subset
  <2>4. Count(y) \in Counts /\ Count(y) \in Nat /\ m \in Nat
    BY <1>1, <1>2, <1>3
  <2> HIDE DEF Count, Counts
  <2>5. Count(y) < m
    BY <1>4, <2>3, <2>4
  <2> QED
    BY <1>3, <2>4, <2>5 DEF OpToRel
<1> QED
  BY <1>4, <1>5

LEMMA LatestTold ==
  ASSUME NEW rows, NEW limit
  PROVE  Contract!Latest(rows, limit) = {x \in rows : Cardinality(NewerIn(rows, x)) < limit}
<1>1. \A S : Contract!Cardinality(S) = Cardinality(S)
  BY DEF Contract!Cardinality, Cardinality, Contract!IsFiniteSet, IsFiniteSet
<1> QED
  BY <1>1 DEF Contract!Latest, NewerIn

\* What is not among the latest has limit newer ones among them, and those are
\* newer than whatever it is newer than.
LEMMA CutByLatest ==
  ASSUME NEW rows \in SUBSET FeedRows, IsFiniteSet(rows), NEW limit \in Nat,
         NEW some \in SUBSET rows, some # {},
         \A y \in some : y \notin Contract!Latest(rows, limit),
         \A y \in some : \A z \in rows \ Contract!Latest(rows, limit) :
            Contract!Newer(z, y) => z \in some
  PROVE  \E w \in some : /\ NewerIn(rows, w) \subseteq Contract!Latest(rows, limit)
                         /\ Cardinality(NewerIn(rows, w)) >= limit
<1>1. PICK w \in some : \A y \in some : ~Contract!Newer(y, w)
  BY NewestOf
<1>2. NewerIn(rows, w) \subseteq Contract!Latest(rows, limit)
  BY <1>1 DEF NewerIn
<1>3. IsFiniteSet(NewerIn(rows, w)) /\ Cardinality(NewerIn(rows, w)) \in Nat
  BY FS_Subset, FS_CardinalityType DEF NewerIn
<1>4. w \in rows /\ ~(Cardinality(NewerIn(rows, w)) < limit)
  BY <1>1, LatestTold
<1> QED
  BY <1>1, <1>2, <1>3, <1>4

\* A cut drops nothing, or leaves limit rows at least.
LEMMA LatestFills ==
  ASSUME NEW rows \in SUBSET FeedRows, IsFiniteSet(rows), NEW limit \in Nat
  PROVE  /\ Contract!Latest(rows, limit) \subseteq rows
         /\ Contract!Latest(rows, limit) = rows \/ Cardinality(Contract!Latest(rows, limit)) >= limit
<1> DEFINE L == Contract!Latest(rows, limit)
<1>1. L \subseteq rows
  BY DEF Contract!Latest
<1>2. ASSUME L # rows PROVE Cardinality(L) >= limit
  <2>1. rows \ L \in SUBSET rows /\ rows \ L # {}
    BY <1>1, <1>2
  <2>2. \A y \in rows \ L : y \notin L
    OBVIOUS
  <2> HIDE DEF L
  <2>3. PICK w \in rows \ L : NewerIn(rows, w) \subseteq L /\ Cardinality(NewerIn(rows, w)) >= limit
    BY <2>1, <2>2, CutByLatest DEF L
  <2>4. IsFiniteSet(L) /\ Cardinality(L) \in Nat
    BY <1>1, FS_Subset, FS_CardinalityType
  <2>5. Cardinality(NewerIn(rows, w)) <= Cardinality(L) /\ Cardinality(NewerIn(rows, w)) \in Nat
    BY <2>3, <2>4, FS_Subset, FS_CardinalityType
  <2> QED
    BY <2>3, <2>4, <2>5
<1> QED
  BY <1>1, <1>2

\* Of rows that are told apart by kind and id no more than limit are left.
LEMMA LatestFits ==
  ASSUME NEW rows \in SUBSET FeedRows, IsFiniteSet(rows), NEW limit \in Nat,
         \A x, y \in rows : x.kind = y.kind /\ x.id = y.id => x = y
  PROVE  Cardinality(Contract!Latest(rows, limit)) <= limit
<1> DEFINE L == Contract!Latest(rows, limit)
           Older(x) == {y \in L : Contract!Newer(x, y)}
           Counts == {Cardinality(Older(x)) : x \in L}
<1>1. L \in SUBSET rows /\ IsFiniteSet(L) /\ Cardinality(L) \in Nat
  BY FS_Subset, FS_CardinalityType DEF Contract!Latest
<1>2. CASE L = {}
  BY <1>2, FS_EmptySet
<1>3. CASE L # {}
  <2> HIDE DEF L
  <2>1. \A x : IsFiniteSet(Older(x)) /\ Cardinality(Older(x)) \in Nat
    BY <1>1, FS_Subset, FS_CardinalityType
  <2>2. Counts \subseteq Nat /\ Counts # {}
    BY <1>3, <2>1
  <2>3. PICK m \in Counts : \A n \in Counts : <<n, m>> \notin OpToRel(<, Nat)
    <3> HIDE DEF Counts
    <3> QED
      BY <2>2, NatLessThanWellFounded, WFMin
  <2>4. PICK w \in L : m = Cardinality(Older(w))
    BY <2>3
  <2>5. ASSUME NEW y \in L, Contract!Newer(w, y) PROVE FALSE
    <3>1. Older(y) \subseteq Older(w)
      BY <1>1, <2>5, NewerOrders
    <3>2. y \in Older(w) /\ y \notin Older(y)
      BY <1>1, <2>5, NewerOrders
    <3>3. Cardinality(Older(y)) <= Cardinality(Older(w)) /\ Cardinality(Older(y)) # Cardinality(Older(w))
      BY SMTT(30), <2>1, <3>1, <3>2, FS_Subset
    <3>4. Cardinality(Older(y)) \in Counts /\ Cardinality(Older(y)) \in Nat /\ m \in Nat
      BY <2>1, <2>2, <2>3
    <3> HIDE DEF Older, Counts
    <3>5. Cardinality(Older(y)) < m
      BY <2>4, <3>3, <3>4
    <3> QED
      BY <2>3, <3>4, <3>5 DEF OpToRel
  <2>6. L \ {w} \subseteq NewerIn(rows, w)
    BY <1>1, <2>5, NewerOrders DEF NewerIn
  <2>7. IsFiniteSet(NewerIn(rows, w)) /\ Cardinality(NewerIn(rows, w)) \in Nat
    BY FS_Subset, FS_CardinalityType DEF NewerIn
  <2>8. Cardinality(L \ {w}) = Cardinality(L) - 1
    BY <1>1, FS_RemoveElement
  <2>9. Cardinality(L \ {w}) <= Cardinality(NewerIn(rows, w))
    BY <2>6, <2>7, FS_Subset
  <2>10. Cardinality(NewerIn(rows, w)) < limit
    BY <2>4, LatestTold DEF L
  <2> QED
    BY <1>1, <2>7, <2>8, <2>9, <2>10 DEF L
<1> QED
  BY <1>2, <1>3

\* A cut of what was cut before is the cut of it all, if what was dropped was
\* dropped for limit newer ones that are there.
LEMMA LatestOfLatest ==
  ASSUME NEW rows \in SUBSET FeedRows, IsFiniteSet(rows), NEW limit \in Nat,
         NEW cut \in SUBSET rows,
         \A x \in rows \ cut : \E part \in SUBSET rows :
            x \in part /\ x \notin Contract!Latest(part, limit) /\ Contract!Latest(part, limit) \subseteq cut
  PROVE  Contract!Latest(cut, limit) = Contract!Latest(rows, limit)
<1>1. \A x : /\ IsFiniteSet(NewerIn(rows, x)) /\ Cardinality(NewerIn(rows, x)) \in Nat
             /\ IsFiniteSet(NewerIn(cut, x)) /\ Cardinality(NewerIn(cut, x)) \in Nat
             /\ Cardinality(NewerIn(cut, x)) <= Cardinality(NewerIn(rows, x))
  <2> SUFFICES ASSUME NEW x
        PROVE /\ IsFiniteSet(NewerIn(rows, x)) /\ Cardinality(NewerIn(rows, x)) \in Nat
              /\ IsFiniteSet(NewerIn(cut, x)) /\ Cardinality(NewerIn(cut, x)) \in Nat
              /\ Cardinality(NewerIn(cut, x)) <= Cardinality(NewerIn(rows, x))
    OBVIOUS
  <2>1. NewerIn(rows, x) \subseteq rows /\ NewerIn(cut, x) \subseteq NewerIn(rows, x)
    BY DEF NewerIn
  <2>2. IsFiniteSet(NewerIn(rows, x))
    BY <2>1, FS_Subset
  <2> QED
    BY <2>1, <2>2, FS_Subset, FS_CardinalityType
\* a dropped row has limit newer ones in the cut, newer than what it is newer than
<1>2. ASSUME NEW x \in rows, NEW y \in rows \ cut, x = y \/ Contract!Newer(y, x)
      PROVE  Cardinality(NewerIn(cut, x)) >= limit
  <2>1. PICK part \in SUBSET rows : /\ y \in part /\ y \notin Contract!Latest(part, limit)
                                    /\ Contract!Latest(part, limit) \subseteq cut
    BY <1>2
  <2> DEFINE some == {z \in part \ Contract!Latest(part, limit) : z = x \/ Contract!Newer(z, x)}
  <2>2. some \in SUBSET part /\ some # {} /\ IsFiniteSet(part) /\ part \in SUBSET FeedRows
    BY <1>2, <2>1, FS_Subset
  <2>3. \A z \in some : \A v \in part \ Contract!Latest(part, limit) :
          Contract!Newer(v, z) => v \in some
    BY NewerOrders
  <2>4. \A z \in some : z \notin Contract!Latest(part, limit)
    OBVIOUS
  <2>5. PICK w \in some : /\ NewerIn(part, w) \subseteq Contract!Latest(part, limit)
                          /\ Cardinality(NewerIn(part, w)) >= limit
    <3> HIDE DEF some
    <3> QED
      BY <2>2, <2>3, <2>4, CutByLatest
  <2>6. NewerIn(part, w) \subseteq NewerIn(cut, x)
    BY <2>1, <2>5, NewerOrders DEF NewerIn
  <2>7. Cardinality(NewerIn(part, w)) <= Cardinality(NewerIn(cut, x))
    BY <1>1, <2>6, FS_Subset
  <2>8. Cardinality(NewerIn(part, w)) \in Nat
    BY <2>2, FS_Subset, FS_CardinalityType DEF NewerIn
  <2> QED
    BY <1>1, <2>5, <2>7, <2>8
<1>3. ASSUME NEW x \in Contract!Latest(rows, limit) PROVE x \in Contract!Latest(cut, limit)
  <2>1. x \in rows /\ Cardinality(NewerIn(rows, x)) < limit
    BY LatestTold
  <2>2. Cardinality(NewerIn(cut, x)) < limit
    BY <1>1, <2>1
  <2>3. x \in cut
    BY <1>1, <1>2, <2>1, <2>2
  <2> QED
    BY <2>2, <2>3, LatestTold
<1>4. ASSUME NEW x \in Contract!Latest(cut, limit) PROVE x \in Contract!Latest(rows, limit)
  <2>1. x \in cut /\ Cardinality(NewerIn(cut, x)) < limit
    BY LatestTold
  <2>2. \A y \in rows \ cut : ~Contract!Newer(y, x)
    BY <1>1, <1>2, <2>1
  <2>3. NewerIn(rows, x) = NewerIn(cut, x)
    BY <2>2 DEF NewerIn
  <2> QED
    BY <2>1, <2>3, LatestTold
<1> QED
  BY <1>3, <1>4

\* What a SELECT makes of the rows of a table: one row for an id.
RowsAt(kind, t, ids) == {[kind |-> kind, id |-> i, ts |-> t[i].ts, key |-> t[i].key] : i \in ids}

LEMMA RowsAtTold ==
  ASSUME NEW kind \in {"search", "click", "answer"}, NEW t, LogTable(t), NEW ids \in SUBSET DOMAIN t
  PROVE  /\ RowsAt(kind, t, ids) \subseteq FeedRows
         /\ \A x \in RowsAt(kind, t, ids) : x.kind = kind
         /\ \A x, y \in RowsAt(kind, t, ids) : x.id = y.id => x = y
         /\ IsFiniteSet(RowsAt(kind, t, ids))
         /\ Cardinality(RowsAt(kind, t, ids)) = Cardinality(ids)
<1> DEFINE row(i) == [kind |-> kind, id |-> i, ts |-> t[i].ts, key |-> t[i].key]
           g == [i \in ids |-> row(i)]
<1>1. \A i \in ids : i \in Ids /\ t[i].ts \in Contract!Times /\ t[i].key \in Keys
  BY DEF LogTable, Contract!LogRows
<1>2. RowsAt(kind, t, ids) \subseteq FeedRows
  BY <1>1 DEF RowsAt, FeedRows
<1>3. /\ \A x \in RowsAt(kind, t, ids) : x.kind = kind
      /\ \A x, y \in RowsAt(kind, t, ids) : x.id = y.id => x = y
  BY DEF RowsAt
<1>4. IsFiniteSet(ids)
  <2>1. ids \subseteq Ids
    BY <1>1
  <2> QED
    BY <2>1, IdsAssumption, FS_Subset
<1>5. g \in Bijection(ids, RowsAt(kind, t, ids))
  <2>1. \A i \in ids : g[i] = row(i) /\ g[i].id = i /\ row(i) \in RowsAt(kind, t, ids)
    BY DEF RowsAt
  <2>2. \A x \in RowsAt(kind, t, ids) : \E i \in ids : x = row(i)
    BY DEF RowsAt
  <2>3. g \in [ids -> RowsAt(kind, t, ids)]
    BY <2>1
  <2> HIDE DEF g, row
  <2>4. g \in Surjection(ids, RowsAt(kind, t, ids))
    BY <2>1, <2>2, <2>3 DEF Surjection
  <2>5. g \in Injection(ids, RowsAt(kind, t, ids))
    <3>1. \A i, j \in ids : g[i] = g[j] => i = j
      BY <2>1
    <3> QED
      BY <2>3, <3>1 DEF Injection, IsInjective
  <2> QED
    BY <2>4, <2>5 DEF Bijection
<1>6. ExistsBijection(ids, RowsAt(kind, t, ids))
  BY <1>5 DEF ExistsBijection
<1> QED
  BY <1>2, <1>3, <1>4, <1>6, FS_Bijection

\* The ids a filter lets through.
Passing(kind, t, f, t0) ==
  {i \in DOMAIN t :
     /\ t[i].ts >= f.since
     /\ f.q = None \/ kind = "click" \/ t[i].key = f.q
     /\ f.origin = None \/ t[i].origin = f.origin
     /\ f.cached => kind # "answer" /\ Contract!FreshAt(t[i].key, t0)}

LEMMA SelectedTold ==
  ASSUME NEW f, NEW t0
  PROVE  /\ Contract!Selected("search", f, t0) = RowsAt("search", searchLog, Passing("search", searchLog, f, t0))
         /\ Contract!Selected("click", f, t0) = RowsAt("click", clicks, Passing("click", clicks, f, t0))
         /\ Contract!Selected("answer", f, t0) = RowsAt("answer", answerLog, Passing("answer", answerLog, f, t0))
<1>1. /\ Contract!Table("search") = searchLog /\ Contract!Table("click") = clicks
      /\ Contract!Table("answer") = answerLog
  BY DEF Contract!Table
<1>2. \A kind \in {"search", "click", "answer"} :
        Contract!Selected(kind, f, t0) =
          RowsAt(kind, Contract!Table(kind), Passing(kind, Contract!Table(kind), f, t0))
  BY DEF Contract!Selected, RowsAt, Passing
<1> QED
  BY <1>1, <1>2

LEMMA SelectedShape ==
  ASSUME SqlInv, NEW f, NEW t0, NEW kind \in {"search", "click", "answer"}
  PROVE  /\ Contract!Selected(kind, f, t0) \subseteq FeedRows
         /\ \A x \in Contract!Selected(kind, f, t0) : x.kind = kind
         /\ \A x, y \in Contract!Selected(kind, f, t0) : x.id = y.id => x = y
         /\ IsFiniteSet(Contract!Selected(kind, f, t0))
<1> DEFINE Told(rows) == /\ rows \subseteq FeedRows
                         /\ \A x \in rows : x.kind = kind
                         /\ \A x, y \in rows : x.id = y.id => x = y
                         /\ IsFiniteSet(rows)
<1>1. /\ Passing("search", searchLog, f, t0) \subseteq DOMAIN searchLog
      /\ Passing("click", clicks, f, t0) \subseteq DOMAIN clicks
      /\ Passing("answer", answerLog, f, t0) \subseteq DOMAIN answerLog
  BY DEF Passing
<1>2. LogTable(searchLog) /\ LogTable(clicks) /\ LogTable(answerLog)
  BY DEF SqlInv
<1>3. \/ kind = "search" /\ Told(RowsAt("search", searchLog, Passing("search", searchLog, f, t0)))
      \/ kind = "click" /\ Told(RowsAt("click", clicks, Passing("click", clicks, f, t0)))
      \/ kind = "answer" /\ Told(RowsAt("answer", answerLog, Passing("answer", answerLog, f, t0)))
  BY <1>1, <1>2, RowsAtTold
<1> HIDE DEF Told
<1>4. Told(Contract!Selected(kind, f, t0))
  BY <1>3, SelectedTold
<1> QED
  BY <1>4 DEF Told

\* A cached row is fresh in the promise when the table has it unexpired.
LEMMA FreshByRow ==
  ASSUME SqlInv, NEW k \in Keys, NEW t0
  PROVE  Contract!FreshAt(k, t0) <=> \E r \in DOMAIN entries : entries[r].key = k /\ entries[r].expires > t0
<1>1. CacheOf = Entries(entries) /\ EntryTable(entries)
  BY CacheShown DEF SqlInv
<1>2. ASSUME NEW r \in DOMAIN entries, entries[r].key = k
      PROVE  CacheOf[k] # None /\ CacheOf[k].expires = entries[r].expires
  <2>1. CacheOf[k] = EntryShown(entries[r]) /\ CacheOf[k] # None
    BY <1>1, <1>2, EntryOf
  <2>2. EntryShown(entries[r]).expires = entries[r].expires
    BY DEF EntryShown
  <2> QED
    BY <2>1, <2>2
<1>3. ASSUME \A r \in DOMAIN entries : entries[r].key # k PROVE CacheOf[k] = None
  BY <1>1, <1>3, EntryOf
<1>4. CASE \E r \in DOMAIN entries : entries[r].key = k
  <2>1. PICK r \in DOMAIN entries : entries[r].key = k
    BY <1>4
  <2>2. \A s \in DOMAIN entries : entries[s].key = k => s = r
    BY <1>1, <2>1 DEF EntryTable
  <2> QED
    BY <1>2, <2>1, <2>2 DEF Contract!FreshAt
<1>5. CASE \A r \in DOMAIN entries : entries[r].key # k
  BY <1>3, <1>5 DEF Contract!FreshAt
<1> QED
  BY <1>4, <1>5

\* The SELECTs and the count agree with the plain tables.
LEMMA FeedsShow == SqlInv => FeedAgrees
<1> SUFFICES ASSUME SqlInv, NEW f \in FeedFilters
    PROVE  SqlFeed(f) = Contract!Feed(f) /\ SqlMatching(f) = Contract!Matching(f)
  BY DEF FeedAgrees
<1> DEFINE Sel(kind) == Contract!Selected(kind, f, now)
           rows == Sel("search") \cup Sel("click") \cup Sel("answer")
           cut == Contract!Latest(Sel("search"), f.limit) \cup Contract!Latest(Sel("click"), f.limit)
                    \cup Contract!Latest(Sel("answer"), f.limit)
<1>1. f.limit \in Nat
  BY FiltersAssumption
<1>2. Contract!Feed(f) = Contract!Latest(rows, f.limit)
  <2>1. UNION {Sel(Contract!Kinds[n]) : n \in 1..3} = rows
    <3>1. /\ Contract!Kinds[1] = "search" /\ Contract!Kinds[2] = "click"
          /\ Contract!Kinds[3] = "answer" /\ 1..3 = {1, 2, 3}
      BY DEF Contract!Kinds
    <3> HIDE DEF Sel
    <3>2. {Sel(Contract!Kinds[n]) : n \in 1..3} = {Sel("search"), Sel("click"), Sel("answer")}
      BY <3>1
    <3> QED
      BY <3>2
  <2> QED
    BY <2>1 DEF Contract!Feed
<1>3. SqlFeed(f) = Contract!Latest(cut, f.limit)
  <2> DEFINE Stmt(kind) == Contract!Latest(Sel(kind), f.limit)
  <2>1. UNION {Stmt(FeedOrder[n]) : n \in 1..3} = cut
    <3>1. /\ FeedOrder[1] = "search" /\ FeedOrder[2] = "click"
          /\ FeedOrder[3] = "answer" /\ 1..3 = {1, 2, 3}
      BY DEF FeedOrder
    <3> HIDE DEF Sel, Stmt
    <3>2. {Stmt(FeedOrder[n]) : n \in 1..3} = {Stmt("search"), Stmt("click"), Stmt("answer")}
      BY <3>1
    <3> QED
      BY <3>2 DEF Stmt
  <2> QED
    BY <2>1 DEF SqlFeed, Merged, Statement
<1>4. /\ \A kind \in {"search", "click", "answer"} : Sel(kind) \subseteq FeedRows /\ IsFiniteSet(Sel(kind))
      /\ \A S : Contract!Latest(S, f.limit) \subseteq S
  BY SelectedShape, LatestTold
<1> HIDE DEF Sel
<1>5. rows \in SUBSET FeedRows /\ IsFiniteSet(rows)
  BY <1>4, FS_Union
<1>6. cut \in SUBSET rows
  BY <1>4
<1>7. ASSUME NEW x \in rows \ cut
      PROVE  \E part \in SUBSET rows :
               /\ x \in part /\ x \notin Contract!Latest(part, f.limit)
               /\ Contract!Latest(part, f.limit) \subseteq cut
  <2>1. PICK kind \in {"search", "click", "answer"} : x \in Sel(kind)
    OBVIOUS
  <2>2. Sel(kind) \in SUBSET rows /\ Contract!Latest(Sel(kind), f.limit) \subseteq cut
    OBVIOUS
  <2>3. x \notin Contract!Latest(Sel(kind), f.limit)
    BY <2>2
  <2> HIDE DEF rows, cut
  <2> QED
    BY <2>1, <2>2, <2>3
<1>8. Contract!Latest(cut, f.limit) = Contract!Latest(rows, f.limit)
  <2> HIDE DEF rows, cut
  <2> QED
    BY <1>1, <1>5, <1>6, <1>7, LatestOfLatest
<1>9. SqlMatching(f) = Contract!Matching(f)
  <2>1. /\ Cardinality(Sel("search")) = Cardinality(Passing("search", searchLog, f, now))
        /\ Cardinality(Sel("answer")) = Cardinality(Passing("answer", answerLog, f, now))
    <3>1. /\ Passing("search", searchLog, f, now) \subseteq DOMAIN searchLog
          /\ Passing("answer", answerLog, f, now) \subseteq DOMAIN answerLog
          /\ LogTable(searchLog) /\ LogTable(answerLog)
      BY DEF Passing, SqlInv
    <3>2. /\ Sel("search") = RowsAt("search", searchLog, Passing("search", searchLog, f, now))
          /\ Sel("answer") = RowsAt("answer", answerLog, Passing("answer", answerLog, f, now))
      BY SelectedTold DEF Sel
    <3> QED
      BY <3>1, <3>2, RowsAtTold
  <2> DEFINE asked(t) == {i \in DOMAIN t : /\ t[i].ts >= f.since
                                           /\ f.q = None \/ t[i].key = f.q
                                           /\ f.origin = None \/ t[i].origin = f.origin}
             cached(i) == \E r \in DOMAIN entries :
                             entries[r].key = searchLog[i].key /\ entries[r].expires > now
  <2>2. Passing("search", searchLog, f, now) = {i \in asked(searchLog) : f.cached => cached(i)}
    <3>1. \A i \in DOMAIN searchLog : Contract!FreshAt(searchLog[i].key, now) <=> cached(i)
      BY FreshByRow DEF SqlInv, LogTable, Contract!LogRows
    <3> QED
      BY <3>1 DEF Passing
  <2>3. Passing("answer", answerLog, f, now) = IF f.cached THEN {} ELSE asked(answerLog)
    BY DEF Passing
  <2>4. Cardinality({}) = 0
    BY FS_EmptySet
  <2>5. SqlMatching(f) = Cardinality({i \in asked(searchLog) : f.cached => cached(i)})
                           + (IF f.cached THEN 0 ELSE Cardinality(asked(answerLog)))
    BY DEF SqlMatching
  <2>6. Contract!Matching(f) = Cardinality(Sel("search")) + Cardinality(Sel("answer"))
    <3>1. \A S : Contract!Cardinality(S) = Cardinality(S)
      BY DEF Contract!Cardinality, Cardinality, Contract!IsFiniteSet, IsFiniteSet
    <3> QED
      BY <3>1 DEF Contract!Matching, Sel
  <2> HIDE DEF asked, cached
  <2> QED
    BY <2>1, <2>2, <2>3, <2>4, <2>5, <2>6
<1> QED
  BY <1>2, <1>3, <1>8, <1>9

\* list_history, history_stats: cutting each table at the limit and merging
\* loses no row of the feed, and the count above it is of the rows the same
\* filter matches, for any tables, filters and limits.
THEOREM FeedHolds == Spec => []FeedAgrees
<1>1. IInv => FeedAgrees
  BY FeedsShow DEF IInv
<1> QED
  BY <1>1, Invariance, PTL

\* What a read under way has found: rows of the kinds it has been through, one
\* for an id; of a query known when it began a search, or limit rows instead.
FeedRecords ==
  [at : 0..3, filter : FeedFilters \cup {None}, began : Contract!Times,
   found : SUBSET FeedRows, known : SUBSET Keys]

FeedInv ==
  /\ feed \in FeedRecords
  /\ feed.at # 0 =>
       /\ feed.filter \in FeedFilters
       /\ IsFiniteSet(feed.found)
       /\ \A x \in feed.found : \E n \in 1..feed.at : x.kind = FeedOrder[n]
       /\ \A x, y \in feed.found : x.kind = y.kind /\ x.id = y.id => x = y
       /\ \A q \in feed.known :
            \/ \E x \in feed.found : x.kind = "search" /\ x.key = q
            \/ Cardinality(feed.found) >= feed.filter.limit

LEMMA IdleFeed == feed = Idle => FeedInv
<1>1. 0 \in Contract!Times
  BY TimesAssumption DEF Contract!Times
<1> QED
  BY <1>1 DEF Idle, FeedInv, FeedRecords

\* The rows of one SELECT.
LEMMA StatementTold ==
  ASSUME SqlInv, NEW n \in 1..3, NEW f \in FeedFilters, NEW t0
  PROVE  /\ Statement(FeedOrder[n], f, t0) \subseteq FeedRows
         /\ IsFiniteSet(Statement(FeedOrder[n], f, t0))
         /\ \A x \in Statement(FeedOrder[n], f, t0) : x.kind = FeedOrder[n]
         /\ \A x, y \in Statement(FeedOrder[n], f, t0) : x.id = y.id => x = y
<1>1. FeedOrder[n] \in {"search", "click", "answer"}
  <2>1. n = 1 \/ n = 2 \/ n = 3
    OBVIOUS
  <2> QED
    BY <2>1 DEF FeedOrder
<1>2. Statement(FeedOrder[n], f, t0) \subseteq Contract!Selected(FeedOrder[n], f, t0)
  BY LatestTold DEF Statement
<1> HIDE DEF FeedOrder
<1> DEFINE kind == FeedOrder[n]
           Sel == Contract!Selected(kind, f, t0)
<1>3. /\ Sel \subseteq FeedRows /\ IsFiniteSet(Sel)
      /\ \A x \in Sel : x.kind = kind
      /\ \A x, y \in Sel : x.id = y.id => x = y
  BY <1>1, SelectedShape
<1>4. IsFiniteSet(Statement(kind, f, t0))
  BY <1>2, <1>3, FS_Subset
<1> QED
  BY <1>2, <1>3, <1>4

LEMMA BeginFeedInv == SqlInv /\ BeginFeed => FeedInv'
<1> SUFFICES ASSUME SqlInv, BeginFeed PROVE FeedInv'
  OBVIOUS
<1>1. PICK f \in FeedFilters : feed' =
       [at |-> 1, filter |-> f, began |-> now, found |-> Statement(FeedOrder[1], f, now),
        known |-> {x.key : x \in Contract!Selected("search", f, now)}]
  BY DEF BeginFeed
<1> DEFINE found == Statement(FeedOrder[1], f, now)
           rows == Contract!Selected("search", f, now)
<1>2. /\ found \subseteq FeedRows /\ IsFiniteSet(found)
      /\ \A x \in found : x.kind = FeedOrder[1]
      /\ \A x, y \in found : x.id = y.id => x = y
  BY StatementTold
<1>3. /\ rows \subseteq FeedRows /\ IsFiniteSet(rows)
      /\ \A x \in rows : x.kind = "search"
  BY SelectedShape
<1>4. found = Contract!Latest(rows, f.limit) /\ f.limit \in Nat
  BY FiltersAssumption DEF FeedOrder, Statement
<1>5. found = rows \/ Cardinality(found) >= f.limit
  <2> HIDE DEF found, rows
  <2> QED
    BY <1>3, <1>4, LatestFills
<1>6. \A q \in {x.key : x \in rows} :
        (\E x \in found : x.kind = "search" /\ x.key = q) \/ Cardinality(found) >= f.limit
  BY <1>3, <1>5
<1>7. {x.key : x \in rows} \subseteq Keys
  BY <1>3 DEF FeedRows
<1>8. now \in Contract!Times
  BY DEF SqlInv
<1> HIDE DEF found, rows
<1>9. feed' = [at |-> 1, filter |-> f, began |-> now, found |-> found,
               known |-> {x.key : x \in rows}]
  BY <1>1 DEF found, rows
<1>10. /\ feed'.at = 1 /\ feed'.filter = f /\ feed'.found = found
       /\ feed'.known = {x.key : x \in rows}
  BY <1>9
<1>11. feed' \in FeedRecords'
  <2>1. FeedRecords' = FeedRecords
    BY DEF FeedRecords, FeedRows, Contract!Times
  <2> QED
    BY <1>2, <1>7, <1>8, <1>9, <2>1 DEF FeedRecords
<1> QED
  BY <1>2, <1>6, <1>10, <1>11 DEF FeedInv

LEMMA NextStatementInv == SqlInv /\ FeedInv /\ NextStatement => FeedInv'
<1> SUFFICES ASSUME SqlInv, FeedInv, NextStatement PROVE FeedInv'
  OBVIOUS
<1> DEFINE f == feed.filter
           more == Statement(FeedOrder[feed.at + 1], f, feed.began)
           found == feed.found \cup more
<1>1. /\ feed.at \in {1, 2} /\ feed \in FeedRecords
      /\ feed' = [feed EXCEPT !.at = @ + 1, !.found = @ \cup more]
  BY DEF NextStatement, FeedInv
<1>2. /\ f \in FeedFilters /\ IsFiniteSet(feed.found) /\ feed.found \subseteq FeedRows
      /\ \A x \in feed.found : \E n \in 1..feed.at : x.kind = FeedOrder[n]
      /\ \A x, y \in feed.found : x.kind = y.kind /\ x.id = y.id => x = y
      /\ \A q \in feed.known :
            \/ \E x \in feed.found : x.kind = "search" /\ x.key = q
            \/ Cardinality(feed.found) >= f.limit
  BY <1>1 DEF FeedInv, FeedRecords
<1>3. feed.at + 1 \in 1..3
  BY <1>1
<1>4. /\ more \subseteq FeedRows /\ IsFiniteSet(more)
      /\ \A x \in more : x.kind = FeedOrder[feed.at + 1]
      /\ \A x, y \in more : x.id = y.id => x = y
  BY <1>2, <1>3, StatementTold
<1>5. \A n \in 1..feed.at : FeedOrder[n] # FeedOrder[feed.at + 1]
  <2>1. \A n \in 1..feed.at : n = 1 \/ (n = 2 /\ feed.at = 2)
    BY <1>1
  <2> QED
    BY <1>1, <2>1 DEF FeedOrder
<1> HIDE DEF f, more
<1>6. /\ feed' \in FeedRecords /\ feed'.at = feed.at + 1 /\ feed'.filter = f
      /\ feed'.found = found /\ feed'.known = feed.known
  <2>1. /\ DOMAIN feed = {"at", "filter", "began", "found", "known"}
        /\ feed.filter \in FeedFilters \cup {None} /\ feed.began \in Contract!Times
        /\ feed.known \subseteq Keys /\ found \in SUBSET FeedRows
    BY <1>1, <1>2, <1>4 DEF FeedRecords
  <2> HIDE DEF found
  <2>2. feed' = [feed EXCEPT !.at = feed.at + 1, !.found = found]
    BY <1>1 DEF found
  <2>3. feed' = [at |-> feed.at + 1, filter |-> feed.filter, began |-> feed.began,
                 found |-> found, known |-> feed.known]
    BY <1>1, <2>2 DEF FeedRecords
  <2> QED
    BY <1>3, <2>1, <2>3 DEF FeedRecords, f
<1>7. found \subseteq FeedRows /\ IsFiniteSet(found)
  BY <1>2, <1>4, FS_Union
<1>8. \A x \in found : \E n \in 1..feed.at + 1 : x.kind = FeedOrder[n]
  <2>1. \A n \in 1..feed.at : n \in 1..feed.at + 1
    BY <1>1
  <2>2. feed.at + 1 \in 1..feed.at + 1
    BY <1>1
  <2> QED
    BY <1>2, <1>4, <2>1, <2>2
<1>9. \A x, y \in found : x.kind = y.kind /\ x.id = y.id => x = y
  BY <1>2, <1>4, <1>5
<1>10. \A q \in feed.known :
         (\E x \in found : x.kind = "search" /\ x.key = q) \/ Cardinality(found) >= f.limit
  <2>1. Cardinality(feed.found) <= Cardinality(found)
    BY <1>7, FS_Subset
  <2>2. Cardinality(feed.found) \in Nat /\ Cardinality(found) \in Nat /\ f.limit \in Nat
    BY <1>2, <1>7, FS_CardinalityType, FiltersAssumption
  <2> HIDE DEF found
  <2>3. feed.found \subseteq found
    BY DEF found
  <2> QED
    BY <1>2, <2>1, <2>2, <2>3
<1>11. FeedRecords' = FeedRecords
  BY DEF FeedRecords, FeedRows, Contract!Times
<1> QED
  BY <1>2, <1>6, <1>7, <1>8, <1>9, <1>10, <1>11 DEF FeedInv

\* Nothing but the read itself, and a crash, moves the read.
LEMMA RequestKeepsFeed ==
  ASSUME NEW c \in Calls, Request(c) \/ WriteAuditRow(c)
  PROVE  UNCHANGED feed
<1>1. \A action, done, strict : Answered(c, action, done, strict) => UNCHANGED feed
  BY DEF Answered
<1>2. \A action, done : Then(c, action, done) \/ NotFound(c, action) => UNCHANGED feed
  BY <1>1 DEF Then, NotFound
<1>3. CASE HistoryDelete(c) \/ AnswerLogDelete(c)
  BY <1>2, <1>3 DEF HistoryDelete, AnswerLogDelete
<1>4. CASE CacheDelete(c) \/ CacheBulkDelete(c) \/ CacheInvalidate(c)
  BY <1>2, <1>4 DEF CacheDelete, CacheDeleteAs, CacheBulkDelete, CacheInvalidate
<1>5. CASE PagesIndex(c) \/ PagesDelete(c) \/ FetchTool(c)
  BY <1>1, <1>2, <1>5 DEF PagesIndex, PagesDelete, FetchTool
<1>6. CASE SearchWeb(c) \/ CacheStatus(c) \/ ExaSearch(c) \/ SearchArchive(c)
  BY <1>1, <1>6 DEF SearchWeb, CacheStatus, ExaSearch, SearchArchive, ReadTool
<1>7. CASE WriteAuditRow(c)
  BY <1>7 DEF WriteAuditRow
<1> QED
  BY <1>3, <1>4, <1>5, <1>6, <1>7 DEF Request

LEMMA NextFeedInv == IInv /\ FeedInv /\ [Next]_vars => FeedInv'
<1> SUFFICES ASSUME IInv, FeedInv, [Next]_vars PROVE FeedInv'
  OBVIOUS
<1>1. SqlInv
  BY DEF IInv
<1>2. CASE UNCHANGED feed
  <2>1. FeedRecords' = FeedRecords
    BY DEF FeedRecords, FeedRows, Contract!Times
  <2> QED
    BY <1>2, <2>1 DEF FeedInv
<1>3. CASE BeginFeed
  BY <1>1, <1>3, BeginFeedInv
<1>4. CASE NextStatement
  BY <1>1, <1>4, NextStatementInv
<1>5. CASE feed' = Idle
  <2>1. FeedRecords' = FeedRecords /\ Idle \in FeedRecords /\ Idle.at = 0
    BY TimesAssumption DEF FeedRecords, FeedRows, Contract!Times, Idle
  <2> QED
    BY <1>5, <2>1 DEF FeedInv
<1>6. CASE Write \/ Tick \/ BeginSweep \/ Sweep \/ SetGrace \/ UNCHANGED vars
  BY <1>2, <1>6 DEF Write, Tick, BeginSweep, Sweep, SetGrace, sqlVars, vars
<1>7. CASE EndFeed \/ Crash
  BY <1>5, <1>7 DEF EndFeed, Crash
<1>8. CASE \E c \in Calls : Request(c) \/ WriteAuditRow(c)
  BY <1>2, <1>8, RequestKeepsFeed
<1> QED
  BY <1>3, <1>4, <1>6, <1>7, <1>8 DEF Next

\* The row a query's clicks belong to never disappears while its clicks stay
\* visible (store/history.rs, list_history): a feed that is not full shows the
\* query of each click it shows, whatever is written between its SELECTs.
THEOREM ClicksHold == Spec => []ClicksShowTheirQuery
<1>1. Init => FeedInv
  BY IdleFeed DEF Init, SqlInit
<1>2. FeedInv => ClicksShowTheirQuery
  <2> SUFFICES ASSUME FeedInv, feed.at = 3,
                      NEW c \in Merged(feed.found, feed.filter.limit), c.kind = "click", c.key \in feed.known
      PROVE  \/ \E s \in Merged(feed.found, feed.filter.limit) : s.kind = "search" /\ s.key = c.key
             \/ Cardinality(Merged(feed.found, feed.filter.limit)) = feed.filter.limit
    BY DEF ClicksShowTheirQuery
  <2> DEFINE found == feed.found
             limit == feed.filter.limit
             L == Contract!Latest(found, limit)
  <2>1. /\ limit \in Nat /\ IsFiniteSet(found) /\ found \in SUBSET FeedRows
        /\ \A x, y \in found : x.kind = y.kind /\ x.id = y.id => x = y
        /\ \/ \E x \in found : x.kind = "search" /\ x.key = c.key
           \/ Cardinality(found) >= limit
    BY FiltersAssumption DEF FeedInv, FeedRecords
  <2> HIDE DEF found, limit
  <2>2. L \subseteq found /\ (L = found \/ Cardinality(L) >= limit)
    BY <2>1, LatestFills
  <2>3. Cardinality(L) <= limit
    BY <2>1, LatestFits
  <2>4. Cardinality(L) \in Nat
    BY <2>1, <2>2, FS_Subset, FS_CardinalityType
  <2>5. (\E s \in L : s.kind = "search" /\ s.key = c.key) \/ Cardinality(L) = limit
    BY <2>1, <2>2, <2>3, <2>4
  <2> QED
    BY <2>5 DEF Merged, found, limit
<1>3. Spec => [](IInv /\ FeedInv)
  BY <1>1, InitShows, NextShows, NextFeedInv, PTL DEF Spec
<1> QED
  BY <1>2, <1>3, PTL

-----------------------------------------------------------------------------
(* Type correctness.  The rows are typed by SqlInv, the reads by FeedInv;  *)
(* what is left is that AUTOINCREMENT stays within the ids there are.      *)

IdInv == 1..answerSeq \subseteq Ids /\ sweep.grace \in Graces \cup {0}

\* A request neither logs an answer nor sweeps.
LEMMA RequestKeepsIds ==
  ASSUME NEW c \in Calls, Request(c) \/ WriteAuditRow(c)
  PROVE  answerSeq' = answerSeq /\ sweep' = sweep
<1>1. \A action, done, strict : Answered(c, action, done, strict) => sweep' = sweep
  BY DEF Answered
<1>2. /\ \A action, done : Then(c, action, done) => sweep' = sweep
      /\ \A action : NotFound(c, action) => answerSeq' = answerSeq /\ sweep' = sweep
  BY <1>1 DEF Then, NotFound, tables
<1>3. \A id : DeleteSearchLog(id) \/ DeleteAnswerLog(id) => answerSeq' = answerSeq
  BY DEF DeleteSearchLog, DeleteAnswerLog
<1>4. \A rs : DeleteEntries(rs) \/ DeletePages(rs) => answerSeq' = answerSeq
  BY DEF DeleteEntries, DeletePages
<1>5. \A u, text : PutPage(u, text) => answerSeq' = answerSeq
  BY DEF PutPage
<1>6. CASE HistoryDelete(c) \/ AnswerLogDelete(c)
  BY <1>2, <1>3, <1>6 DEF HistoryDelete, AnswerLogDelete
<1>7. CASE CacheDelete(c) \/ CacheBulkDelete(c) \/ CacheInvalidate(c)
  BY <1>2, <1>4, <1>7 DEF CacheDelete, CacheDeleteAs, CacheBulkDelete, CacheInvalidate
<1>8. CASE PagesIndex(c) \/ PagesDelete(c) \/ FetchTool(c)
  BY <1>1, <1>2, <1>4, <1>5, <1>8 DEF PagesIndex, PagesDelete, FetchTool
<1>9. CASE SearchWeb(c) \/ CacheStatus(c) \/ ExaSearch(c) \/ SearchArchive(c)
  BY <1>1, <1>9 DEF SearchWeb, CacheStatus, ExaSearch, SearchArchive, ReadTool, tables
<1>10. CASE WriteAuditRow(c)
  BY <1>10 DEF WriteAuditRow, WriteAudit, tables
<1> QED
  BY <1>6, <1>7, <1>8, <1>9, <1>10 DEF Request

LEMMA NextIdInv == IInv /\ IdInv /\ [Next]_vars => IdInv'
<1> SUFFICES ASSUME IInv, IdInv, [Next]_vars PROVE IdInv'
  OBVIOUS
<1>1. CASE UNCHANGED <<answerSeq, sweep>>
  BY <1>1 DEF IdInv
<1>2. CASE Write
  <2>1. sweep' = sweep
    BY <1>2 DEF Write
  <2>2. answerSeq' = answerSeq \/ (answerSeq' = answerSeq + 1 /\ answerSeq + 1 \in Ids)
    BY <1>2 DEF Write, GetExact, PutCache, PutPage, LogSearch, RecordClick, LogAnswer, NextAnswerId
  <2>3. answerSeq \in Nat
    BY DEF IInv, SqlInv
  <2> QED
    BY <2>1, <2>2, <2>3 DEF IdInv
<1>3. CASE BeginSweep
  BY <1>3 DEF BeginSweep, IInv, SweepInv, IdInv, sqlVars, tables
<1>4. CASE Sweep \/ Crash
  BY <1>4 DEF Sweep, Crash, DeleteEntries, NoSweep, IdInv, tables
<1>5. CASE \E c \in Calls : Request(c) \/ WriteAuditRow(c)
  BY <1>1, <1>5, RequestKeepsIds
<1>6. CASE (BeginFeed \/ Tick \/ NextStatement \/ EndFeed \/ SetGrace) /\ UNCHANGED sweep
  BY <1>1, <1>6 DEF BeginFeed, NextStatement, EndFeed, Tick, SetGrace, sqlVars, tables
<1>7. CASE UNCHANGED vars
  BY <1>1, <1>7 DEF vars, sqlVars, tables, apiVars
<1> QED
  BY <1>2, <1>3, <1>4, <1>5, <1>6, <1>7 DEF Next, apiVars, SetGrace

\* Every reachable state of the store and of its surface is well typed: rows,
\* shown rows, ids, reads, requests and sweeps.
THEOREM TypeCorrect == Spec => []TypeOK
<1>1. IInv /\ FeedInv /\ IdInv => TypeOK
  <2> SUFFICES ASSUME IInv, FeedInv, IdInv PROVE TypeOK
    OBVIOUS
  <2>1. SqlInv /\ CallInv /\ SweepInv
    BY DEF IInv
  <2>2. ASSUME NEW k \in Keys PROVE CacheOf[k] = None \/ CacheOf[k] \in Contract!CacheRows
    <3> DEFINE rs == {r \in DOMAIN entries : entries[r].key = k}
               e  == entries[CHOOSE r \in rs : TRUE]
    <3>1. CASE rs = {}
      BY <3>1 DEF CacheOf
    <3>2. CASE rs # {}
      <4>1. (CHOOSE r \in rs : TRUE) \in DOMAIN entries
        BY <3>2
      <4>2. e \in EntryRows
        BY <2>1, <4>1 DEF SqlInv, EntryTable
      <4>3. CacheOf[k] = [doc |-> e.doc, created |-> e.created, expires |-> e.expires, hits |-> e.hits]
        BY <3>2 DEF CacheOf
      <4> QED
        BY <4>2, <4>3 DEF EntryRows, Contract!CacheRows
    <3> QED
      BY <3>1, <3>2
  <2>3. ASSUME NEW u \in Urls PROVE PagesOf[u] = None \/ PagesOf[u] \in Contract!PageRows
    <3> DEFINE rs == {r \in DOMAIN pageRows : pageRows[r].url = u}
               p  == pageRows[CHOOSE r \in rs : TRUE]
    <3>1. CASE rs = {}
      BY <3>1 DEF PagesOf
    <3>2. CASE rs # {}
      <4>1. (CHOOSE r \in rs : TRUE) \in DOMAIN pageRows
        BY <3>2
      <4>2. p \in PageTable
        BY <2>1, <4>1 DEF SqlInv, PagesTable
      <4>3. PagesOf[u] = [text |-> p.text, fetched |-> p.fetched]
        BY <3>2 DEF PagesOf
      <4> QED
        BY <4>2, <4>3 DEF PageTable, Contract!PageRows
    <3> QED
      BY <3>1, <3>2
  <2>4. \A t \in {searchLog, clicks, answerLog} :
          DOMAIN t \subseteq Ids /\ \A i \in DOMAIN t : t[i] \in Contract!LogRows
    BY <2>1 DEF SqlInv, LogTable
  <2>5. DOMAIN answerLog \subseteq 1..answerSeq /\ 1..answerSeq \subseteq Ids /\ now \in Contract!Times
    BY <2>1 DEF SqlInv, IdInv
  <2>6. Contract!StoreTypeOK
    BY <2>2, <2>3, <2>4, <2>5 DEF Contract!StoreTypeOK
  <2>7. SqlTypeOK
    BY <2>6 DEF SqlTypeOK, FeedInv, FeedRecords
  <2>8. ApiTypeOK
    BY <2>1 DEF ApiTypeOK, CallInv, CallRecords, Stages, SweepInv, IdInv
  <2> QED
    BY <2>7, <2>8 DEF TypeOK
<1>2. Init => FeedInv /\ IdInv
  <2> SUFFICES ASSUME Init PROVE FeedInv /\ IdInv
    OBVIOUS
  <2>1. FeedInv
    BY IdleFeed DEF Init, SqlInit
  <2>2. answerSeq = 0 /\ sweep = NoSweep
    BY DEF Init, SqlInit
  <2>3. 1..0 = {}
    OBVIOUS
  <2> QED
    BY <2>1, <2>2, <2>3 DEF IdInv, NoSweep
<1>3. Spec => [](IInv /\ FeedInv /\ IdInv)
  BY <1>2, InitShows, NextShows, NextFeedInv, NextIdInv, PTL DEF Spec
<1> QED
  BY <1>1, <1>3, PTL
=============================================================================

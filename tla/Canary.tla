------------------------------- MODULE Canary -------------------------------
(***************************************************************************)
(* `cauce engine test' (cauce-cli cmds/engine.rs; cauce-engines            *)
(* declarative/{canary,fixtures,loading}.rs): a recorded query's page and  *)
(* what its spec made of it are kept as a pair of files; offline the pairs *)
(* are replayed, live the canary compares what the site serves now with    *)
(* the first good pair of every spec.                                      *)
(*                                                                         *)
(* A page is its urls in order, how many of its rows have a title, and the *)
(* markup it is written in; a spec's selectors fit one markup.             *)
(***************************************************************************)
EXTENDS Naturals, Sequences, FiniteSets

CONSTANTS Specs,       \* specs, in the order of their names: 1..n
          Recorded,    \* the queries that may be recorded, in the order of their stems: 1..n
          Sites,       \* what a site may serve: [page1, page2], a page, or Absent when down
          Markups,     \* what selectors may fit: [container, title]
          Unloadable,  \* a spec file that does not compile
          Absent,      \* no such file, no recorder, no answer
          MaxRecords,  \* bound: how many recordings a behaviour starts
          MaxChanges   \* bound: how often a site changes or a spec is edited

SitePages == {page \in [urls : Seq(STRING), titled : Nat, container : STRING, title : STRING] :
                page.titled <= Len(page.urls)}

ASSUME SitesAssumption ==
    /\ Absent \notin SitePages
    /\ Sites \subseteq [page1 : SitePages \cup {Absent}, page2 : SitePages \cup {Absent}]
ASSUME MarkupsAssumption ==
    /\ Unloadable \notin Markups /\ Markups \subseteq [container : STRING, title : STRING]
    /\ \A fit \in Markups : fit.container # "captcha"
ASSUME RecordedAssumption == Recorded \subseteq Nat

VARIABLES
    selectors,  \* selectors[s]: a markup, or Unloadable
    site,       \* site[s]
    files,      \* files[s][q] = [body, expected]: the fixture pair
    recorder,   \* a `--live --record' that has fetched, or Absent
    started,    \* recordings started
    changes,    \* site changes and spec edits so far
    printed     \* what the last command said, forgotten when anything changes

canaryVars == <<selectors, site, files, recorder, started, changes, printed>>

NothingPrinted == [cmd |-> "none", of |-> 0, failed |-> {}, exit |-> 0]

-----------------------------------------------------------------------------
(* CompiledSpec::parse_response, as far as drift goes: the error it makes  *)
(* of a page, or the rows.                                                 *)
ErrorOf(fit, page) ==
    CASE page.container = "captcha" -> "blocked"
      [] page.container # "captcha" /\ (fit.container # page.container \/ page.urls = <<>>) -> "parse"
      [] OTHER -> "ok"

Expect(fit, page) ==
    LET error == ErrorOf(fit, page) IN
    [error  |-> error,
     urls   |-> IF error = "ok" THEN page.urls ELSE <<>>,
     titled |-> IF error = "ok" /\ fit.title = page.title THEN page.titled ELSE 0]

(* fixture_pairs: a body without its expected file fails the whole spec.   *)
BodyFiles(s) == {q \in Recorded : files[s][q].body # Absent}
Orphaned(s) == \E q \in BodyFiles(s) : files[s][q].expected = Absent

-----------------------------------------------------------------------------
(* The canary.                                                             *)

(* baseline: the pairs that assert a page with results, the first by name. *)
GoodPairs(s) == {q \in BodyFiles(s) : LET e == files[s][q].expected IN
                    e # Absent /\ e.error = "ok" /\ e.urls # <<>>}

\* Mutated UsablePairs: any pair will do.
UsablePairsAny(s) == BodyFiles(s)

UsablePairs(s) == GoodPairs(s)

Baseline(s) == files[s][CHOOSE q \in UsablePairs(s) : \A r \in UsablePairs(s) : q <= r].expected

(* url_overlap: page-2 rows whose url is on page 1, repeated ones counted  *)
(* each time, against the shorter page.                                    *)
Shared(one, two) == Cardinality({i \in DOMAIN two : \E j \in DOMAIN one : one[j] = two[i]})
Shorter(one, two) == IF Len(one) < Len(two) THEN Len(one) ELSE Len(two)

(* evaluate, check_fill_rates: under half of the rows, a title filled less *)
(* than half as often, more than seven tenths of page 1 on page 2.  A page *)
(* 2 that cannot be had, or has no rows, is a note.                        *)
Degraded(live, base) ==
    \/ live.error # "ok"
    \/ 2 * Len(live.urls) < Len(base.urls)
    \/ base.titled > 0 /\ 2 * live.titled * Len(base.urls) < base.titled * Len(live.urls)

ServesPage1Again(one, two) ==
    /\ one.error = "ok" /\ two.error = "ok"
    /\ 10 * Shared(one.urls, two.urls) > 7 * Shorter(one.urls, two.urls)

(* DeclarativeEngine::fetch and parse of one page of the live site.        *)
LivePage(s, page) ==
    IF page = Absent THEN [error |-> "transport", urls |-> <<>>, titled |-> 0]
    ELSE Expect(selectors[s], page)

(* run_canary, for one spec: every problem is this spec's FAIL.            *)
CanaryFails(s) ==
    \/ selectors[s] = Unloadable
    \/ Orphaned(s)
    \/ UsablePairs(s) = {}
    \/ LET one == LivePage(s, site[s].page1) IN
         Degraded(one, Baseline(s)) \/ ServesPage1Again(one, LivePage(s, site[s].page2))

RunCanary ==
    /\ LET bad == {s \in Specs : CanaryFails(s)} IN
         printed' = [cmd |-> "canary", of |-> 0, failed |-> bad, exit |-> IF bad = {} THEN 0 ELSE 1]
    /\ UNCHANGED <<selectors, site, files, recorder, started, changes>>

-----------------------------------------------------------------------------
(* Offline, and recording.                                                 *)

(* run_pair, diff_results: the error or every row must be the recorded one. *)
Replays(s, q) == Expect(selectors[s], files[s][q].body) = files[s][q].expected

(* run_fixtures: every pair of a spec that loads.                          *)
RunFixtures(s) ==
    /\ selectors[s] # Unloadable /\ BodyFiles(s) # {} /\ ~Orphaned(s)
    /\ LET bad == {q \in BodyFiles(s) : ~Replays(s, q)}
       IN  printed' = [cmd |-> "fixtures", of |-> s, failed |-> IF bad = {} THEN {} ELSE {s},
                       exit |-> IF bad = {} THEN 0 ELSE 1]
    /\ UNCHANGED <<selectors, site, files, recorder, started, changes>>

(* run_live --record: a site that is down records nothing; an error page   *)
(* is recorded with its error.                                             *)
FetchToRecord(s, q) ==
    /\ recorder = Absent /\ started < MaxRecords
    /\ selectors[s] # Unloadable /\ site[s].page1 # Absent
    /\ recorder' = [spec |-> s, query |-> q, body |-> site[s].page1,
                    expected |-> Expect(selectors[s], site[s].page1), bodyOnDisk |-> FALSE]
    /\ started' = started + 1 /\ printed' = NothingPrinted
    /\ UNCHANGED <<selectors, site, files, changes>>

(* write_pair: the body, then the expected file.                           *)
WriteFile ==
    /\ recorder # Absent
    /\ LET s == recorder.spec
           q == recorder.query
       IN  IF recorder.bodyOnDisk
           THEN files' = [files EXCEPT ![s][q].expected = recorder.expected] /\ recorder' = Absent
           ELSE files' = [files EXCEPT ![s][q].body = recorder.body]
                /\ recorder' = [recorder EXCEPT !.bodyOnDisk = TRUE]
    /\ printed' = NothingPrinted
    /\ UNCHANGED <<selectors, site, started, changes>>

KillRecorder ==
    /\ recorder # Absent /\ recorder' = Absent
    /\ UNCHANGED <<selectors, site, files, started, changes, printed>>

-----------------------------------------------------------------------------
(* Around it: sites change, and specs are edited to follow.                *)
SiteChanges(s) ==
    /\ changes < MaxChanges /\ changes' = changes + 1
    /\ \E now \in Sites \ {site[s]} : site' = [site EXCEPT ![s] = now]
    /\ printed' = NothingPrinted
    /\ UNCHANGED <<selectors, files, recorder, started>>

EditSelectors(s) ==
    /\ changes < MaxChanges /\ changes' = changes + 1
    /\ \E fit \in (Markups \cup {Unloadable}) \ {selectors[s]} :
          selectors' = [selectors EXCEPT ![s] = fit]
    /\ printed' = NothingPrinted
    /\ UNCHANGED <<site, files, recorder, started>>

CanaryInit ==
    /\ selectors \in [Specs -> {fit \in Markups : fit.container = "new" /\ fit.title = "new"}]
    /\ \E now \in {x \in Sites : x.page1 # Absent /\ x.page1.container = "new" /\ x.page1.title = "new"} :
          site = [s \in Specs |-> now]
    /\ files = [s \in Specs |-> [q \in Recorded |-> [body |-> Absent, expected |-> Absent]]]
    /\ recorder = Absent /\ started = 0 /\ changes = 0 /\ printed = NothingPrinted

CanaryNext ==
    \/ RunCanary \/ WriteFile \/ KillRecorder
    \/ \E s \in Specs : \/ RunFixtures(s) \/ SiteChanges(s) \/ EditSelectors(s)
                        \/ \E q \in Recorded : FetchToRecord(s, q)

CanarySpec == CanaryInit /\ [][CanaryNext]_canaryVars

-----------------------------------------------------------------------------
(* What the command promises.                                              *)

Fit(s) == selectors[s] # Unloadable /\ site[s].page1 # Absent
          /\ selectors[s].container = site[s].page1.container
          /\ selectors[s].title = site[s].page1.title
UrlsOf(page) == {page.urls[i] : i \in DOMAIN page.urls}

(* A spec that cannot do its work any more: it does not load or fit its    *)
(* site, its site answers with less than half of anything recorded or the  *)
(* same page twice, or nothing good was ever recorded to compare with.     *)
Drifted(s) ==
    \/ selectors[s] = Unloadable \/ GoodPairs(s) = {}
    \/ site[s].page1 = Absent \/ site[s].page1.urls = <<>>
    \/ selectors[s].container # site[s].page1.container
    \/ /\ selectors[s].title # site[s].page1.title
       /\ \A q \in GoodPairs(s) : files[s][q].expected.titled > 0
    \/ \A q \in GoodPairs(s) : Len(files[s][q].expected.urls) > 2 * Len(site[s].page1.urls)
    \/ site[s].page2 = site[s].page1

(* One that does: it fits, every page recorded for it had at most as many  *)
(* rows, as well filled, and page 2 is another page.                       *)
Sound(s) ==
    /\ Fit(s) /\ ~Orphaned(s) /\ GoodPairs(s) # {}
    /\ site[s].page1.titled = Len(site[s].page1.urls)
    /\ \A q \in GoodPairs(s) : Len(files[s][q].expected.urls) <= Len(site[s].page1.urls)
    /\ site[s].page2 = Absent \/ UrlsOf(site[s].page1) \cap UrlsOf(site[s].page2) = {}

(* Through recordings, killed ones too, site changes and spec edits: the   *)
(* canary exits 0 only when no spec has drifted, and names no sound spec   *)
(* whatever the others do (run_canary: "one bad spec can never hide the    *)
(* others' results"); the offline test passes no spec that no longer reads *)
(* a page it was recorded reading.                                         *)
DriftIsTold ==
    /\ printed.cmd = "canary" =>
         /\ {s \in Specs : Drifted(s)} \subseteq printed.failed
         /\ \A s \in printed.failed : ~Sound(s)
         /\ printed.exit = 0 <=> printed.failed = {}
    /\ printed.cmd = "fixtures" /\ printed.exit = 0 =>
         \A q \in GoodPairs(printed.of) :
            files[printed.of][q].body.container = selectors[printed.of].container
=============================================================================

------------------------------- MODULE Merge -------------------------------
(***************************************************************************)
(* The result merge (crates/cauce-core/src/pipeline/merge.rs): weighted    *)
(* reciprocal rank fusion, kept up page by page as engines answer.         *)
(*                                                                         *)
(* A url is a name; Parts says what normalize_url                          *)
(* (cauce-core/src/normalize.rs) looks at in it: the AMP viewer it is      *)
(* wrapped in, the amp. and m. prefixes of its host, the bare host, the    *)
(* segments of its path, of which the last may end in .amp and a trailing  *)
(* slash is an empty one, and the names of its query.  Case, default       *)
(* ports, fragments and the order of the query are left out.               *)
(* A contribution is an integer: weight over rank in units of 1 / Scale,   *)
(* with the division rounded as a float's is.                              *)
(***************************************************************************)
EXTENDS Naturals, FiniteSets, Sequences, SequencesExt

CONSTANTS
  Engines,       \* 1..n: positions in the runnable list
  Parts,         \* raw url -> [viewer, prefixes, host, path, query]
  Weight,        \* merge_weights: position -> weight, read before the fan-out
  RrfK,          \* merge.rrf_k
  Scale,
  CollapseAfter  \* merge.collapse_same_host_after; 0 keeps every result

\* Weights, constant and scale are positive in the code; what the merge does
\* with them needs no more than this.
ASSUME MergeAssumption ==
  /\ IsFiniteSet(Engines) /\ Engines = 1..Cardinality(Engines)
  /\ Weight \in [Engines -> Nat]
  /\ {RrfK, Scale, CollapseAfter} \subseteq Nat

Segment(stem) == [stem |-> stem, amp |-> FALSE]

\* is_tracking_param, is_amp_param: what never changes the page.
Droppable == {"utm_source", "fbclid", "gclid", "amp", "hs_amp"}

\* unwrap_amp_viewer: the embedded url has no query.
Unwrapped(u) == IF u.viewer THEN [u EXCEPT !.viewer = FALSE, !.query = {}] ELSE u

Trimmed(path, last) ==
  SubSeq(path, 1, CHOOSE n \in 0..Len(path) :
    /\ n > 0 => path[n] # last
    /\ \A m \in n + 1..Len(path) : path[m] = last)

\* Trailing slashes, then trailing /amp segments, then the .amp of what is
\* last: an /amp behind a doubled slash leaves a slash.
FoldedPath(path) ==
  LET page == Trimmed(Trimmed(path, Segment("")), Segment("amp"))
  IN IF page = <<>> THEN page ELSE [page EXCEPT ![Len(page)].amp = FALSE]

NormalizeUrl(parts) ==
  LET u == Unwrapped(parts)
  IN [u EXCEPT !.prefixes = <<>>, !.query = @ \ Droppable, !.path = FoldedPath(@)]

\* The key the merge knows a page by.
Canonical == [url \in DOMAIN Parts |-> NormalizeUrl(Parts[url])]

Contribution(idx, rank) == (Weight[idx] * Scale) \div (RrfK + rank)

\* Earlier engine, then earlier rank.
Before(p, q) == p[1] < q[1] \/ (p[1] = q[1] /\ p[2] < q[2])

\* Mutated Better: on a tie the page that came first keeps its result.
BetterFirstCome(c, here, old) == c > old.best

\* The result shown for a url is that of its best contribution; of equals,
\* that of the earlier engine, then rank.
Better(c, here, old) == c > old.best \/ (c = old.best /\ Before(here, old.bestOrder))

\* One result of a page: its contribution counts for its engine.
AddOne(acc, idx, rank, url) ==
  LET key == Canonical[url]
      here == <<idx, rank>>
      c == Contribution(idx, rank)
      old == IF key \in DOMAIN acc THEN acc[key]
             ELSE [url |-> url, by |-> idx, contributions |-> [j \in Engines |-> 0],
                   best |-> c, bestOrder |-> here, firstSeen |-> here]
      new == IF Better(c, here, old)
             THEN [old EXCEPT !.url = url, !.by = idx, !.best = c, !.bestOrder = here]
             ELSE old
  IN [k \in DOMAIN acc \cup {key} |->
        IF k # key THEN acc[k]
        ELSE [new EXCEPT !.contributions[idx] = @ + c,
                         !.firstSeen = IF Before(here, @) THEN here ELSE @]]

\* RrfMerge::add: engine idx's page, rank after rank.
Add(acc, idx, page) ==
  LET after[rank \in 0..Len(page)] ==
        IF rank = 0 THEN acc ELSE AddOne(after[rank - 1], idx, rank, page[rank])
  IN after[Len(page)]

NothingMerged == [k \in {} |-> 0]

\* contributions.values().sum(): in the order of the engines.
SumUp(contributions) ==
  LET upto[n \in 0..Cardinality(Engines)] ==
        IF n = 0 THEN 0 ELSE upto[n - 1] + contributions[n]
  IN upto[Cardinality(Engines)]

\* The order of the results: best score first, ties by first_seen.
Above(acc, k, l) ==
  LET mine == SumUp(acc[k].contributions)
      theirs == SumUp(acc[l].contributions)
  IN mine > theirs \/ (mine = theirs /\ Before(acc[k].firstSeen, acc[l].firstSeen))

Ranked(acc) ==
  [n \in 1..Cardinality(DOMAIN acc) |->
     CHOOSE k \in DOMAIN acc : Cardinality({l \in DOMAIN acc : Above(acc, l, k)}) = n - 1]

\* The nth of a set of numbers.
Nth(S, n) == CHOOSE i \in S : Cardinality({j \in S : j <= i}) = n

\* At most CollapseAfter results of a host, in order.
Collapse(keys) ==
  LET kept == {n \in DOMAIN keys :
                 \/ CollapseAfter = 0
                 \/ Cardinality({m \in 1..n : keys[m].host = keys[n].host}) <= CollapseAfter}
  IN [m \in 1..Cardinality(kept) |-> keys[Nth(kept, m)]]

\* RrfMerge::finish: in order, hosts collapsed.
Finish(acc) ==
  LET ranked == Collapse(Ranked(acc))
  IN [n \in DOMAIN ranked |-> [url |-> acc[ranked[n]].url, by |-> acc[ranked[n]].by]]

-----------------------------------------------------------------------------
(* What a merge of pages, a function from positions to pages, should be,   *)
(* with no order of arrival in it.                                         *)

Spots(pages) == UNION {{idx} \X DOMAIN pages[idx] : idx \in Engines}
UrlAt(pages, s) == pages[s[1]][s[2]]
Finds(pages, k) == {s \in Spots(pages) : Canonical[UrlAt(pages, s)] = k}
Worth(s) == Contribution(s[1], s[2])

\* What an engine's page is worth to a key, up to each rank; and all pages.
Given(page, idx, k) ==
  LET upto[rank \in 0..Len(page)] ==
        IF rank = 0 THEN 0
        ELSE upto[rank - 1] + (IF Canonical[page[rank]] = k THEN Contribution(idx, rank) ELSE 0)
  IN upto
Total(pages, k) == SumUp([idx \in Engines |-> Given(pages[idx], idx, k)[Len(pages[idx])]])

Shown(pages, k) ==
  LET finds == Finds(pages, k)
  IN CHOOSE s \in finds : \A t \in finds \ {s} :
       Worth(t) < Worth(s) \/ (Worth(t) = Worth(s) /\ Before(s, t))
First(pages, k) ==
  LET finds == Finds(pages, k)
  IN CHOOSE s \in finds : \A t \in finds \ {s} : Before(s, t)

Over(pages, k, l) ==
  \/ Total(pages, k) > Total(pages, l)
  \/ Total(pages, k) = Total(pages, l) /\ Before(First(pages, k), First(pages, l))

Fused(pages) ==
  LET all == {Canonical[UrlAt(pages, s)] : s \in Spots(pages)}
      Crowd(k) == Cardinality({l \in all : l.host = k.host /\ Over(pages, l, k)})
      shown == {k \in all : CollapseAfter = 0 \/ Crowd(k) < CollapseAfter}
  IN [n \in 1..Cardinality(shown) |->
        LET k == CHOOSE j \in shown : Cardinality({l \in shown : Over(pages, l, j)}) = n - 1
        IN [url |-> UrlAt(pages, Shown(pages, k)), by |-> Shown(pages, k)[1]]]
=============================================================================

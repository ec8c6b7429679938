------------------------------- MODULE Archive -------------------------------
(***************************************************************************)
(* Fetch-and-index of the page archive (cauce-core archive/): concurrent   *)
(* callers fetch pages through a guarded resolver and a bucket per host,   *)
(* follow redirects by hand, and upsert a row under the final url.         *)
(*                                                                         *)
(* A url is [scheme, host, tracked]: two urls that differ in `tracked'     *)
(* alone have one normal form.  The web is external: names resolve anew at *)
(* every hop and pages change under their url.                             *)
(***************************************************************************)
EXTENDS Naturals, FiniteSets

CONSTANTS Fetches,        \* concurrent calls of fetch_and_index
          Urls, Texts,
          PrivateHosts,   \* hosts that are literal private addresses
          PublicHosts,    \* hosts that are literal public addresses
          MaxRedirects,
          Burst           \* of a host's token bucket

ASSUME UrlsAssumption == Urls \subseteq [scheme : STRING, host : STRING, tracked : BOOLEAN]

VARIABLES
    allowPrivate,  \* [archive] allow_private
    fetch,         \* fetch[f]: where it is, its url, hops, and what it got
    tokens,        \* tokens[h]: the bucket of host h
    pages,         \* the pages table: url -> text, a partial function
    dialed,        \* history: the addresses dialed
    served         \* history: [url, text] of every 2xx response

archiveVars == <<allowPrivate, fetch, tokens, pages, dialed, served>>

FetchHosts == {u.host : u \in Urls}
Normal(u)  == [u EXCEPT !.tracked = FALSE]        \* normalize_url
NoFetch    == [at |-> "idle"]

ArchiveInit ==
    /\ allowPrivate \in BOOLEAN
    /\ fetch = [f \in Fetches |-> NoFetch]
    /\ tokens = [h \in FetchHosts |-> Burst]
    /\ pages = <<>> /\ dialed = {} /\ served = {}

-----------------------------------------------------------------------------
CheckScheme(u) == u.scheme \in {"http", "https"}

\* Mutated CheckUrl: a literal address is left to the resolver.
CheckUrlScheme(u) == CheckScheme(u)

(* Fetcher::check_url: a literal host reaches no resolver.                 *)
CheckUrl(u) == CheckScheme(u) /\ (allowPrivate \/ u.host \notin PrivateHosts)

(* GuardedResolver: one private address refuses the name.                  *)
Resolutions(host) ==
    IF host \in PrivateHosts THEN {{"private"}}
    ELSE IF host \in PublicHosts THEN {{"public"}}
    ELSE {addrs \in SUBSET {"public", "private"} :
            addrs # {} /\ (allowPrivate \/ "private" \notin addrs)}

Go(f, where) == fetch' = [fetch EXCEPT ![f] = where]

(* A fetch that fails, on whatever ground, writes nothing: blocked by the  *)
(* guard or the resolver, unresolved, refused, cut, past FETCH_TIMEOUT,    *)
(* dropped with its caller.                                                *)
FetchFails(f) ==
    /\ fetch[f] # NoFetch
    /\ Go(f, NoFetch)
    /\ UNCHANGED <<allowPrivate, tokens, pages, dialed, served>>

FetchAndIndex(f, u) ==
    /\ fetch[f] = NoFetch /\ CheckScheme(u)
    /\ Go(f, [at |-> "queued", url |-> Normal(u), hops |-> 0])
    /\ UNCHANGED <<allowPrivate, tokens, pages, dialed, served>>

(* Fetcher::get: one token of the host asked for, spent even on a url that *)
(* is then refused; hops take none.                                        *)
TakeToken(f) ==
    /\ fetch[f].at = "queued" /\ tokens[fetch[f].url.host] > 0
    /\ tokens' = [tokens EXCEPT ![fetch[f].url.host] = @ - 1]
    /\ Go(f, IF CheckUrl(fetch[f].url) THEN [fetch[f] EXCEPT !.at = "dial"] ELSE NoFetch)
    /\ UNCHANGED <<allowPrivate, pages, dialed, served>>

(* The request of one hop, to one of the addresses just checked.           *)
Dial(f) ==
    /\ fetch[f].at = "dial"
    /\ \E addrs \in Resolutions(fetch[f].url.host) : \E addr \in addrs :
          dialed' = dialed \cup {addr}
    /\ Go(f, [fetch[f] EXCEPT !.at = "await"])
    /\ UNCHANGED <<allowPrivate, tokens, pages, served>>

(* redirect_target; past the cap the 3xx is the answer, and no page.       *)
Redirected(f) ==
    /\ fetch[f].at = "await" /\ fetch[f].hops < MaxRedirects
    /\ \E next \in Urls :
          /\ CheckUrl(next)
          /\ Go(f, [at |-> "dial", url |-> next, hops |-> fetch[f].hops + 1])
    /\ UNCHANGED <<allowPrivate, tokens, pages, dialed, served>>

(* A 2xx with content, perhaps cut at MAX_FETCH_BYTES, extracted to        *)
(* markdown.  Any other answer is an error.                                *)
Responds(f) ==
    /\ fetch[f].at = "await"
    /\ \E text \in Texts :
          /\ served' = served \cup {[url |-> fetch[f].url, text |-> text]}
          /\ Go(f, [at |-> "put", url |-> fetch[f].url, text |-> text])
    /\ UNCHANGED <<allowPrivate, tokens, pages, dialed>>

(* put_page: the last writer wins.                                         *)
PutPage(f) ==
    /\ fetch[f].at = "put"
    /\ LET key == Normal(fetch[f].url) IN
       pages' = [u \in DOMAIN pages \cup {key} |->
                    IF u = key THEN fetch[f].text ELSE pages[u]]
    /\ Go(f, NoFetch)
    /\ UNCHANGED <<allowPrivate, tokens, dialed, served>>

Refill(h) ==
    /\ tokens[h] < Burst
    /\ tokens' = [tokens EXCEPT ![h] = @ + 1]
    /\ UNCHANGED <<allowPrivate, fetch, pages, dialed, served>>

ArchiveNext ==
    \/ \E f \in Fetches :
          \/ \E u \in Urls : FetchAndIndex(f, u)
          \/ TakeToken(f) \/ Dial(f) \/ Redirected(f) \/ Responds(f) \/ PutPage(f)
          \/ FetchFails(f)
    \/ \E h \in FetchHosts : Refill(h)

ArchiveSpec == ArchiveInit /\ [][ArchiveNext]_archiveVars

-----------------------------------------------------------------------------
(* Type correctness.                                                       *)
ArchiveTypeOK ==
    /\ tokens \in [FetchHosts -> 0..Burst]
    /\ dialed \subseteq {"public", "private"} /\ DOMAIN pages \subseteq Urls
    /\ \A f \in Fetches :
          fetch[f].at \in {"queued", "dial", "await"} => fetch[f].hops <= MaxRedirects

(* However a chain of redirects runs and names resolve, no private address *)
(* is dialed unless the user allows it, and every row of the archive is a  *)
(* page that its own url served, under the one form that GET and DELETE    *)
(* look it up by (Fetcher::send_chain, GuardedResolver, fetch_and_index).  *)
RowsAreFetchedPages ==
    /\ "private" \in dialed => allowPrivate
    /\ \A u \in DOMAIN pages :
          /\ CheckScheme(u) /\ Normal(u) = u
          /\ \E s \in served : Normal(s.url) = u /\ s.text = pages[u]
=============================================================================

------------------------------- MODULE Engines -------------------------------
(***************************************************************************)
(* Which engines a search asks, and what one of them makes of the page it  *)
(* gets (cauce-engines factory.rs, declarative/; the enable and disable    *)
(* handlers of cauce-server).                                              *)
(*                                                                         *)
(* Declarative specs are embedded in the binary and may be overridden by   *)
(* files of the config directory.  A spec joins the roster by an entry of  *)
(* config.toml or, when no entry names it and CAUCE_ENGINES pins nothing,  *)
(* by itself.  Toggling an engine writes an entry and builds a new roster. *)
(* An override file is named after the spec it holds.                      *)
(***************************************************************************)
EXTENDS FiniteSets

CONSTANTS Embedded,   \* the ids of the embedded specs
          Dormant,    \* those whose spec says `enabled: false'
          Overrides,  \* the ids the user may write a spec file for
          Unpinned    \* CAUCE_ENGINES is not set

ASSUME Dormant \subseteq Embedded

EngineIds == Embedded \cup Overrides

VARIABLES
    specFile,  \* specFile[id]: "none", "good", "unparsable" or "uncompilable"
    entries,   \* [[engines]] of config.toml: a partial function id -> enabled
    pin,       \* CAUCE_ENGINES of the process: a set of ids, or Unpinned
    roster,    \* the engines of the live pipeline: id -> where the spec is from
    built,     \* no spec file was touched since the roster was built
    wish,      \* wish[id]: what the user asked for last, by toggle or by file
    reply      \* the last engine call: [id, page, verdict], or none

engineVars == <<specFile, entries, pin, roster, built, wish, reply>>

NoReply == [id |-> "", page |-> <<>>, verdict |-> ""]

-----------------------------------------------------------------------------
(* load_specs: the embedded specs, then the override files by spec id.  A  *)
(* file that does not parse leaves the embedded spec; one that parses and  *)
(* does not compile has replaced it by then, and the id drops out.         *)
LoadedSpecs ==
    [id \in {i \in EngineIds : \/ specFile[i] = "good"
                               \/ i \in Embedded /\ specFile[i] \in {"none", "unparsable"}} |->
        IF specFile[id] = "good" THEN "override" ELSE "embedded"]

AutoRegisters(id) == id \notin Dormant \/ specFile[id] = "good"

(* resolve_spec_source: an entry takes the override file, whatever it holds. *)
Resolves(id) == IF specFile[id] = "none" THEN id \in Embedded ELSE specFile[id] = "good"

SpecSource(id) == IF specFile[id] = "none" THEN "embedded" ELSE "override"

(* Config::from_raw: a pin replaces the `enabled' of every entry.          *)
EnabledEntries(config) ==
    {id \in DOMAIN config : IF pin = Unpinned THEN config[id] ELSE id \in pin}

\* Mutated AutoIds: only an enabled entry keeps its spec from registering itself.
AutoIdsEnabledOnly(config) ==
    IF pin # Unpinned THEN {}
    ELSE {id \in DOMAIN LoadedSpecs \ EnabledEntries(config) : AutoRegisters(id)}

(* Auto-registration: the enabled specs that no entry names.               *)
AutoIds(config) ==
    IF pin # Unpinned THEN {}
    ELSE {id \in DOMAIN LoadedSpecs \ DOMAIN config : AutoRegisters(id)}

(* build_engines: an engine that cannot be built is skipped.               *)
BuildEngines(config) ==
    LET named == {id \in EnabledEntries(config) : Resolves(id)} IN
    [id \in named \cup AutoIds(config) |->
        IF id \in named THEN SpecSource(id) ELSE LoadedSpecs[id]]

-----------------------------------------------------------------------------
(* A file layer whose pin names an engine it has no entry for does not     *)
(* load, so a pin comes with its entries.                                  *)
EngineInit ==
    /\ specFile = [id \in EngineIds |-> "none"]
    /\ \E ids \in SUBSET EngineIds : entries \in [ids -> BOOLEAN]
    /\ pin \in {Unpinned} \cup SUBSET DOMAIN entries
    /\ roster = BuildEngines(entries)
    /\ built = TRUE
    /\ wish = [id \in EngineIds |-> IF id \in DOMAIN entries THEN entries[id]
                                    ELSE id \in Embedded \ Dormant]
    /\ reply = NoReply

(* engine_set_enabled: 404 for what is neither configured nor live, then   *)
(* the entry is patched or appended, saved, and the roster built anew.     *)
Toggle(id, on) ==
    LET config == [e \in DOMAIN entries \cup {id} |-> IF e = id THEN on ELSE entries[e]] IN
    /\ id \in DOMAIN entries \cup DOMAIN roster
    /\ entries' = config
    /\ roster' = BuildEngines(config)
    /\ built' = TRUE
    /\ wish' = [wish EXCEPT ![id] = on]
    /\ reply' = NoReply
    /\ UNCHANGED <<specFile, pin>>

(* A user edits the config directory; nothing watches it.  A spec without  *)
(* an entry is wanted as soon as its file asks for it.                     *)
EditSpecFile(id, content) ==
    /\ id \in Overrides /\ specFile[id] # content
    /\ specFile' = [specFile EXCEPT ![id] = content]
    /\ built' = FALSE
    /\ wish' = [wish EXCEPT ![id] =
                  IF id \in DOMAIN entries THEN @
                  ELSE content = "good" \/ id \in Embedded \ Dormant]
    /\ reply' = NoReply
    /\ UNCHANGED <<entries, pin, roster>>

(* Any other apply, or a restart.                                          *)
Apply ==
    /\ roster' = BuildEngines(entries)
    /\ built' = TRUE
    /\ reply' = NoReply
    /\ UNCHANGED <<specFile, entries, pin, wish>>

-----------------------------------------------------------------------------
(* A page: its status, whether the results selector finds anything,        *)
(* whether its text, which may echo the query, holds a blocked marker, and *)
(* whether its body runs past max_response_bytes.                          *)
Pages == [status : {"ok", "limited", "error"}, results : BOOLEAN, marker : BOOLEAN,
          big : BOOLEAN]

(* parse_response.                                                         *)
Verdict(page) ==
    CASE page.status = "limited" -> "rate limited"
      [] page.status # "limited" /\ ~page.results /\ page.marker -> "blocked"
      [] page.status = "error" /\ (page.results \/ ~page.marker) -> "transport"
      [] OTHER -> IF page.results THEN "results" ELSE "parse"

(* HttpClient::get_with_headers: the budget may run out, the transport     *)
(* fail, and a body past the cap is refused however much of it came;       *)
(* otherwise the engine maps the page.                                     *)
FetchedAs(page) == {"timeout", "transport", IF page.big THEN "parse" ELSE Verdict(page)}

(* A search that would like to ask id: an engine off the roster is not     *)
(* asked; DeclarativeEngine::search of one on it fetches and maps a page.  *)
SearchEngine(id) ==
    /\ \E page \in Pages :
          \E verdict \in IF id \in DOMAIN roster THEN FetchedAs(page) ELSE {"not asked"} :
             reply' = [id |-> id, page |-> page, verdict |-> verdict]
    /\ UNCHANGED <<specFile, entries, pin, roster, built, wish>>

EngineNext ==
    \/ \E id \in EngineIds :
          \/ \E on \in BOOLEAN : Toggle(id, on)
          \/ \E content \in {"none", "good", "unparsable", "uncompilable"} :
                EditSpecFile(id, content)
          \/ SearchEngine(id)
    \/ Apply

EngineSpec == EngineInit /\ [][EngineNext]_engineVars

-----------------------------------------------------------------------------
(* Type correctness.                                                       *)
EnginesTypeOK ==
    /\ DOMAIN entries \subseteq EngineIds /\ DOMAIN roster \subseteq EngineIds
    /\ wish \in [EngineIds -> BOOLEAN] /\ built \in BOOLEAN

(* While every spec file loads and nothing is pinned, a search asks the    *)
(* engines the user last asked for and no others: one switched off stays   *)
(* off although its spec would register itself, and comes back when it is  *)
(* switched on.  What it serves counts as results exactly when there are   *)
(* some, whatever words the query put on the page (build_engines,          *)
(* set_engine_enabled, parse_response).                                    *)
AnswersAsWished ==
    /\ built /\ pin = Unpinned
    /\ \A id \in EngineIds : specFile[id] \in {"none", "good"}
    /\ reply # NoReply
    => LET wished == wish[reply.id] /\ Resolves(reply.id) IN
       /\ (reply.verdict = "not asked") = ~wished
       /\ reply.verdict \in {"results", "blocked"} =>
             (reply.verdict = "results") = reply.page.results
       /\ reply.page.results /\ reply.page.status = "ok" /\ ~reply.page.big =>
             reply.verdict \in {"results", "timeout", "transport", "not asked"}
       /\ reply.page.big => reply.verdict # "results"
=============================================================================

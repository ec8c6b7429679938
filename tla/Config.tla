------------------------------- MODULE Config -------------------------------
(***************************************************************************)
(* The configuration of a running server and the ways it is edited         *)
(* (cauce-core config/, cauce-server app.rs, settings.rs, handlers/config, *)
(* handlers/engines).                                                      *)
(*                                                                         *)
(* A configuration file is three leaves: `public' (server.public_instance, *)
(* restart-required), `key' (ai.api_key, the secret) and `on' (an engine's *)
(* enabled flag, a hot value).  A process keeps the raw tree, its          *)
(* resolution and a runtime derived from it.  Editors work at once: the    *)
(* settings form merges fields over the raw tree, a TOML client reads the  *)
(* redacted display and puts it back edited, and the engine toggle patches *)
(* one flag.  The first two read the configuration in critical sections of *)
(* their own, before the one that saves it.                                *)
(***************************************************************************)
EXTENDS Naturals, FiniteSets

CONSTANTS Editors, None,
          Template,      \* the text ${env:K} of a key
          BadTemplate,   \* a template of a variable that is not set
          Redacted,      \* the text "<redacted>"
          K1, K2,        \* literal keys
          KT,            \* what Template resolves to
          KE             \* the value of CAUCE_AI_API_KEY, when it is set

Flags == {"unset", "on", "off"}
Trees == [public : BOOLEAN, key : {"", Template, BadTemplate, Redacted, K1, K2, KE},
          on : Flags]

ASSUME KeysDiffer ==
    /\ BadTemplate \notin {"", Template, Redacted, K1, K2, KE}
    /\ Redacted \notin {"", Template, K1, K2, KE}

ASSUME NoneIsNone == None \notin Editors /\ None \notin Trees /\ None # KE

Defaults == [public |-> FALSE, key |-> "", on |-> "unset"]

(* What a client may submit: some fields of the form, or edits of a TOML   *)
(* document.  Only a document can name server.public_instance.             *)
FormEdits == {[key |-> K2], [key |-> BadTemplate], [on |-> "off"]}
TomlEdits == {[public |-> TRUE], [key |-> Template], [on |-> "on"]}

VARIABLES
    env,      \* the process environment: CAUCE_AI_API_KEY and the CAUCE_ENGINES pin
    disk,     \* config.toml, None before the first save
    tmp,      \* config.toml.tmp while a save holds it: a leftover is never read
    live,     \* the Config behind the mutex: raw tree and resolved values
    bootMode, \* the public_instance this process was started with
    runtime,  \* the Runtime: what the pipeline and the answer loop were built from
    lock,     \* holder of the config mutex across a save, None when free
    job,      \* job[e]: the edit e has in progress
    raced     \* editors whose edit another save has committed under

configVars == <<env, disk, tmp, live, bootMode, runtime, lock, job, raced>>

Idle == [at |-> "idle", kind |-> None, edit |-> None, tree |-> None]

-----------------------------------------------------------------------------
(* Loading.  from_raw overlays the environment on the file, interpolates,  *)
(* validates, fills in the built-in engine and applies the pin.            *)

(* ENV_OVERRIDES: the leaves a variable of the environment replaces.       *)
EnvOverrides == IF env.key = None THEN <<>> ELSE [key |-> env.key]

With(tree, edit) == [f \in DOMAIN tree |-> IF f \in DOMAIN edit THEN edit[f] ELSE tree[f]]

Overlaid(tree) == With(tree, EnvOverrides)

Loadable(tree) == Overlaid(tree).key # BadTemplate

Templated(tree) == Overlaid(tree).key = Template

Resolve(tree) ==
    [public |-> tree.public,
     key |-> IF Templated(tree) THEN KT ELSE Overlaid(tree).key,
     on |-> IF env.pin # None THEN env.pin
            ELSE IF tree.on = "unset" THEN "on"          \* the built-in's own flag
            ELSE tree.on]

FromRaw(tree) == [raw |-> tree, res |-> Resolve(tree), templated |-> Templated(tree)]

RawOf(file) == IF file = None THEN Defaults ELSE file

(* What `GET /api/config' shows: templates as their text, any other secret *)
(* as the placeholder.                                                     *)
Display(cfg) ==
    [public |-> cfg.res.public, on |-> cfg.res.on,
     key |-> IF cfg.templated THEN Template ELSE IF cfg.res.key = "" THEN "" ELSE Redacted]

(* restore_redacted: what a placeholder of a submitted body stands for.    *)
Source(cfg) == IF cfg.templated THEN Template ELSE cfg.res.key
Restored(cfg, tree) == IF tree.key = Redacted THEN [tree EXCEPT !.key = Source(cfg)] ELSE tree

\* Mutated Merged: the base is the resolved tree.
MergedResolved(cfg, edit) == With(cfg.res, edit)

(* merge_form_config: the base is the raw tree; an engine the file does    *)
(* not mention gets no entry while the submitted flag is the resolved one. *)
Merged(cfg, edit) ==
    IF "on" \in DOMAIN edit /\ cfg.raw.on = "unset" /\ edit["on"] = cfg.res.on
    THEN cfg.raw ELSE With(cfg.raw, edit)

\* Mutated Committed: the requested mode goes live.
CommittedFresh(cfg, tree) == FromRaw(tree)

(* commit_locked: the instance mode stays what the process was started with. *)
Committed(cfg, tree) == [FromRaw(tree) EXCEPT !.res.public = cfg.res.public]

Derived(cfg) == [key |-> cfg.res.key, on |-> cfg.res.on, logs |-> ~cfg.res.public]

-----------------------------------------------------------------------------
ConfigInit ==
    /\ env \in {[key |-> None, pin |-> None], [key |-> KE, pin |-> "off"]}
    /\ disk \in {None} \cup {[Defaults EXCEPT !.key = k] : k \in {Template, K1}}
    /\ tmp = None
    /\ live = FromRaw(RawOf(disk))
    /\ bootMode = live.res.public
    /\ runtime = Derived(live)
    /\ lock = None
    /\ job = [e \in Editors |-> Idle]
    /\ raced = {}

Boot == <<live, bootMode, runtime>>

(* GET /api/config by a client that will put the document back edited.     *)
ConfigGet(e, edit) ==
    /\ lock = None /\ job[e] = Idle
    /\ job' = [job EXCEPT ![e] = [at |-> "candidate", kind |-> "toml", edit |-> edit,
                                  tree |-> With(Display(live), edit)]]
    /\ raced' = raced \ {e}
    /\ UNCHANGED <<env, disk, tmp, Boot, lock>>

(* The form's PUT: the merge is a critical section of its own.             *)
MergeForm(e, edit) ==
    /\ lock = None /\ job[e] = Idle
    /\ job' = [job EXCEPT ![e] = [at |-> "candidate", kind |-> "form", edit |-> edit,
                                  tree |-> Merged(live, edit)]]
    /\ raced' = raced \ {e}
    /\ UNCHANGED <<env, disk, tmp, Boot, lock>>

(* restore_redacted, in the next critical section, then the validation in  *)
(* memory: a candidate that does not load is answered 400.                 *)
RestoreRedacted(e) ==
    LET tree == Restored(live, job[e].tree) IN
    /\ lock = None /\ job[e].at = "candidate"
    /\ job' = [job EXCEPT ![e] = IF Loadable(tree)
                                 THEN [@ EXCEPT !.at = "valid", !.tree = tree] ELSE Idle]
    /\ UNCHANGED <<env, disk, tmp, Boot, lock, raced>>

(* commit_config takes the lock for the rest of the save.                  *)
CommitConfig(e) ==
    /\ lock = None /\ job[e].at = "valid"
    /\ lock' = e
    /\ job' = [job EXCEPT ![e].at = "save"]
    /\ UNCHANGED <<env, disk, tmp, Boot, raced>>

(* engine_set_enabled: patch and save inside one critical section.         *)
SetEngineEnabled(e, flag) ==
    LET tree == With(live.raw, [on |-> flag]) IN
    /\ lock = None /\ job[e] = Idle /\ Loadable(tree)
    /\ lock' = e
    /\ job' = [job EXCEPT ![e] = [at |-> "save", kind |-> "form", edit |-> [on |-> flag],
                                  tree |-> tree]]
    /\ raced' = raced \ {e}
    /\ UNCHANGED <<env, disk, tmp, Boot>>

(* Config::save: a temporary file beside the real one, then a rename.      *)
WriteTemporary(e) ==
    /\ job[e].at = "save"
    /\ tmp' = job[e].tree
    /\ job' = [job EXCEPT ![e].at = "rename"]
    /\ UNCHANGED <<env, disk, Boot, lock, raced>>

Rename(e) ==
    /\ job[e].at = "rename"
    /\ disk' = tmp /\ tmp' = None
    /\ job' = [job EXCEPT ![e].at = "apply"]
    /\ raced' = raced \cup (Editors \ {e})
    /\ UNCHANGED <<env, Boot, lock>>

(* Either write may fail: the caller gets an error and nothing is swapped. *)
SaveFails(e) ==
    /\ job[e].at \in {"save", "rename"}
    /\ job' = [job EXCEPT ![e] = Idle]
    /\ lock' = None /\ tmp' = None
    /\ UNCHANGED <<env, disk, Boot, raced>>

(* The rest of commit_locked: a runtime built from the new values replaces *)
(* the old one, then the lock is released.                                 *)
HotApply(e) ==
    LET cfg == Committed(live, job[e].tree) IN
    /\ job[e].at = "apply"
    /\ live' = cfg
    /\ runtime' = Derived(cfg)
    /\ job' = [job EXCEPT ![e] = Idle]
    /\ lock' = None
    /\ UNCHANGED <<env, disk, tmp, bootMode, raced>>

(* kill -9 at any point, and serve's boot from what the file says.         *)
RestartServer ==
    LET cfg == FromRaw(RawOf(disk)) IN
    /\ Loadable(RawOf(disk))
    /\ live' = cfg
    /\ bootMode' = cfg.res.public
    /\ runtime' = Derived(cfg)
    /\ job' = [e \in Editors |-> Idle]
    /\ lock' = None /\ tmp' = None /\ raced' = {}
    /\ UNCHANGED <<env, disk>>

ConfigNext ==
    \/ \E e \in Editors :
          \/ \E edit \in TomlEdits : ConfigGet(e, edit)
          \/ \E edit \in FormEdits : MergeForm(e, edit)
          \/ \E flag \in {"on", "off"} : SetEngineEnabled(e, flag)
          \/ RestoreRedacted(e)
          \/ CommitConfig(e)
          \/ WriteTemporary(e)
          \/ Rename(e)
          \/ SaveFails(e)
          \/ HotApply(e)
    \/ RestartServer

ConfigSpec == ConfigInit /\ [][ConfigNext]_configVars

-----------------------------------------------------------------------------
(* Type correctness of the component's state.                              *)
ConfigTypeOK ==
    /\ disk \in Trees \cup {None} /\ tmp \in Trees \cup {None}
    /\ live.raw \in Trees /\ bootMode \in BOOLEAN
    /\ lock \in Editors \cup {None} /\ raced \subseteq Editors
    /\ \A e \in Editors : job[e].tree \in Trees \cup {None}

(* Outside a save, whatever failed, raced or crashed before: the file can  *)
(* be booted from, the live configuration is the file's resolution with    *)
(* the instance mode this process was started with (an auth boundary that  *)
(* only a restart moves), and the runtime is derived from exactly that     *)
(* (AppState::commit_locked, Config::save).                                *)
LiveMatchesFile ==
    /\ Loadable(RawOf(disk))
    /\ lock = None =>
          /\ live.raw = RawOf(disk)
          /\ live.res = [Resolve(RawOf(disk)) EXCEPT !.public = bootMode]
          /\ runtime = Derived(live)

(* A save no other save committed under leaves alone what it does not      *)
(* name: a form or a toggle every other leaf of the file, templates and    *)
(* secrets included; a document read from GET and put back, the secret     *)
(* behind the placeholder it was shown (CAUCE_AI_API_KEY's value, when     *)
(* that is what the placeholder hid).  An edit that did overlap another    *)
(* save may undo it: merge, restore and commit are separate sections.      *)
SavesOnlyItsFields ==
    [][\A e \in Editors :
          job[e].at = "rename" /\ job'[e].at = "apply" /\ e \notin raced =>
             LET before == RawOf(disk)
                 named  == DOMAIN job[e].edit IN
             IF job[e].kind = "form"
             THEN \A f \in DOMAIN before \ named : disk'[f] = before[f]
             ELSE "key" \notin named =>
                     disk'.key \in {before.key} \cup ({env.key} \ {None})]_configVars
=============================================================================

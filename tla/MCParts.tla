------------------------------- MODULE MCParts -------------------------------
(* Instances of the parts that share no state: configuration, exec engine,   *)
(* roster, provider call, terminal interface, logs, page archive, evals, and *)
(* the HTTP surface behind a shared cache.                                   *)
(* `part' picks the one that runs; the others stay in one initial state, so  *)
(* that the states of the run are the sum of the parts' and not a product.   *)
EXTENDS Config, ExecEngine, Engines, Provider, Tui, Logs, Archive, Evals,
        Edge, Canary

CONSTANT MaxRespawns   \* bound: detached respawn tasks at a time

VARIABLE part

(* Conversations of the answer loop, and the bodies a provider may stream.   *)
MsgOf(role, blocks) == [role |-> role, blocks |-> blocks]
Block(id, args)     == [id |-> id, args |-> args]
Opening   == <<MsgOf("system", <<>>), MsgOf("user", <<>>)>>
TwoCalls  == Opening \o <<MsgOf("assistant", <<Block(1, "whole"), Block(2, "whole")>>),
                          MsgOf("tool", <<Block(1, "")>>), MsgOf("tool", <<Block(2, "")>>)>>
More(args) == TwoCalls \o <<MsgOf("assistant", <<Block(3, args)>>), MsgOf("tool", <<Block(3, "")>>)>>
Talks == {Opening, TwoCalls, More("whole"), More("cut")}

Text(w) == [t |-> "text", text |-> w]
Usage(p, c) == [t |-> "usage", usage |-> [prompt |-> p, completion |-> c]]
Tool(slot, name, args) == [t |-> "tool", slot |-> slot, name |-> name, args |-> args]
Plain(t) == [t |-> t]
Bodies == {
    <<Text("a"), Text("b"), Usage(3, 2), Plain("stop")>>,
    <<Usage(3, 0), Tool(0, "search", <<>>), Tool(1, "read", <<>>), Tool(0, "", <<"x">>),
      Tool(0, "", <<"y">>), Usage(0, 4), Plain("stop")>>,
    <<Text("a"), Plain("ping"), Plain("error")>>,
    <<Text("a"), Plain("malformed")>>}
Chats == [proto : {"openai", "anthropic"}, talk : {<<MsgOf("user", <<>>)>>}, events : Bodies]
         \cup [proto : {"openai", "anthropic"}, talk : Talks, events : {<<>>}]

Sure   == [conf |-> 8, grounded |-> FALSE]
Unsure == [conf |-> 3, grounded |-> TRUE]
MCVerdicts == {Sure, Unsure}

Page(scheme, host, tracked) == [scheme |-> scheme, host |-> host, tracked |-> tracked]
MCUrls == {Page("https", "name", FALSE), Page("https", "name", TRUE),
           Page("http", "10.0.0.1", FALSE), Page("file", "8.8.8.8", FALSE)}

\* A site as recorded, with fewer and with too few rows, serving page 1 again,
\* with its titles or its containers renamed, and with a wall in front.
WebPage(urls, titled, container, title) ==
    [urls |-> urls, titled |-> titled, container |-> container, title |-> title]
Full   == WebPage(<<"a", "b", "c">>, 3, "new", "new")
Half   == WebPage(<<"d", "e">>, 2, "new", "new")
Thin   == WebPage(<<"d">>, 1, "new", "new")
Serving(one, two) == [page1 |-> one, page2 |-> two]
MCSites == {Serving(Full, Half), Serving(Half, Absent), Serving(Thin, Full), Serving(Full, Full),
            Serving([Full EXCEPT !.title = "other"], Half),
            Serving([Full EXCEPT !.container = "other"], Half),
            Serving([Full EXCEPT !.container = "captcha"], Absent)}
MCMarkups == {[container |-> "new", title |-> "new"], [container |-> "other", title |-> "new"]}

PartNames == {"config", "exec", "engines", "provider", "tui", "logs", "archive", "evals",
              "edge", "canary"}

SomeOf(S) == CHOOSE x \in S : TRUE

(* The log's requests are alike: of the behaviours that differ only in which *)
(* is which, the one where a chosen request comes first.                     *)
RequestsInTurn == \A r \in Requests : begun'[r] # 0 => begun'[SomeOf(Requests)] # 0

Init ==
    /\ part \in PartNames
    /\ ConfigInit   /\ (part # "config"   => disk = None /\ env.key = None)
    /\ ExecInit     /\ (part # "exec"     => warm = NoChild /\ asked = SomeOf([Searches -> Queries]))
    /\ EngineInit   /\ (part # "engines"  => entries = <<>> /\ pin = Unpinned)
    /\ ProviderInit /\ (part # "provider" => call = SomeOf(Chats))
    /\ ArchiveInit  /\ (part # "archive"  => ~allowPrivate)
    /\ EdgeInit     /\ (part # "edge"     => ~public /\ cfg = SomeOf([admins : {{}}, enabled : {TRUE}, ttl : Ttls])
                                            /\ rule = "headers")
    /\ CanaryInit   /\ (part # "canary"   => site = [s \in Specs |-> Serving(Full, Half)])
    /\ TuiInit /\ LogInit /\ EvalInit

Next ==
    \/ /\ part = "config" /\ ConfigNext
       /\ UNCHANGED <<part, execVars, engineVars, providerVars, tuiVars, logVars,
                      archiveVars, evalVars, edgeVars, canaryVars>>
    \/ /\ part = "exec" /\ ExecNext /\ respawns' <= MaxRespawns
       /\ UNCHANGED <<part, configVars, engineVars, providerVars, tuiVars,
                      logVars, archiveVars, evalVars, edgeVars, canaryVars>>
    \/ /\ part = "engines" /\ EngineNext
       /\ UNCHANGED <<part, configVars, execVars, providerVars, tuiVars, logVars,
                      archiveVars, evalVars, edgeVars, canaryVars>>
    \/ /\ part = "provider" /\ ProviderNext
       /\ UNCHANGED <<part, configVars, execVars, engineVars, tuiVars, logVars,
                      archiveVars, evalVars, edgeVars, canaryVars>>
    \/ /\ part = "tui" /\ TuiNext
       /\ UNCHANGED <<part, configVars, execVars, engineVars, providerVars,
                      logVars, archiveVars, evalVars, edgeVars, canaryVars>>
    \/ /\ part = "logs" /\ LogNext /\ RequestsInTurn
       /\ UNCHANGED <<part, configVars, execVars, engineVars, providerVars,
                      tuiVars, archiveVars, evalVars, edgeVars, canaryVars>>
    \/ /\ part = "archive" /\ ArchiveNext
       /\ UNCHANGED <<part, configVars, execVars, engineVars, providerVars,
                      tuiVars, logVars, evalVars, edgeVars, canaryVars>>
    \/ /\ part = "evals" /\ EvalNext
       /\ UNCHANGED <<part, configVars, execVars, engineVars, providerVars,
                      tuiVars, logVars, archiveVars, edgeVars, canaryVars>>
    \/ /\ part = "edge" /\ EdgeNext
       /\ UNCHANGED <<part, configVars, execVars, engineVars, providerVars,
                      tuiVars, logVars, archiveVars, evalVars, canaryVars>>
    \/ /\ part = "canary" /\ CanaryNext
       /\ UNCHANGED <<part, configVars, execVars, engineVars, providerVars, tuiVars, logVars,
                      archiveVars, evalVars, edgeVars>>
=============================================================================

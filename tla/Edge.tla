-------------------------------- MODULE Edge --------------------------------
(***************************************************************************)
(* The HTTP surface behind a shared cache (cauce-server routes.rs, app.rs, *)
(* middleware.rs, capabilities.rs): the route table with its auth and cache *)
(* classes, the layers a request passes, the role and the owner a bearer   *)
(* token makes, and the Cache-Control a reply is stamped with.             *)
(*                                                                         *)
(* The edge is external: it keeps what a header makes public (or, under a  *)
(* "cache everything" rule, what no header forbids), keyed by the path     *)
(* alone, and may repeat it for max-age + stale-while-revalidate.  A call  *)
(* to the origin is one step.                                              *)
(***************************************************************************)
EXTENDS Naturals, FiniteSets

CONSTANTS Paths,     \* the paths the callers ask for
          Changing,  \* bound: those whose content changes
          Tokens,    \* bearer tokens
          Anonymous, \* no token
          Accepts,   \* media types asked for: "html", "markdown"
          Ttls,      \* values of edge.ttl_s, in ticks
          Versions    \* the versions of a path's content

ASSUME TtlsAssumption == Ttls \subseteq Nat /\ \E t \in Ttls : \A u \in Ttls : u <= t
ASSUME ChangingAssumption == Changing \subseteq Paths
ASSUME VersionsAssumption == Versions # {} /\ "gone" \notin Versions

VARIABLES
    public,    \* server.public_instance, frozen at start
    cfg,       \* live [auth] admin_tokens and [edge]: admins, enabled, ttl
    rule,      \* the edge's: "headers" or "everything"
    content,   \* content[p]: the current version of p, or "gone"
    since,     \* since[p][v]: ticks since v was the version of p
    cdn,       \* what the edge keeps: a partial function on paths
    told       \* history: what the edge has just repeated, and to whom

edgeVars == <<public, cfg, rule, content, since, cdn, told>>

Askers == Tokens \cup {Anonymous}
Longest == CHOOSE t \in Ttls : \A u \in Ttls : u <= t
TooOld  == 2 * Longest + 1          \* bound: where ages stop counting
NothingRepeated == <<>>

-----------------------------------------------------------------------------
(* ROUTES.  Every row is GET unless it says otherwise.                     *)
UiPaths == {"/", "/search", "/answer", "/answer/{id}", "/app", "/app/", "/app/{*rest}",
            "/opensearch.xml", "/favicon.ico", "/trace/{id}"}

WellKnown == {"/robots.txt", "/sitemap.xml", "/auth.md", "/.well-known/api-catalog",
              "/.well-known/agent-card.json", "/.well-known/ai-catalog.json",
              "/.well-known/mcp/server-card.json", "/.well-known/agent-skills/index.json",
              "/.well-known/agent-skills/search/SKILL.md",
              "/.well-known/oauth-authorization-server",
              "/.well-known/oauth-protected-resource"}

SharedRows == (UiPaths \ {"/trace/{id}"}) \cup WellKnown
              \cup {"/api/search", "/api/suggest", "/api/pages/{url}", "/api/archive",
                    "/api/instance"}

AdminGets == {"/api/history", "/api/stats", "/api/cache", "/api/cache/{key}", "/api/audit",
              "/api/config", "/api/engines", "/metrics", "/api/answer-log/{id}",
              "/api/report", "/trace/{id}"}

AdminWrites == {<<"POST", "/api/click">>, <<"DELETE", "/api/cache/{key}">>,
                <<"DELETE", "/api/cache">>, <<"PUT", "/api/config">>,
                <<"POST", "/api/engines/{id}/reset">>, <<"POST", "/api/engines/{id}/enable">>,
                <<"POST", "/api/engines/{id}/disable">>, <<"DELETE", "/api/history/{id}">>,
                <<"DELETE", "/api/answer-log/{id}">>, <<"POST", "/api/pages">>,
                <<"DELETE", "/api/pages/{url}">>, <<"POST", "/mcp">>}

OpenRows == {<<"GET", "/health">>, <<"GET", "/api/search/stream">>, <<"POST", "/api/answer">>,
             <<"GET", "/api/capabilities">>, <<"GET", "/api/threads">>,
             <<"GET", "/api/threads/{id}">>, <<"DELETE", "/api/threads/{id}">>}

RouteSpec(method, path, auth, cache) ==
    [method |-> method, path |-> path, auth |-> auth, cache |-> cache]

ROUTES == {RouteSpec("GET", p, "open", "shared") : p \in SharedRows}
          \cup {RouteSpec("GET", p, "admin", "private") : p \in AdminGets}
          \cup {RouteSpec(w[1], w[2], "admin", "private") : w \in AdminWrites}
          \cup {RouteSpec(o[1], o[2], "open", "private") : o \in OpenRows}

(* build_router_opts: what the callers of this instance can reach.         *)
MountedRows == {row \in ROUTES : row.path \in Paths}

-----------------------------------------------------------------------------
RoleFor(token)     == IF ~public \/ token \in cfg.admins THEN "admin" ELSE "user"
ThreadOwner(token) == IF public THEN token ELSE "local"

(* What of a reply depends on who asks, and how: /api/capabilities tells   *)
(* the caller's role, the threads are the owner's, and the pages that lead *)
(* into the SPA are another text for those who accept markdown.            *)
ForWhom(path, token) ==
    CASE path = "/api/capabilities"                      -> RoleFor(token)
      [] path \in {"/api/threads", "/api/threads/{id}"}  -> ThreadOwner(token)
      [] OTHER                                           -> "anyone"

PrefersMarkdown(path, accept) == accept = "markdown" /\ path \in {"/", "/search", "/answer", "/app"}

BodyFor(path, token, accept) ==
    [whom |-> ForWhom(path, token), markdown |-> PrefersMarkdown(path, accept),
     version |-> content[path]]

(* Headers a handler sets itself: the SPA's shell revalidates, an event    *)
(* stream is not kept.                                                     *)
OwnHeader(path, accept) ==
    IF path \in {"/app", "/api/search/stream"} /\ ~PrefersMarkdown(path, accept)
    THEN "no-cache" ELSE "none"

\* Mutated Stamp: private rows are left as the handler built them.
StampSharedOnly(row, own) ==
    IF own # "none" \/ ~cfg.enabled THEN own
    ELSE IF row.cache = "shared" THEN "public" ELSE "none"

(* edge_cache, on replies under 400: the handler's header wins.            *)
Stamp(row, own) ==
    IF own # "none" \/ ~cfg.enabled THEN own
    ELSE IF row.cache = "shared" THEN "public" ELSE "private"

Refused(status) == [status |-> status, header |-> "none"]

(* The layers, outermost first: the limits (which exempt an admin), the    *)
(* Host and Origin guard, the routing, require_admin, the handler.  A      *)
(* request is [method, path, token, accept, foreign].                      *)
OriginReplies(req) ==
    LET rows    == {row \in MountedRows : row.path = req.path}
        exact   == {row \in rows : row.method = req.method}
        role    == RoleFor(req.token)
        limited == IF role # "admin" /\ req.path # "/health" THEN {Refused(429)} ELSE {}
        routed  ==
            IF req.foreign THEN Refused(403)
            ELSE IF rows = {} THEN Refused(404)
            ELSE IF exact = {} THEN Refused(405)
            ELSE LET row == CHOOSE r \in exact : TRUE IN
                 IF row.auth = "admin" /\ role # "admin" THEN Refused(401)
                 ELSE IF content[row.path] = "gone" THEN Refused(404)
                 ELSE [status |-> 200, header |-> Stamp(row, OwnHeader(row.path, req.accept)),
                       body |-> BodyFor(row.path, req.token, req.accept)]
    IN  limited \cup {routed}

EdgeRequests == [method : {"GET", "PUT", "DELETE"}, path : Paths, token : Askers,
              accept : Accepts, foreign : BOOLEAN]

-----------------------------------------------------------------------------
EdgeInit ==
    /\ public \in BOOLEAN
    /\ cfg \in [admins : SUBSET Tokens, enabled : BOOLEAN, ttl : Ttls]
    /\ rule \in {"headers", "everything"}
    /\ rule = "everything" => cfg.enabled
    /\ content = [p \in Paths |-> CHOOSE v \in Versions : TRUE]
    /\ since = [p \in Paths |-> [v \in Versions |-> IF v = content[p] THEN 0 ELSE TooOld]]
    /\ cdn = <<>> /\ told = NothingRepeated

(* What the edge keeps of a reply.                                        *)
Keeps(req, r) ==
    /\ req.method = "GET" /\ r.status = 200
    /\ r.header = "public" \/ (rule = "everything" /\ r.header = "none")

NowIs(p, v) ==
    /\ content' = [content EXCEPT ![p] = v]
    /\ since' = IF v = "gone" THEN since ELSE [since EXCEPT ![p][v] = 0]

(* A request goes to the origin: nothing is kept for its path, the edge    *)
(* revalidates, or it is another of its sites.  DELETE removes a page;     *)
(* PUT /api/config takes effect at once (an operator turns [edge] off only *)
(* where the edge goes by the headers).                                    *)
AskOrigin(req) ==
    \E r \in OriginReplies(req) :
        /\ told' = NothingRepeated
        /\ IF Keeps(req, r)
           THEN cdn' = [p \in DOMAIN cdn \cup {req.path} |->
                            IF p = req.path THEN [body |-> r.body, age |-> 0, ttl |-> cfg.ttl]
                                            ELSE cdn[p]]
           ELSE cdn' = cdn
        /\ IF r.status = 200 /\ req.method = "DELETE" THEN NowIs(req.path, "gone")
                                                      ELSE UNCHANGED <<content, since>>
        /\ IF r.status = 200 /\ req.method = "PUT"
           THEN cfg' \in {c \in [admins : SUBSET Tokens, enabled : BOOLEAN, ttl : Ttls] :
                            rule = "everything" => c.enabled}
           ELSE cfg' = cfg
        /\ UNCHANGED <<public, rule>>

(* The edge repeats what it keeps, whoever asks.                           *)
AskEdge(req) ==
    /\ req.method = "GET" /\ req.path \in DOMAIN cdn /\ ~req.foreign
    /\ told' = [req |-> req, entry |-> cdn[req.path]]
    /\ UNCHANGED <<public, cfg, rule, content, since, cdn>>

(* The content behind a path changes: a search is run again, a page is     *)
(* indexed again, a row is written.                                        *)
ContentChanges(p) ==
    /\ \E v \in Versions : v # content[p] /\ NowIs(p, v)
    /\ told' = NothingRepeated
    /\ UNCHANGED <<public, cfg, rule, cdn>>

(* A tick of time: what was replaced ages, what the edge keeps ages and    *)
(* falls out past max-age + stale-while-revalidate.                        *)
EdgeTick ==
    LET kept == {p \in DOMAIN cdn : cdn[p].age < 2 * cdn[p].ttl}
    IN  /\ since' = [p \in Paths |-> [v \in Versions |->
                        IF v = content[p] \/ since[p][v] = TooOld THEN since[p][v]
                                                                  ELSE since[p][v] + 1]]
        /\ cdn' = [p \in kept |-> [cdn[p] EXCEPT !.age = @ + 1]]
        /\ told' = NothingRepeated
        /\ UNCHANGED <<public, cfg, rule, content>>

EdgeNext ==
    \/ \E req \in EdgeRequests : AskOrigin(req) \/ AskEdge(req)
    \/ \E p \in Changing : ContentChanges(p)
    \/ EdgeTick

EdgeSpec == EdgeInit /\ [][EdgeNext]_edgeVars

-----------------------------------------------------------------------------
(* What the edge repeats is what the origin would have told this very      *)
(* caller within the last max-age + stale-while-revalidate: never a reply *)
(* another caller's role or token made, never an admin row, never a        *)
(* version replaced longer ago (RouteCache, edge_cache, role_for).         *)
EdgeRepeatsTheOrigin ==
    told # NothingRepeated =>
        LET req  == told.req
            kept == told.entry.body
        IN  /\ \A row \in MountedRows :
                 row.path = req.path /\ row.method = "GET" /\ row.auth = "admin" =>
                    RoleFor(req.token) = "admin"
            /\ kept.whom = ForWhom(req.path, req.token)
            /\ kept.markdown = PrefersMarkdown(req.path, req.accept)
            /\ since[req.path][kept.version] <= 2 * told.entry.ttl
=============================================================================

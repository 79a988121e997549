----------------------------- MODULE Permissions -----------------------------
(***************************************************************************)
(* Which permission a request needs (app/auth/resources.py, and dispatch   *)
(* of app/auth/middleware.py): one list of resources names the paths each  *)
(* of them guards; the longest prefix decides, and what nobody names falls *)
(* to the gateway's own resource.                                          *)
(***************************************************************************)
EXTENDS Naturals, Sequences

\* The resources with paths on the gateway, and where their cards lead.
RESOURCES ==
    [hub |-> [url |-> "/hub/", paths |-> {"/hub", "/api/v1/hub"}],
     platform |-> [url |-> "/hub/platform.html", paths |-> {"/hub/platform.html"}],
     gateway |-> [url |-> "/tools/platform",
                  paths |-> {"/tools/platform", "/tools/tour", "/tools/library", "/api/v1/map", "/api/v1/workspace",
                             "/systems", "/connectors", "/metrics", "/docs", "/openapi.json", "/redoc", "/"}],
     namebuilder |-> [url |-> "/tools/name-builder", paths |-> {"/tools/name-builder", "/api/v1/nama"}],
     engineer |-> [url |-> "/tools/engineer", paths |-> {"/tools/engineer"}],
     rep |-> [url |-> "/tools/rep", paths |-> {"/tools/rep", "/api/v1/rep"}],
     certificate |-> [url |-> "/tools/certificate", paths |-> {"/tools/certificate"}],
     imports |-> [url |-> "/tools/imports", paths |-> {"/tools/imports", "/api/v1/imports"}],
     finance |-> [url |-> "/tools/finance-os",
                  paths |-> {"/tools/finance-os", "/tools/finance-reports", "/api/v1/finance", "/api/v1/banks"}],
     secrets |-> [url |-> "/tools/keys", paths |-> {"/tools/keys", "/api/v1/keys"}],
     vat |-> [url |-> "/tools/vat", paths |-> {"/tools/vat", "/api/v1/vat", "/api/v1/eta", "/tools/portal", "/vnc"}],
     expert |-> [url |-> "/tools/expert", paths |-> {"/tools/expert", "/api/v1/expert"}],
     legal |-> [url |-> "/tools/legal", paths |-> {"/tools/legal", "/api/v1/legal"}],
     ideas |-> [url |-> "/tools/ideas", paths |-> {"/tools/ideas", "/api/v1/ideas"}],
     users |-> [url |-> "/hub/admin.html", paths |-> {"/hub/admin.html", "/hub/resets.html", "/api/v1/auth/admin"}],
     cameras |-> [url |-> "/tools/cctv", paths |-> {"/tools/cctv", "/api/v1/cctv"}]]

\* The other systems, whose cards lead away.
External ==
    [inventory |-> {"/api/v1/inventory"}, crm |-> {"/api/v1/crm"}, attendance |-> {"/api/v1/attendance"}]

PUBLIC_PREFIXES ==
    {"/login", "/logout", "/health", "/favicon.ico", "/tools/voice.js", "/forgot", "/reset", "/api/v1/auth/forgot",
     "/api/v1/auth/reset", "/api/v1/auth/systems", "/api/v1/auth/me", "/api/v1/auth/login", "/api/v1/auth/logout",
     "/hub/login.html", "/api/v1/cctv/push", "/eta/erp"}

Guarded(r) == IF r \in DOMAIN RESOURCES THEN RESOURCES[r].paths ELSE External[r]
Claims == UNION {{[prefix |-> p, resource |-> r] : p \in Guarded(r)} : r \in DOMAIN RESOURCES \cup DOMAIN External}

StartsWith(path, prefix) == Len(prefix) <= Len(path) /\ SubSeq(path, 1, Len(prefix)) = prefix
Within(path, prefix) == path = prefix \/ StartsWith(path, prefix \o "/") \/ StartsWith(path, prefix \o "?")

\* A long prefix covers its siblings as well, and "/" is the index alone.
Covers(prefix, path) ==
    IF prefix = "/" THEN path = "/" ELSE Within(path, prefix) \/ (Len(prefix) > 8 /\ StartsWith(path, prefix))

resource_for_path(path) ==
    LET claims == {c \in Claims : Covers(c.prefix, path)}
    IN  IF claims = {} THEN "gateway"
        ELSE (CHOOSE c \in claims : \A d \in claims : Len(d.prefix) <= Len(c.prefix)).resource

\* The portal's browser hands in what it read under any of these.
AgentPosts == {"/api/v1/eta/" \o entity \o "/ingest" : entity \in {"documents", "codes"}}

is_public(path) == (\E p \in PUBLIC_PREFIXES : Within(path, p)) \/ path \in AgentPosts

\* What the middleware asks the account for.
Needed(method, path) ==
    LET resource == resource_for_path(path)
    IN  [resource |-> resource,
         action |-> IF resource = "users" THEN "admin"
                    ELSE IF method \in {"GET", "HEAD", "OPTIONS"} THEN "view" ELSE "edit"]

-----------------------------------------------------------------------------
(* The routes, as the routers mount them (routers/tools.py, main.py).      *)

ToolPages ==
    {"/tools/" \o page : page \in {"name-builder", "portal", "keys", "vat", "cctv", "finance-os", "finance-reports",
        "engineer", "ideas", "tour", "platform", "imports", "certificate", "expert", "legal", "rep",
        "platform/public", "library", "library/manual"}}

Apis ==
    {"/api/v1/" \o part : part \in {"hub", "nama", "attendance", "crm", "banks", "inventory", "finance", "expert", "legal",
        "rep", "cctv", "vat", "imports", "keys", "eta", "workspace", "ideas", "map"}}

AdminPaths ==
    {"/api/v1/auth/admin/" \o part : part \in {"resources", "users", "roles", "audit", "resets", "mail"}}
        \cup {"/hub/admin.html", "/hub/resets.html"}

Below(path) == {path, path \o "/x", path \o "?x", path \o "/x/y"}

-----------------------------------------------------------------------------
(* Properties.                                                             *)

\* "One list drives three things so they can never disagree" (resources.py:3): a card is shown on
\* the permission of the page it leads to; no prefix is claimed by two; and none that is claimed
\* is public.
ListsAgree ==
    /\ \A r \in DOMAIN RESOURCES : resource_for_path(RESOURCES[r].url) = r
    /\ \A c, d \in Claims : c.prefix = d.prefix => c = d
    /\ \A c \in Claims : ~is_public(c.prefix)

\* Every page and every API is claimed by name, and keeps its resource all the way down: none falls
\* to the gateway's because its prefix was forgotten, and the admin screen's paths ask for "admin".
EveryRouteIsClaimed ==
    /\ \A route \in ToolPages \cup Apis : \E c \in Claims :
          /\ Within(route, c.prefix)
          /\ \A path \in Below(route) : resource_for_path(path) = c.resource
    /\ \A route \in AdminPaths : \A method \in {"GET", "POST"} : \A path \in Below(route) :
          ~is_public(path) /\ Needed(method, path) = [resource |-> "users", action |-> "admin"]

\* An account's own password is none of the paths that are named: changing it needs "edit" on the
\* gateway's resource.
OwnPasswordFallsToTheGateway ==
    /\ ~is_public("/api/v1/auth/password")
    /\ Needed("POST", "/api/v1/auth/password") = [resource |-> "gateway", action |-> "edit"]
=============================================================================

---------------------------- MODULE MCApiRequest ----------------------------
(***************************************************************************)
(* An instance of ApiRequest: pages of two, and a limit within the third.  *)
(* The collection has up to six records at first, in an order that does    *)
(* not matter; records are inserted while there are fewer.  The flags are  *)
(* combined for three literal paths; every other target has its own.       *)
(***************************************************************************)
EXTENDS ApiRequest

MCRecords == 1..6
MCCollections == {[i \in 1..n |-> i] : n \in 0..6}

-----------------------------------------------------------------------------
Workspaces == <<"organizations", "{organization_name}", "workspaces">>
Teams      == <<"organizations", "{organization_name}", "teams">>

Resource(type, alias, prefix, get, list, create, resolvable) ==
    [type |-> type, aliases |-> {alias}, prefix |-> prefix, get |-> get, list |-> list,
     create |-> create, resolvable |-> resolvable]

MCResources ==
    {Resource("workspaces", "ws", "ws-", <<"workspaces", "{id}">>, Workspaces, Workspaces, TRUE),
     Resource("teams", "team", "team-", <<"teams", "{id}">>, Teams, Teams, TRUE),
     Resource("run-tasks", "task", "task-", <<"tasks", "{id}">>, None, None, FALSE),
     Resource("explorer-saved-queries", "query", "sq-",
        <<"organizations", "{organization_name}", "explorer", "views", "{id}">>,
        None, None, FALSE),
     Resource("gpg-keys", "gpg-key", None, None, None, None, FALSE)}

MCPlaceholders == {"{organization_name}", "{id}", "{organization}", "{workspace}", "{team}"}

MCPrefixOf ==
    [w \in {"ws-1", "ws-2", "ws-legacy", "ws-s", "team-1", "team-2", "task-1", "sq-1", "app", "ops",
            "workspaces", "ws", "gpg-key", "acme", "vars"} |->
        CASE w \in {"ws-1", "ws-2", "ws-legacy", "ws-s"} -> "ws-"
          [] w \in {"team-1", "team-2"} -> "team-"
          [] w = "task-1" -> "task-"
          [] w = "sq-1"   -> "sq-"
          [] OTHER        -> None]

MCPlural ==
    {"workspaces", "teams", "vars", "organizations", "tasks", "views", "relationships",
     "ops", "ws-s"}

\* Both organizations have an app and a team ops.
MCDirectory ==
    "acme" :> ("workspaces" :> ("app" :> "ws-1") @@ "teams" :> ("ops" :> "team-1"))
    @@ "umbrella" :> ("workspaces" :> ("app" :> "ws-2") @@ "teams" :> ("ops" :> "team-2"))

Linkage(enum, allOf, oneOf, toMany) ==
    [data |-> TRUE, enum |-> enum, allOf |-> allOf, oneOf |-> oneOf, toMany |-> toMany]

MCDescription ==
    <<[template |-> <<"organizations", "{organization_name}", "workspaces">>,
       methods |-> "POST" :>
          ("project" :> Linkage({}, <<{}, {"projects"}>>, {}, FALSE)
           @@ "tags" :> Linkage({"tags"}, <<>>, {}, TRUE)
           @@ "locked-by" :> Linkage({}, <<>>, {{"users"}, {"teams"}}, FALSE))],
      [template |-> <<"workspaces", "{id}">>,
       methods |-> "PATCH" :> ("project" :> Linkage({"projects"}, <<>>, {}, FALSE))]>>

-----------------------------------------------------------------------------
Block(kind, organization, workspace) ==
    [parses |-> TRUE, onlyKnownSettings |-> TRUE, kind |-> kind,
     organization |-> organization, workspace |-> workspace]

Cloud == Block("cloud", "acme", "app")

MCBlocks ==
    {<<>>, <<Cloud>>, <<Block("cloud", "acme", "ws-legacy")>>,
     <<Block("cloud", "umbrella", None), [Cloud EXCEPT !.onlyKnownSettings = FALSE],
       Block("s3", "umbrella", "app"), Block("remote", "umbrella", "app"), Cloud>>}

Blank ==
    [verb |-> "api", words |-> <<>>, path |-> <<>>, given |-> <<>>, organization |-> None,
     method |-> None, type |-> None, attributes |-> FALSE, rels |-> {}, input |-> FALSE,
     profile |-> None, blocks |-> <<>>]

Around(targets) ==
    UNION {{[t EXCEPT !.profile = o, !.blocks = b] : o \in {None, "acme", "umbrella"},
                                                    b \in MCBlocks} : t \in targets}

Rel(name, type, ids) == [name |-> name, type |-> type, ids |-> ids]

MCRels ==
    {{Rel("project", None, <<"p">>)}, {Rel("project", None, <<"p", "q">>)},
     {Rel("project", None, <<"p">>), Rel("project", "projects", <<"q">>)},
     {Rel("project", None, <<"p">>), Rel("tags", None, <<"t", "u">>)},
     {Rel("locked-by", None, <<"u">>)}, {Rel("locked-by", "users", <<"u">>)},
     {Rel("owner", None, <<"u">>)}, {Rel("owner", "users", <<"u", "v">>)},
     {Rel("tags", None, <<>>)}}

Readings ==
    {[Blank EXCEPT !.path = q, !.given = g] :
        q \in {<<"workspaces", "{workspace}", "vars">>,
               <<"organizations", "{organization}", "workspaces", "{workspace}">>,
               <<"organizations", "acme", "teams", "{team}">>},
        g \in {<<>>, "{workspace}" :> "app", "{workspace}" :> "ws-legacy",
               "{organization}" :> "umbrella" @@ "{workspace}" :> "app",
               "{team}" :> "ops"}}

Gets ==
    {[Blank EXCEPT !.verb = "get", !.method = "GET", !.words = w, !.organization = o] :
        w \in {<<"ws">>, <<"ws-1">>, <<"ws", "ws-1">>, <<"ws", "team-1">>, <<"gpg-key">>,
               <<"sq-1">>, <<"app">>, <<"app", "ws-1">>},
        o \in {None, "umbrella"}}

Creates ==
    {[Blank EXCEPT !.verb = "create", !.method = "POST", !.words = <<w>>, !.type = "workspaces",
                   !.attributes = a, !.rels = r, !.input = i] :
        w \in {"ws", "gpg-key"}, a \in BOOLEAN, i \in BOOLEAN,
        r \in {{}, {Rel("project", None, <<"p">>)}}}

Mutations ==
    {[Blank EXCEPT !.path = <<"organizations", "acme", "workspaces">>, !.rels = r,
                   !.attributes = a] : r \in MCRels, a \in BOOLEAN}
    \cup
    {[Blank EXCEPT !.path = <<"workspaces", w>>, !.method = "PATCH", !.attributes = TRUE,
                   !.rels = r] :
        w \in {"ws-1", "ws-s"}, r \in {{}, {Rel("project", None, <<"p">>)}}}
    \cup
    {[Blank EXCEPT !.path = q, !.method = "DELETE", !.type = t] : t \in {None, "vars"},
        q \in {<<"organizations", "acme", "explorer", "views", "sq-1">>, <<"tasks", "task-1">>,
               <<"workspaces", "ws-1">>, <<"workspaces", "{workspace}">>,
               <<"workspaces", "ws-1", "relationships", "vars">>}}

Plain ==
    {[Blank EXCEPT !.path = <<"organizations", "acme", "workspaces">>, !.method = "GET"],
     [Blank EXCEPT !.path = <<"organizations", "acme", "workspaces">>, !.input = TRUE],
     [Blank EXCEPT !.path = <<"workspaces", "ws-1">>, !.method = "DELETE"]}

MCCases ==
    {[target |-> t, opts |-> o] : t \in Plain,
        o \in Options}
    \cup
    {[target |-> t, opts |-> [answer |-> "object", all |-> FALSE, dryRun |-> d, quiet |-> FALSE]] :
        t \in Around(Readings \cup Gets \cup Creates) \cup Mutations, d \in BOOLEAN}

\* What the paths of the targets answer with.
MCAnswers ==
    {c \in MCCases :
        c.opts.answer \in IF Method(c.target) = "GET" THEN {"list", "object", "json", "log"}
                          ELSE {"list", "object", "empty"}}
=============================================================================

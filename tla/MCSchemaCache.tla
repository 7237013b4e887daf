--------------------------- MODULE MCSchemaCache ----------------------------
(* Three documents.  Schemas refer to each other in a circle, list and show  *)
(* share a path, and vars is nested in workspaces.                           *)
EXTENDS SchemaCache, TLC

MCPath ==
    1 :> <<"workspaces", "{team}">> @@ 2 :> <<"workspaces", "{team}", "vars">>
    @@ 3 :> <<"workspaces", "{team}">>
MCPathParameters == {"{team}"}
MCWords ==
    [s \in {"workspaces", "vars", "{team}"} |-> IF s = "{team}" THEN {"team"} ELSE {s}]
MCTags == 1 :> {"workspaces"} @@ 2 :> {"workspaces", "vars"} @@ 3 :> {"teams"}
MCName == 1 :> {"show"} @@ 2 :> {"list", "vars"} @@ 3 :> {"delete"}

MCNormal ==
    [w \in {"workspaces", "vars", "teams", "show", "list", "delete", "the", "get",
            "workspace", "team", "{team}"} |->
        CASE w \in {"workspaces", "workspace"} -> "workspace"
          [] w = "vars"  -> "variable"
          [] w = "teams" -> "team"
          [] w = "show"  -> "get"
          [] w = "the"   -> NoWord
          [] OTHER       -> w]

MCQueries == {<<"show", "the", "workspaces">>, <<"delete", "vars", "list">>}

MCRetrievals ==
    {<<>>, 2 :> 1, 1 :> 1 @@ 3 :> 2, 1 :> 1 @@ 2 :> 2 @@ 3 :> 1}

MCOperationRefs ==
    [d \in 0..Versions |->
        1 :> {"workspace"} @@ 2 :> {"var", "page"} @@ 3 :> {}]
MCSchemaRefs ==
    [d \in 0..Versions |->
        "workspace" :> (IF d = 1 THEN {"var"} ELSE {})
        @@ "var" :> {"workspace", "var"} @@ "other" :> {"workspace"}]
=============================================================================

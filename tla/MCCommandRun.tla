----------------------------- MODULE MCCommandRun -----------------------------
(***************************************************************************)
(* An instance of CommandRun: every command line of two tokens, and longer  *)
(* ones for the commands whose flags interact; documents in which a secret   *)
(* lies directly under the attributes, below a nested object or in one, in a *)
(* declared sensitive variable, in a collection, and in a value's text.      *)
(***************************************************************************)
EXTENDS CommandRun

\* The names and values of the documents.
MCKnown == {"token"}
MCCapability == {"upload-url"}
MCSensitive == {"token", "password"}
MCShaped == {"jwt"}
MCIndexes == {"0", "1"}
MCPreferred == <<"name", "key">>
MCExcluded == {"permissions"}

Attribute(name) == <<"data", "attributes", name>>
Resource == [p \in {<<"data", "id">>, <<"data", "type">>} |-> "text"]

Merge(f, g) == [p \in DOMAIN f \cup DOMAIN g |-> IF p \in DOMAIN f THEN f[p] ELSE g[p]]

MCDocument == [
    declared |->
        Merge(Resource, Attribute("key") :> "text" @@ Attribute("value") :> "secret"
                        @@ Attribute("sensitive") :> True),
    named |->
        Merge(Resource, Attribute("key") :> "password" @@ Attribute("value") :> "secret"
                        @@ Attribute("description") :> "jwt"),
    overwritten |->
        Merge(Resource, Attribute("sensitive") :> True @@ Attribute("value") :> "secret"
                        @@ (<<"data", "relationships", "sensitive", "data", "id">> :> "text")),
    nested |->
        Merge(Resource, (<<"data", "attributes", "source", "token">> :> "secret")
                        @@ Attribute("name") :> "text"
                        @@ Attribute("upload-url") :> "text"
                        @@ Attribute("password") :> "secret"),
    container |->
        Merge(Resource, (<<"data", "attributes", "token", "hash">> :> "secret")
                        @@ (<<"data", "attributes", "option", "value">> :> "secret")
                        @@ (<<"data", "attributes", "option", "sensitive">> :> True)
                        @@ (<<"data", "relationships", "token", "data", "id">> :> "text")),
    collection |->
        (<<"data", "0", "id">> :> "text") @@ (<<"data", "0", "type">> :> "text")
        @@ (<<"data", "0", "attributes", "name">> :> "text")
        @@ (<<"data", "0", "attributes", "password">> :> "secret")
        @@ (<<"data", "1", "id">> :> "text")
        @@ (<<"data", "1", "attributes", "token">> :> "secret")
        @@ (<<"data", "1", "attributes", "permissions">> :> "text"),
    bare |-> (<<"token">> :> "secret") @@ (<<"name">> :> "text"),
    harmless |-> (<<"name">> :> "text") ]

MCBodies == DOMAIN MCDocument

MCHeaders == {"token", "accept"}

Short == UNION {[1..n -> Commands \cup FlagTokens \cup {"x"}] : n \in 0..2}
ShowFlags == {"--json", "--jq=.", "--jq=(", "--jq=error", "--markdown",
              "--no-redact", "--quiet", "--dry-run", "--profile=other"}
MCLines ==
    Short
    \cup {<<c, a, t>> : c \in {"api", "exec", "rename"}, a \in {"x", "ctl", "version"},
                        t \in FlagTokens \cup {"y"}}
    \cup {<<"api", "x", "--dry-run", "--dry-run=false">>,
          <<"exec", "--dry-run=1", "--", "--dry-run">>,
          <<"exec", "--", "x", "--dry-run">>}
    \cup {<<"api", "x", f, g>> : f \in {"--no-redact", "--profile=other"},
                                 g \in ShowFlags}

Profile(token, redact, mode) ==
    [token |-> token, redact |-> redact, telemetry |-> mode]
Setup(active, other) ==
    [redactVar |-> "", doNotTrack |-> FALSE, skipMigrate |-> FALSE,
     envToken |-> FALSE, readable |-> TRUE, otherExists |-> TRUE,
     active |-> active, other |-> other]

MCSetups ==
    LET plain == Setup(Profile(TRUE, "", "anonymous"), Profile(FALSE, "known", "disabled"))
    IN  { plain,
          [plain EXCEPT !.redactVar = "typo", !.active.redact = "off"],
          [plain EXCEPT !.active.token = FALSE, !.active.redact = "off",
                        !.other.token = TRUE, !.doNotTrack = TRUE],
          [plain EXCEPT !.redactVar = "off", !.active.token = FALSE,
                        !.envToken = TRUE, !.otherExists = FALSE],
          [plain EXCEPT !.skipMigrate = TRUE, !.active.redact = "known"],
          [plain EXCEPT !.readable = FALSE] }
=============================================================================

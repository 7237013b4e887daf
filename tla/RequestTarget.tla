--------------------------- MODULE RequestTarget ----------------------------
(***************************************************************************)
(* What a request is sent to, and with which body: the command line of     *)
(* get, create and api, the profile's organization and the Terraform       *)
(* configuration of the directory make a path; the API description makes   *)
(* the types of relationships.                                             *)
(*                                                                         *)
(*   src/internal/commands/{get,create,api,cmdutil}, src/internal/pkg/     *)
(*   client/path_params.go and resolver.go, src/internal/pkg/terraform     *)
(***************************************************************************)
EXTENDS Registry, Functions, FiniteSets

CONSTANTS
    OrganizationName, Id,   \* "{organization_name}" and "{id}" of Resources' paths
    Plural,       \* the words that end in "s"
    Directory,    \* the ids of an organization's resources: by segment, by name
    Description   \* templates in key order, each with the relationships of its methods

Params(path) == Range(path) \cap Placeholders

\* The registry's paths have no other placeholders.
ASSUME TemplatesAssumption ==
    /\ OrganizationName # Id
    /\ \A r \in Resources :
        /\ \A template \in {r.get, r.list, r.create} \ {None} : template \in Seq(STRING)
        /\ \A template \in {r.list, r.create} \ {None} : Params(template) \subseteq {OrganizationName}
        /\ r.get # None => Params(r.get) \subseteq {OrganizationName, Id}

-----------------------------------------------------------------------------
(* Terraform configuration: the cloud and backend blocks of a directory in *)
(* the order of the walk.                                                  *)

NoConfig == [organization |-> None, workspace |-> None]

\* A file that does not parse, a block whose terraform block or which itself has
\* settings that the code does not list, and one without a name are passed over.
Usable(block) ==
    /\ block.parses /\ block.onlyKnownSettings
    /\ block.kind \in {"cloud", "remote"}
    /\ block.organization # None /\ block.workspace # None

FindCloudConfig(blocks) ==
    LET usable == {i \in DOMAIN blocks : Usable(blocks[i])}
        first  == blocks[Min(usable)]
    IN  IF usable = {} THEN NoConfig
        ELSE [organization |-> first.organization, workspace |-> first.workspace]

OrElse(word, other) == IF word # None THEN word ELSE other

\* A target: verb, words, path, given (the values of -p), organization (--organization),
\* method, type, attributes, rels, input; profile and blocks are its surroundings.
ResolveOrganization(t) ==
    OrElse(t.organization, OrElse(t.profile, FindCloudConfig(t.blocks).organization))

-----------------------------------------------------------------------------
(* get and create.                                                         *)

Substitute(path, values) ==
    [i \in DOMAIN path |-> IF path[i] \in DOMAIN values THEN values[path[i]] ELSE path[i]]

ResolvePath(template, organization) ==
    IF template = None \/ (OrganizationName \in Range(template) /\ organization = None)
    THEN None
    ELSE Substitute(template, [p \in {OrganizationName} |-> organization])

\* runGetByID: another placeholder would stay.
PathByID(resource, id) ==
    IF resource.get = None THEN None ELSE Substitute(resource.get, [p \in {Id} |-> id])

\* runGet; None is an error.
GetPath(t) ==
    LET word  == t.words[1]
        named == ByNameOrAlias(word)
        byID  == ByIDPrefix(word)
    IN  CASE Len(t.words) = 1 /\ named # NoResource ->
                ResolvePath(named.list, ResolveOrganization(t))
          [] Len(t.words) = 1 /\ named = NoResource /\ byID # NoResource ->
                PathByID(byID, word)
          [] Len(t.words) = 2 /\ named # NoResource
                /\ (named.prefix # None => PrefixOf[t.words[2]] = named.prefix) ->
                PathByID(named, t.words[2])
          [] OTHER -> None

\* runCreate.
CreatePath(t) ==
    LET named  == ByNameOrAlias(t.words[1])
        fields == t.attributes \/ t.rels # {}
    IN  IF named = NoResource \/ t.input = fields THEN None
        ELSE ResolvePath(named.create, ResolveOrganization(t))

-----------------------------------------------------------------------------
(* api: resolvePathParamsFromContext.                                      *)

\* ParsePathParams: the segment before a placeholder's last occurrence.
Before(path, p) ==
    LET i == CHOOSE i \in DOMAIN path :
                path[i] = p /\ \A j \in DOMAIN path : path[j] = p => j <= i
    IN  IF i = 1 \/ path[i - 1] \in Placeholders THEN None ELSE path[i - 1]

ContextOrg(t) == OrElse(t.profile, FindCloudConfig(t.blocks).organization)

\* What the profile or the configuration has for a placeholder.
FromContext(t, p) ==
    CASE Before(t.path, p) = "organizations" -> ContextOrg(t)
      [] Before(t.path, p) = "workspaces" -> FindCloudConfig(t.blocks).workspace
      [] OTHER -> None

Given(t, p) == IF p \in DOMAIN t.given THEN t.given[p] ELSE None

\* Mutant of AutoFill: what is in the configuration comes before -p.
AutoFillOver(t) ==
    LET Value(p) == OrElse(FromContext(t, p), Given(t, p))
    IN  [p \in {q \in Params(t.path) : Value(q) # None} |-> Value(p)]

\* What -p leaves open comes from the profile or the configuration.
AutoFill(t) ==
    LET Value(p) == OrElse(Given(t, p), FromContext(t, p))
    IN  [p \in {q \in Params(t.path) : Value(q) # None} |-> Value(p)]

\* The organization in which names are looked up.
LookupOrg(t) ==
    LET inPath == {p \in DOMAIN AutoFill(t) : Before(t.path, p) = "organizations"}
    IN  IF inPath = {} THEN ContextOrg(t) ELSE AutoFill(t)[CHOOSE p \in inPath : TRUE]

\* The parameters that have to be looked up.
Lookups(t) ==
    {p \in DOMAIN AutoFill(t) :
        /\ IsResolvable(Before(t.path, p))
        /\ ~LooksLikeID(Before(t.path, p), AutoFill(t)[p])}

\* ResolveFromName; None if there is no such name.
IDOf(organization, segment, name) ==
    IF organization \notin DOMAIN Directory THEN None
    ELSE IF segment \notin DOMAIN Directory[organization] THEN None
    ELSE IF name \notin DOMAIN Directory[organization][segment] THEN None
    ELSE Directory[organization][segment][name]

-----------------------------------------------------------------------------
(* The body: relationshipLinkages, buildRelationships, buildRequestBody.   *)

Method(t) ==
    IF t.method # None THEN t.method
    ELSE IF t.attributes \/ t.rels # {} \/ t.input THEN "POST" ELSE "GET"

\* schemaTypeEnum: an enum, or that of the first part, or those of the alternatives.
TypeEnum(identifier) ==
    LET parts == {i \in DOMAIN identifier.allOf : identifier.allOf[i] # {}}
    IN  CASE identifier.enum # {} -> identifier.enum
          [] identifier.enum = {} /\ parts # {} -> identifier.allOf[Min(parts)]
          [] OTHER -> UNION identifier.oneOf

\* matchTemplatePath.
Matches(template, path) ==
    /\ Len(template) = Len(path)
    /\ \A i \in DOMAIN path : template[i] \in Placeholders \/ template[i] = path[i]

\* The relationships that can be set, each with its types and whether it is to-many.
Linkages(method, path) ==
    LET matching == {i \in DOMAIN Description : Matches(Description[i].template, path)}
        first    == Description[Min(matching)]
    IN  IF matching = {} \/ method \notin DOMAIN first.methods THEN <<>>
        ELSE LET rels == first.methods[method]
             IN  [n \in {n \in DOMAIN rels : rels[n].data /\ TypeEnum(rels[n]) # {}} |->
                     [types |-> TypeEnum(rels[n]), toMany |-> rels[n].toMany]]

Known(rel, linkages) == rel.name \in DOMAIN linkages

\* An explicit type wins; without one the description has to leave no choice.
Typed(rel, linkages) ==
    \/ rel.type # None
    \/ Known(rel, linkages) /\ Cardinality(linkages[rel.name].types) = 1

\* buildRelationships reports no error: a name is given once, has a type and an
\* id, and one id only if it is to-one.
Accepted(rels, linkages) ==
    /\ \A r, q \in rels : r.name = q.name => r = q
    /\ \A r \in rels :
        /\ Typed(r, linkages)
        /\ r.ids # <<>>
        /\ Known(r, linkages) /\ ~linkages[r.name].toMany => Len(r.ids) = 1

Relationships(rels, linkages) ==
    {[name |-> r.name,
      type |-> IF r.type # None THEN r.type ELSE CHOOSE x \in linkages[r.name].types : TRUE,
      many |-> IF Known(r, linkages) THEN linkages[r.name].toMany
               ELSE Len(r.ids) > 1,
      ids |-> r.ids] : r \in rels}

\* inferResourceType.
InferResourceType(path) ==
    IF path = <<>> THEN None
    ELSE IF Len(path) >= 2 /\ Last(path) \notin Plural /\ path[Len(path) - 1] \in Plural
    THEN path[Len(path) - 1]
    ELSE Last(path)

BodyType(t, path) == OrElse(t.type, InferResourceType(path))

\* The class that the delete gate asks for: --type is taken at its word.
DeleteClass(t, path) == OrElse(t.type, ClassFromPath(path))

NoBody  == [type |-> None, relationships |-> {}]
RawBody == [type |-> "raw", relationships |-> {}]

\* The bodies that buildRequestBody may return: none if it fails.
Bodies(t, path) ==
    LET linkages == Linkages(Method(t), path)
    IN  CASE t.input -> {RawBody}
          [] ~t.input /\ ~t.attributes /\ t.rels = {} -> {NoBody}
          [] OTHER ->
                {[type |-> BodyType(t, path), relationships |-> Relationships(t.rels, linkages)] :
                    x \in {y \in {TRUE} : /\ BodyType(t, path) # None
                                          /\ Accepted(t.rels, linkages)}}
=============================================================================

------------------------------ MODULE Registry ------------------------------
(***************************************************************************)
(* The resource types that the generic commands know, and what they read   *)
(* off a word or a path.  A path is a sequence of segments.                *)
(*                                                                         *)
(*   src/internal/pkg/resource, src/internal/pkg/client/path_params.go,    *)
(*   src/internal/pkg/execsession/permissions.go                           *)
(***************************************************************************)
EXTENDS Naturals, Sequences, SequencesExt

CONSTANTS
    Resources,     \* records of type, aliases, prefix, get, list, create, resolvable
    Placeholders,  \* the segments in braces
    PrefixOf,      \* the id prefix that a word begins with, or None
    None           \* no word, no path

\* The collection in a resource's path: its last segment without braces.
Collection(path) ==
    path[CHOOSE i \in DOMAIN path :
            /\ path[i] \notin Placeholders
            /\ \A j \in DOMAIN path : path[j] \notin Placeholders => j <= i]

\* What stands before an id in a path.
PlaceOf(r) == IF r.get = None THEN r.type ELSE Collection(r.get)

\* No prefix begins another one, so that a word has at most one resource; and no two
\* resources have their ids in one place.
ASSUME ResourcesAssumption ==
    \A r, s \in Resources :
        /\ r.type = s.type => r = s
        /\ r.prefix = s.prefix /\ r.prefix # None => r = s
        /\ PlaceOf(r) = PlaceOf(s) => r = s
        /\ PlaceOf(r) # "relationships" /\ r.type # None
        \* An organization is known by its name.
        /\ r.type = "organizations" => ~r.resolvable

NoResource == [type |-> None]

One(found) == IF found = {} THEN NoResource ELSE CHOOSE r \in found : TRUE

ByName(word) == One({r \in Resources : r.type = word})

ByNameOrAlias(word) ==
    IF ByName(word) # NoResource THEN ByName(word)
    ELSE One({r \in Resources : word \in r.aliases})

ByIDPrefix(word) ==
    IF PrefixOf[word] = None THEN NoResource
    ELSE One({r \in Resources : r.prefix = PrefixOf[word]})

IsResolvable(segment) == \E r \in Resources : r.type = segment /\ r.resolvable

LooksLikeID(segment, word) ==
    /\ PrefixOf[word] # None
    /\ \E r \in Resources : r.type = segment /\ r.prefix = PrefixOf[word]

\* "views" are explorer-saved-queries.
TypeFromPathSegment(segment) ==
    LET named == {r \in Resources : /\ r.get # None
                                    /\ Collection(r.get) = segment
                                    /\ r.type # segment}
    IN  IF named = {} THEN segment ELSE One(named).type

\* What a delete of the path has to be granted; None if that cannot be told.
ClassFromPath(path) ==
    IF Len(path) < 2 THEN None
    ELSE IF path[Len(path) - 1] = "relationships" THEN Last(path)
    ELSE TypeFromPathSegment(path[Len(path) - 1])
=============================================================================

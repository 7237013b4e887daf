---------------------------- MODULE SchemaSearch ----------------------------
(***************************************************************************)
(* `tfctl api schema search`: what is kept of the operations that the      *)
(* full-text index retrieves, and in which order.  A query is a sequence   *)
(* of words; Normal gives a word's normal form.                            *)
(*                                                                         *)
(*   src/internal/commands/api/schema_search.go, schema_search_helpers.go  *)
(***************************************************************************)
EXTENDS Naturals, Sequences, FiniteSets, Functions

CONSTANTS
    Operations,    \* in the order of their ids
    Tags, Path, Name,   \* an operation's tags, segments and words of its id
    Normal,        \* normalizeToken; NoWord for "a", "the", ...
    NoWord,
    Words, PathParameters,   \* tokenize, of a segment; segments in braces
    Queries,
    Retrievals,    \* what the index may find: scores of some operations
    Limit          \* maxSchemaSearchResults

ASSUME SearchAssumption ==
    /\ Operations \subseteq Nat /\ IsFiniteSet(Operations)
    /\ Queries \subseteq Seq(DOMAIN Normal)
    /\ \A score \in Retrievals : /\ DOMAIN score \subseteq Operations
                                 /\ \A o \in DOMAIN score : score[o] \in Nat
    /\ Limit \in Nat \ {0}

\* normalizeTokens: where a normal form stands for the first time.
Tokens(words) ==
    {i \in DOMAIN words : /\ Normal[words[i]] # NoWord
                          /\ \A j \in 1..(i - 1) : Normal[words[j]] # Normal[words[i]]}

Verbs == {"create", "get", "list", "delete", "cancel", "update"}

\* parseSchemaSearchIntent: the words at their places; the first verb is no resource.
Resources(query) ==
    LET verbs == {i \in Tokens(query) : Normal[query[i]] \in Verbs}
        first == {i \in verbs : \A j \in verbs : i <= j}
    IN  [i \in Tokens(query) \ first |-> Normal[query[i]]]

\* The words of the segments of a path, of the tags and of the id.
PathWords(o) == {Normal[w] : w \in UNION {Words[s] : s \in Range(Path[o])}}
TagWords(o)  == {Normal[t] : t \in Tags[o]}
NameWords(o) == {Normal[w] : w \in Name[o]}

\* matchedSchemaResource: tags before paths before ids.
Matched(resources, o) ==
    LET In(words) == {i \in DOMAIN resources : resources[i] \in words}
        FirstOf(S) == resources[CHOOSE i \in S : \A j \in S : i <= j]
    IN  IF In(TagWords(o)) # {} THEN FirstOf(In(TagWords(o)))
        ELSE IF In(PathWords(o)) # {} THEN FirstOf(In(PathWords(o)))
        ELSE IF In(NameWords(o)) # {} THEN FirstOf(In(NameWords(o)))
        ELSE NoWord

\* isNestedSubresourceOperation: /workspaces/{id}/vars is not about workspaces.
Nested(resource, o) ==
    \E i \in 1..(Len(Path[o]) - 2) :
        /\ Normal[Path[o][i]] = resource
        /\ Path[o][i + 1] \in PathParameters
        /\ Path[o][i + 2] \notin PathParameters

\* resourceKeyForOperation.
ResourceKey(resources, o) ==
    LET resource == Matched(resources, o)
    IN  IF Cardinality(DOMAIN resources) = 1 /\ resource # NoWord /\ Nested(resource, o)
        THEN NoWord ELSE resource

About(query, retrieved) ==
    {o \in retrieved : ResourceKey(Resources(query), o) # NoWord}

\* filterSchemaResultsByResource: those about the resource, if there are any.
Kept(query, retrieved) ==
    IF About(query, retrieved) # {} THEN About(query, retrieved) ELSE retrieved

\* ... the best first, no more than the limit.
Found(query, score) ==
    LET kept == Kept(query, DOMAIN score)
        Before(o) == {q \in kept : \/ score[q] > score[o]
                                   \/ score[q] = score[o] /\ q < o}
        n == IF Limit < Cardinality(kept) THEN Limit ELSE Cardinality(kept)
    IN  [i \in 1..n |-> CHOOSE o \in kept : Cardinality(Before(o)) = i - 1]
=============================================================================

------------------------------ MODULE Redaction ------------------------------
(***************************************************************************)
(* What internal/pkg/redact hides in a decoded JSON document, and what the *)
(* flattened rows of internal/pkg/format/jsonapi.go hide.                   *)
(*                                                                         *)
(* A document is a function from the paths of its leaves to their values.  *)
(* A path is a sequence of object keys and list indices, a value is a      *)
(* scalar.  The code walks the tree from the root and stops at the first   *)
(* key it masks; here a leaf is hidden iff one of its prefixes matches, so *)
(* no recursion is needed.  An empty object or list has no leaf and is not *)
(* represented: there is nothing in it to hide.                            *)
(***************************************************************************)
EXTENDS Naturals, Sequences

CONSTANTS
    KnownSecretFields,   \* names that always hold a credential
    CapabilityURLFields, \* names that contain "download-url", "upload-url", ...
    SensitiveNames,      \* names the strict heuristic takes for a credential
    ShapedValues,        \* strings a value detector recognises
    ListIndexes          \* the path elements that are positions in a list

Null == "null"
True == "true"
NonStrings == {Null, True, "number"}   \* scalars that are not JSON strings
Empty == ""
Container == "{}"        \* stands for any object or list

Modes == {"strict", "known", "off"}

(***************************************************************************)
(* The document below a prefix.                                            *)
(***************************************************************************)
Key(path) == path[Len(path)]
Parent(path) == SubSeq(path, 1, Len(path) - 1)
ValueAt(doc, path) == IF path \in DOMAIN doc THEN doc[path] ELSE Container
IsString(value) == value \notin NonStrings \cup {Container}

DeclaresSensitive(doc, object) ==
    LET p == Append(object, "sensitive")
    IN  p \in DOMAIN doc /\ doc[p] = True

\* The object reports a name for itself under field.
Reports(doc, object, field) ==
    LET p == Append(object, field)
    IN  p \in DOMAIN doc /\ IsString(doc[p]) /\ doc[p] # Empty

NameHint(doc, object) ==
    IF Reports(doc, object, "key") THEN doc[Append(object, "key")]
    ELSE IF Reports(doc, object, "name") THEN doc[Append(object, "name")]
    ELSE Empty

\* The key an object or a list element sits under: list indices are no names.
EnclosingName(path) ==
    LET keys == {i \in DOMAIN path : path[i] \notin ListIndexes}
    IN  IF keys = {} THEN Empty
        ELSE path[CHOOSE i \in keys : \A j \in keys : j <= i]

HintFor(doc, object) ==
    IF NameHint(doc, object) # Empty THEN NameHint(doc, object)
    ELSE EnclosingName(object)

(***************************************************************************)
(* matchKey and matchValue.                                                *)
(***************************************************************************)
MatchKnown(key, value, declared) ==
    /\ value \notin {Null, Empty}
    /\ \/ declared /\ key = "value"
       \/ key \in KnownSecretFields
       \/ key \in CapabilityURLFields

MatchName(key, value, hint) ==
    /\ IsString(value) /\ value # Empty
    /\ \/ key \in SensitiveNames
       \/ key = "value" /\ hint \in SensitiveNames

MatchKey(mode, key, value, declared, hint) ==
    /\ mode # "off"
    /\ \/ MatchKnown(key, value, declared)
       \/ mode = "strict" /\ MatchName(key, value, hint)

MatchValue(mode, value) ==
    mode = "strict" /\ value # Empty /\ value \in ShapedValues

(***************************************************************************)
(* The envelope view: walk over nested objects and lists.                  *)
(***************************************************************************)
MatchAt(mode, doc, path) ==
    /\ Key(path) \notin ListIndexes
    /\ MatchKey(mode, Key(path), ValueAt(doc, path),
                DeclaresSensitive(doc, Parent(path)),
                HintFor(doc, Parent(path)))

Prefix(path, i) == SubSeq(path, 1, i)

Hidden(mode, doc, leaf) ==
    \/ \E i \in 1..Len(leaf) : MatchAt(mode, doc, Prefix(leaf, i))
    \/ MatchValue(mode, doc[leaf])

\* The name under which walk records what it masks: the outermost key that
\* matches, or the name a shaped value sits under.
MaskedField(mode, doc, leaf) ==
    LET hits == {i \in 1..Len(leaf) : MatchAt(mode, doc, Prefix(leaf, i))}
    IN  IF hits = {} THEN <<EnclosingName(leaf)>>
        ELSE <<leaf[CHOOSE i \in hits : \A j \in hits : i <= j]>>

Apply(mode, doc) == {leaf \in DOMAIN doc : ~Hidden(mode, doc, leaf)}

Fields(mode, doc) ==
    {MaskedField(mode, doc, leaf) : leaf \in DOMAIN doc \ Apply(mode, doc)}

(***************************************************************************)
(* The row view: one object whose keys are the dotted paths.  The name of a *)
(* row entry is the last segment of its key, and the row as a whole is the  *)
(* only object that can declare itself sensitive or report a name.          *)
(***************************************************************************)
RowHidden(mode, row, key) ==
    \/ MatchKey(mode, Key(key), row[key], DeclaresSensitive(row, <<>>),
                NameHint(row, <<>>))
    \/ MatchValue(mode, row[key])

ApplyRow(mode, row) == {key \in DOMAIN row : ~RowHidden(mode, row, key)}

RowFields(mode, row) == DOMAIN row \ ApplyRow(mode, row)

(***************************************************************************)
(* resourceAsMap and flattenRow: the row of the resource at base.  The id   *)
(* and the type come first, attributes overwrite them, and the id of a      *)
(* one-to-one relationship overwrites the attribute of its name.  A         *)
(* resource without attributes shows nothing but its id and type.  RowOf gives *)
(* for each row key the leaf it came from.                                  *)
(***************************************************************************)
AttributePaths(doc, base) ==
    {SubSeq(p, Len(base) + 2, Len(p)) : p \in
        {q \in DOMAIN doc : /\ Len(q) > Len(base) + 1
                            /\ SubSeq(q, 1, Len(base) + 1) = Append(base, "attributes")}}

RelationshipPath(base, rel) == base \o <<"relationships", rel, "data", "id">>

Relationships(doc, base) ==
    {p[Len(base) + 2] : p \in
        {q \in DOMAIN doc : /\ Len(q) = Len(base) + 4
                            /\ q = RelationshipPath(base, q[Len(base) + 2])}}

TypeKey == <<"__type">>   \* the sentinel under which the row keeps the type

RowOf(doc, base) ==
    LET attrs == AttributePaths(doc, base)
        rels == IF attrs = {} THEN {} ELSE Relationships(doc, base)
        own == (IF Append(base, "id") \in DOMAIN doc THEN {<<"id">>} ELSE {})
               \cup (IF Append(base, "type") \in DOMAIN doc THEN {TypeKey} ELSE {})
        source == [key \in own \cup attrs \cup {<<r>> : r \in rels} |->
                       IF Len(key) = 1 /\ key[1] \in rels
                       THEN RelationshipPath(base, key[1])
                       ELSE IF key \in attrs THEN Append(base, "attributes") \o key
                       ELSE Append(base, IF key = TypeKey THEN "type" ELSE "id")]
        kept == {key \in DOMAIN source : key[1] \in rels => Len(key) = 1}
    IN  [key \in kept |-> source[key]]

Row(doc, base) ==
    LET source == RowOf(doc, base)
    IN  [key \in DOMAIN source |-> doc[source[key]]]

=============================================================================

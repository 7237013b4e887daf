-------------------------------- MODULE Output --------------------------------
(***************************************************************************)
(* The Outputter of internal/pkg/format: it masks a response in both of     *)
(* its views, renders the one the format asks for, and then tells the user  *)
(* what was hidden.  Bodies no displayer handles are copied raw.            *)
(*                                                                         *)
(* What is written to stdout is the set of the document's leaves a reader   *)
(* can see.  A jq filter is taken to be ".", the one that shows most.       *)
(***************************************************************************)
EXTENDS Redaction, FiniteSets

CONSTANTS
    Bodies,            \* what a response or a request may carry
    Document,          \* the document that each of them is
    MaxTableColumns,   \* columns of a table
    MaxReportedRedactions,  \* fields that are named to the user
    Preferred,         \* columns the resource registry puts first, in order
    Excluded           \* attributes the registry never shows

ASSUME LimitsAssumption ==
    MaxTableColumns \in Nat \ {0} /\ MaxReportedRedactions \in Nat

\* A document is a finite tree: a leaf is below no other leaf, and what lies beside
\* a list's element is an element of the list.
IsTree(doc) ==
    /\ IsFiniteSet(DOMAIN doc) /\ DOMAIN doc \subseteq Seq(STRING) \ {<<>>}
    /\ \A p, q \in DOMAIN doc :
         /\ Len(p) <= Len(q) /\ SubSeq(q, 1, Len(p)) = p => p = q
         /\ \A i \in DOMAIN p \cap DOMAIN q :
              Prefix(p, i - 1) = Prefix(q, i - 1) /\ p[i] \in ListIndexes => q[i] \in ListIndexes

\* The keys that every JSON:API document has are no names of credentials.
ASSUME DocumentsAssumption ==
    /\ \A body \in Bodies : IsTree(Document[body])
    /\ {"data", "attributes"} \cap
         (KnownSecretFields \cup CapabilityURLFields \cup SensitiveNames \cup ListIndexes) = {}

VARIABLES
    redactor,  \* mode, and the names of the fields masked so far
    reported,  \* how many of them the user has been told of
    forced,    \* the format the flags ask for, or "unset"
    jq,        \* the filter: none, ".", one that does not parse, one that fails
    shown,     \* view, body: what was rendered; leaves: what stdout shows of it
    notice     \* the report on stderr: the fields it names, and how many more

outVars == <<redactor, reported, forced, jq, shown, notice>>

Formats == {"unset", "json", "pretty", "table", "markdown"}
NoNotice == [named |-> {}, more |-> 0]
Nothing == [view |-> "none", body |-> "none", leaves |-> {}]

OutInit ==
    /\ redactor = [mode |-> "off", masked |-> {}]
    /\ reported = 0
    /\ forced = "unset"
    /\ jq = "none"
    /\ shown = Nothing
    /\ notice = NoNotice

Enabled == redactor.mode # "off"

(***************************************************************************)
(* NewJSONAPIDisplayer: the resources of an envelope.                      *)
(***************************************************************************)
IsEnvelope(doc) == \E p \in DOMAIN doc : p[1] = "data"

IsCollection(doc) ==
    \E p \in DOMAIN doc : p[1] = "data" /\ Len(p) > 1 /\ p[2] \in ListIndexes

Bases(doc) ==
    IF IsCollection(doc)
    THEN {<<"data", p[2]>> : p \in {q \in DOMAIN doc : q[1] = "data"}}
    ELSE {<<"data">>}

DefaultFormat(doc) == IF IsCollection(doc) THEN "table" ELSE "pretty"
FormatOf(doc) == IF forced = "unset" THEN DefaultFormat(doc) ELSE forced

(***************************************************************************)
(* orderedFields and collectColumns.  A table takes the id, then the        *)
(* preferred columns, then the others in their order, up to the limit; the  *)
(* others are chosen freely here, since their order is that of their text.  *)
(* The sentinel takes a column but is not rendered in a table.              *)
(***************************************************************************)
RowKeys(doc) == UNION {DOMAIN RowOf(doc, b) : b \in Bases(doc)}
Wanted(doc) == {<<Preferred[i]>> : i \in DOMAIN Preferred} \cap RowKeys(doc)
First(doc) == (RowKeys(doc) \cap {<<"id">>}) \cup Wanted(doc)
OtherKeys(doc) == {k \in RowKeys(doc) \ First(doc) : k[1] \notin Excluded}

Columns(doc) ==
    IF DefaultFormat(doc) # "table" THEN {First(doc) \cup OtherKeys(doc)}
    ELSE IF Cardinality(First(doc)) >= MaxTableColumns
         THEN {S \in SUBSET First(doc) : /\ Cardinality(S) = MaxTableColumns
                                         /\ <<"id">> \in RowKeys(doc) => <<"id">> \in S}
         ELSE {First(doc) \cup S : S \in
                 {T \in SUBSET OtherKeys(doc) :
                    LET room == MaxTableColumns - Cardinality(First(doc))
                    IN  Cardinality(T) = IF Cardinality(OtherKeys(doc)) < room
                                         THEN Cardinality(OtherKeys(doc)) ELSE room}}

\* The leaves the rows show in the columns cols.
RowLeaves(mode, doc, cols) ==
    UNION {LET source == RowOf(doc, b)
               row == Row(doc, b)
           IN  {source[k] : k \in (cols \ {TypeKey}) \cap ApplyRow(mode, row)} :
           b \in Bases(doc)}

(***************************************************************************)
(* The masked views of every document.  Redacted masks the envelope and the *)
(* rows, whichever is rendered.                                            *)
(***************************************************************************)
Docs == [body \in Bodies |-> Document[body]]
Envelopes == {body \in Bodies : IsEnvelope(Docs[body])}

Visible == [mode \in Modes |-> [body \in Bodies |-> Apply(mode, Docs[body])]]

RowViews == [mode \in Modes |-> [body \in Envelopes |->
                {RowLeaves(mode, Docs[body], cols) : cols \in Columns(Docs[body])}]]

EnvelopeFields == [mode \in Modes |-> [body \in Bodies |-> Fields(mode, Docs[body])]]

\* Mutant: only the view of the rows is recorded.
MaskedFieldsOfRows == [mode \in Modes |-> [body \in Envelopes |->
    UNION {RowFields(mode, Row(Docs[body], b)) : b \in Bases(Docs[body])}]]

MaskedFields == [mode \in Modes |-> [body \in Envelopes |->
    EnvelopeFields[mode][body] \cup UNION {RowFields(mode, Row(Docs[body], b)) :
                                                 b \in Bases(Docs[body])}]]

\* The fields that are named if there are too many: the first in the order of their
\* text, which is left free here.
Named(fields) ==
    IF Cardinality(fields) <= MaxReportedRedactions THEN {fields}
    ELSE {S \in SUBSET fields : Cardinality(S) = MaxReportedRedactions}

\* ReportRedactions: if there are new fields all are reported, on the unessential
\* stream; the last of them as a number.
Report(masked, quiet) ==
    IF Enabled /\ Cardinality(masked) > reported
    THEN /\ reported' = Cardinality(masked)
         /\ \E named \in Named(masked) :
              notice' = IF quiet THEN notice
                        ELSE [named |-> named, more |-> Cardinality(masked \ named)]
    ELSE UNCHANGED <<reported, notice>>

\* Mutant: a jq filter runs over the document as it came.
DisplayFiltersRaw(body, quiet) ==
    LET masked == redactor.masked \cup MaskedFields[redactor.mode][body]
        view == IF FormatOf(Docs[body]) = "json" THEN "json" ELSE "rows"
    IN  /\ redactor' = [redactor EXCEPT !.masked = masked]
        /\ \E leaves \in IF view = "json" /\ jq # "none" THEN {DOMAIN Docs[body]}
                         ELSE IF view = "json" THEN {Visible[redactor.mode][body]}
                         ELSE RowViews[redactor.mode][body] :
             shown' = [view |-> view, body |-> body, leaves |-> leaves]
        /\ Report(masked, quiet)
        /\ UNCHANGED <<forced, jq>>

\* Display renders the view the format asks for; a filter that does not parse
\* writes nothing, one that fails may have written.  Neither is reported.
Display(body, quiet) ==
    LET masked == redactor.masked \cup MaskedFields[redactor.mode][body]
        view == IF FormatOf(Docs[body]) = "json" THEN "json" ELSE "rows"
        failed == view = "json" /\ jq \in {"bad", "stops"}
    IN  /\ redactor' = [redactor EXCEPT !.masked = masked]
        /\ \E leaves \in IF view = "json" THEN {Visible[redactor.mode][body]}
                         ELSE RowViews[redactor.mode][body] :
             shown' = [view |-> view, body |-> body,
                       leaves |-> IF jq = "bad" /\ view = "json" THEN {} ELSE leaves]
        /\ IF failed THEN UNCHANGED <<reported, notice>> ELSE Report(masked, quiet)
        /\ UNCHANGED <<forced, jq>>

DisplayFails(body) == FormatOf(Docs[body]) = "json" /\ jq \in {"bad", "stops"}

(***************************************************************************)
(* CopyRaw.  A JSON body is buffered and masked; an octet stream only when  *)
(* the peek of its first 64 bytes opens an object or a list; anything else  *)
(* is copied.  When no new field was masked the raw bytes are written.      *)
(***************************************************************************)
BodyKinds == {"json", "padded", "text"}  \* padded: the JSON starts after the peek
ContentTypes == {"json", "octet", "other"}

PrepareForMasking(kind, contentType) ==
    \/ contentType = "json"
    \/ contentType = "octet" /\ kind = "json"

Examined(kind, contentType) ==
    PrepareForMasking(kind, contentType) /\ kind # "text"

CopyRaw(body, kind, contentType, quiet) ==
    LET masked == redactor.masked \cup
                  IF Enabled /\ Examined(kind, contentType)
                  THEN EnvelopeFields[redactor.mode][body] ELSE {}
        changed == masked # redactor.masked
    IN  /\ redactor' = [redactor EXCEPT !.masked = masked]
        /\ shown' = [view |-> IF Enabled /\ Examined(kind, contentType)
                              THEN "buffered" ELSE "copied",
                     body |-> body,
                     leaves |-> IF changed THEN Visible[redactor.mode][body] ELSE DOMAIN Docs[body]]
        /\ IF changed THEN Report(masked, quiet) ELSE UNCHANGED <<reported, notice>>
        /\ UNCHANGED <<forced, jq>>

(***************************************************************************)
(* writeDryRunRequest: headers and body are masked like a response and      *)
(* shown on stderr.  The body is printed as it is when masking it named no  *)
(* new field, the masked headers included.                                 *)
(***************************************************************************)
MaskedHeaders(headers) ==
    {<<h>> : h \in {g \in headers : MatchKey(redactor.mode, g, "header", FALSE, Empty)}}

ShowRequest(headers, body, quiet) ==
    LET before == redactor.masked \cup MaskedHeaders(headers)
        masked == before \cup EnvelopeFields[redactor.mode][body]
    IN  /\ redactor' = [redactor EXCEPT !.masked = masked]
        /\ shown' = [view |-> IF MaskedHeaders(headers) = {} THEN "request"
                              ELSE "request after headers",
                     body |-> body,
                     leaves |-> IF masked # before THEN Visible[redactor.mode][body]
                                ELSE DOMAIN Docs[body]]
        /\ Report(masked, quiet)
        /\ UNCHANGED <<forced, jq>>

-----------------------------------------------------------------------------
(***************************************************************************)
(* Properties.                                                             *)
(***************************************************************************)

\* An attribute directly under "attributes" is the same entry in both views, with
\* the same names beside it unless a relationship takes their place in the row.
Flat(doc, leaf) ==
    \E b \in Bases(doc) :
        /\ Len(leaf) = Len(b) + 2 /\ Prefix(leaf, Len(b) + 1) = Append(b, "attributes")
        /\ Relationships(doc, b) \cap {"sensitive", "key", "name"} = {}

\* A leaf the redaction mode hides in the document is shown by no view and no
\* filter.  Three exceptions are the code's: an attribute of a flattened row that
\* is nested, or told to be a secret by one that a relationship has overwritten; a
\* raw body that is not examined; and a dry run's body whose masked fields are all
\* named like a masked header.
HiddenStaysHidden ==
    shown # Nothing =>
      \A leaf \in shown.leaves \ Visible[redactor.mode][shown.body] :
        \/ shown.view = "copied"
        \/ shown.view = "rows" /\ ~Flat(Docs[shown.body], leaf)
        \/ shown.view = "request after headers"
=============================================================================

---------------------------- MODULE SchemaCache -----------------------------
(***************************************************************************)
(* `tfctl api schema`: the OpenAPI document of the profile's host, cached  *)
(* in a file whose modification time is the document's Last-Modified, and  *)
(* what search and get make of it.  Processes share the file without a     *)
(* lock: its data is written first and its time set after.  Each may be    *)
(* killed; the host may publish another document at any moment.            *)
(*                                                                         *)
(*   src/internal/pkg/profile/hostcache.go,                                *)
(*   src/internal/pkg/openapi/schema.go,                                   *)
(*   src/internal/commands/api/schema.go, schema_search.go                 *)
(***************************************************************************)
EXTENDS SchemaSearch

CONSTANTS
    Procs,
    Versions,       \* how many documents the host publishes
    Schemas,        \* its components.schemas
    Parameters,     \* its components.parameters
    OperationRefs,  \* what an operation refers to, by document; 0 is the embedded one
    SchemaRefs      \* what a schema refers to

Documents == 0..Versions

ASSUME DocumentsAssumption ==
    /\ Versions \in Nat \ {0}
    /\ OperationRefs \in
         [Documents -> [Operations -> SUBSET (Schemas \cup Parameters)]]
    /\ SchemaRefs \in [Documents -> [Schemas -> SUBSET Schemas]]

VARIABLES
    published,   \* the document on the host
    file,        \* openapi.json in the host's directory
    pc,
    seen,        \* the modification time that Stat has found
    data,        \* received, or read from the file
    stamp,       \* response.LastModified
    served,      \* cachedSchema
    todo, collected,   \* of collectSchemaRefs
    answer,            \* what is printed: a set of at most one
    \* history
    current,     \* published when the host answered
    alone,       \* no other load has overlapped with this one
    cause,       \* what has come between this load and the current document
    disturbed    \* the file's time is not that of the document in it

command == <<todo, collected, answer>>
process == <<seen, data, stamp, served, command>>
history == <<current, alone, cause, disturbed>>
vars    == <<published, file, pc, process, history>>

Embedded == 0
Torn     == Versions + 1     \* no OpenAPI document: a part of one, or a login page
Nothing  == Versions + 2

\* The clocks of host and machine agree.  Document n appears at 2n.
Stamp(n) == 2 * n
Now      == Stamp(published) + 1
NoTime   == 0
Times    == 0..(Stamp(Versions) + 1)

Absent == [data |-> Nothing, mtime |-> NoTime]

Writing == {"truncate", "fill", "stamp"}
Loading == {"check", "read"} \cup Writing

Init ==
    /\ published = 1 /\ file = Absent
    /\ pc = [p \in Procs |-> "start"]
    /\ seen = [p \in Procs |-> NoTime]
    /\ data = [p \in Procs |-> Nothing]
    /\ stamp = [p \in Procs |-> NoTime]
    /\ served = [p \in Procs |-> Nothing]
    /\ todo = [p \in Procs |-> {}] /\ collected = [p \in Procs |-> {}]
    /\ answer = [p \in Procs |-> {}]
    /\ current = [p \in Procs |-> Nothing]
    /\ alone = [p \in Procs |-> TRUE]
    /\ cause = [p \in Procs |-> "none"]
    /\ disturbed = FALSE

Goto(p, to) == pc' = [pc EXCEPT ![p] = to]

Publish ==
    /\ published < Versions
    /\ published' = published + 1
    /\ UNCHANGED <<file, pc, process, history>>

-----------------------------------------------------------------------------
(* SchemaFactory, once in a process.                                       *)

Serve(p, document) ==
    /\ served' = [served EXCEPT ![p] = document]
    /\ seen' = [seen EXCEPT ![p] = NoTime]
    /\ data' = [data EXCEPT ![p] = Nothing]
    /\ stamp' = [stamp EXCEPT ![p] = NoTime]
    /\ Goto(p, "answer")

\* Whatever fails, the embedded document is served.
FallBack(p) ==
    /\ Serve(p, Embedded)
    /\ cause' = [cause EXCEPT ![p] = "failure"]

\* No client, no directory, or the file cannot be looked at.
NoLoader(p) ==
    /\ pc[p] = "start"
    /\ FallBack(p)
    /\ UNCHANGED <<published, file, command, current, alone, disturbed>>

Overlapping(p) == {q \in Procs \ {p} : pc[q] \in Loading}

Stat(p) ==
    /\ pc[p] = "start"
    /\ seen' = [seen EXCEPT ![p] = file.mtime]
    /\ alone' = [q \in Procs |->
                    IF q = p THEN Overlapping(p) = {}
                             ELSE alone[q] /\ q \notin Overlapping(p)]
    /\ Goto(p, "check")
    /\ UNCHANGED <<published, file, data, stamp, served, command,
                   current, cause, disturbed>>

\* The host compares If-Modified-Since with the document's time.
NotModified(p) ==
    /\ pc[p] = "check"
    /\ seen[p] # NoTime /\ seen[p] >= Stamp(published)
    /\ current' = [current EXCEPT ![p] = published]
    /\ Goto(p, "read")
    /\ UNCHANGED <<published, file, process, alone, cause, disturbed>>

\* A document may come without Last-Modified.  What is no document, a proxy's page
\* for instance, may come with any time, which counts only by how it compares with those
\* of documents: nothing looks at either before they are written.
Modified(p) ==
    /\ pc[p] = "check"
    /\ seen[p] = NoTime \/ seen[p] < Stamp(published)
    /\ current' = [current EXCEPT ![p] = published]
    /\ \E received \in {published, Torn} :
        /\ data' = [data EXCEPT ![p] = received]
        /\ \E t \in {Stamp(n) : n \in Documents} :
            /\ received \in Documents => t \in {NoTime, Stamp(published)}
            /\ stamp' = [stamp EXCEPT ![p] = t]
    /\ cause' = [cause EXCEPT ![p] = IF data'[p] = Torn THEN "failure" ELSE "none"]
    /\ Goto(p, "truncate")
    /\ UNCHANGED <<published, file, seen, served, command, alone, disturbed>>

\* An error, the three seconds have passed, or a signal.
CheckFails(p) ==
    /\ pc[p] = "check"
    /\ FallBack(p)
    /\ UNCHANGED <<published, file, command, current, alone, disturbed>>

\* The file is gone or may not be read.
ReadFails(p) ==
    /\ pc[p] = "read"
    /\ FallBack(p)
    /\ UNCHANGED <<published, file, command, current, alone, disturbed>>

Read(p) ==
    /\ pc[p] = "read"
    /\ data' = [data EXCEPT ![p] = file.data]
    /\ cause' = [cause EXCEPT ![p] =
                    IF disturbed \/ ~alone[p] THEN "disturbance" ELSE "none"]
    /\ Goto(p, "parse")
    /\ UNCHANGED <<published, file, seen, stamp, served, command,
                   current, alone, disturbed>>

-----------------------------------------------------------------------------
(* HostCacheLoader.Write: os.WriteFile in two steps, and os.Chtimes.       *)

Truncate(p) ==
    /\ pc[p] = "truncate"
    /\ file' = [data |-> Torn, mtime |-> Now]
    /\ disturbed' = (disturbed \/ ~alone[p])
    /\ Goto(p, "fill")
    /\ UNCHANGED <<published, process, current, alone, cause>>

\* Two that fill one file may leave the end of the longer document behind the
\* shorter one.
Fill(p) ==
    /\ pc[p] = "fill"
    /\ \E d \in {data[p]} \cup (IF alone[p] THEN {} ELSE {Torn}) :
        file' = [data |-> d, mtime |-> Now]
    /\ disturbed' = (disturbed \/ stamp[p] = NoTime \/ ~alone[p])
    /\ Goto(p, IF stamp[p] = NoTime THEN "parse" ELSE "stamp")
    /\ UNCHANGED <<published, process, current, alone, cause>>

\* Mutant of SetTime: the file keeps the time at which it was written.
SetTimeToNow(p) ==
    /\ pc[p] = "stamp"
    /\ file' = [file EXCEPT !.mtime = Now]
    /\ disturbed' = ((disturbed /\ ~alone[p]) \/ data[p] \notin Documents)
    /\ Goto(p, "parse")
    /\ UNCHANGED <<published, process, current, alone, cause>>

SetTime(p) ==
    /\ pc[p] = "stamp"
    /\ file' = [file EXCEPT !.mtime = stamp[p]]
    /\ disturbed' = ((disturbed /\ ~alone[p]) \/ data[p] \notin Documents)
    /\ Goto(p, "parse")
    /\ UNCHANGED <<published, process, current, alone, cause>>

\* The disk is full, or the file's mode forbids it: what was written stays.
WriteFails(p) ==
    /\ pc[p] \in Writing
    /\ disturbed' = (disturbed \/ pc[p] # "truncate")
    /\ FallBack(p)
    /\ UNCHANGED <<published, file, command, current, alone>>

-----------------------------------------------------------------------------
\* NewFromData.
Parse(p) ==
    /\ pc[p] = "parse" /\ data[p] \in Documents
    /\ Serve(p, data[p])
    /\ UNCHANGED <<published, file, command, history>>

\* Mutant of ParseFails: the data is looked at again.
ParseAgain(p) ==
    /\ pc[p] = "parse" /\ data[p] \notin Documents
    /\ UNCHANGED vars

ParseFails(p) ==
    /\ pc[p] = "parse" /\ data[p] \notin Documents
    /\ Serve(p, Embedded)
    /\ UNCHANGED <<published, file, command, history>>

-----------------------------------------------------------------------------
(* What is made of the document.                                           *)

\* A document's parameters are left out, although operations refer to them.
RefersTo(d, operations) == UNION {OperationRefs[d][o] : o \in operations}

\* The load is over.
Loaded(p) ==
    /\ current' = [current EXCEPT ![p] = Nothing]
    /\ cause' = [cause EXCEPT ![p] = "none"]
    /\ alone' = [alone EXCEPT ![p] = TRUE]
    /\ UNCHANGED <<published, file, seen, data, stamp, served, disturbed>>

\* runSchemaSearch.
Search(p) ==
    /\ pc[p] = "answer"
    /\ \E query \in Queries, score \in Retrievals :
        answer' = [answer EXCEPT ![p] = {[query |-> query, score |-> score]}]
    /\ UNCHANGED <<todo, collected>>
    /\ Goto(p, "ended") /\ Loaded(p)

\* AtomizeOperation and AtomizePath: one operation, or those of a path.
Get(p) ==
    /\ pc[p] = "answer"
    /\ \E o \in Operations, wholePath \in BOOLEAN :
        LET asked == IF wholePath THEN {q \in Operations : Path[q] = Path[o]} ELSE {o}
        IN  /\ answer' = [answer EXCEPT ![p] = {[operations |-> asked]}]
            /\ todo' = [todo EXCEPT ![p] = RefersTo(served[p], asked) \cap Schemas]
    /\ UNCHANGED collected
    /\ Goto(p, "collect") /\ Loaded(p)

\* Mutant of Collect: what a schema refers to is not looked at.
CollectOnce(p) ==
    /\ pc[p] = "collect"
    /\ \E s \in todo[p] :
        /\ collected' = [collected EXCEPT ![p] = @ \cup {s}]
        /\ todo' = [todo EXCEPT ![p] = @ \ {s}]
    /\ UNCHANGED <<published, file, pc, seen, data, stamp, served, answer, history>>

\* collectSchemaRefs; the order does not matter.
Collect(p) ==
    /\ pc[p] = "collect"
    /\ \E s \in todo[p] :
        /\ collected' = [collected EXCEPT ![p] = @ \cup {s}]
        /\ todo' = [todo EXCEPT ![p] =
              (@ \ {s}) \cup (SchemaRefs[served[p]][s] \ (collected[p] \cup {s}))]
    /\ UNCHANGED <<published, file, pc, seen, data, stamp, served, answer, history>>

PrintDocument(p) ==
    /\ pc[p] = "collect" /\ todo[p] = {}
    /\ Goto(p, "ended")
    /\ UNCHANGED <<published, file, process, history>>

-----------------------------------------------------------------------------
Fresh(p) ==
    /\ seen' = [seen EXCEPT ![p] = NoTime]
    /\ data' = [data EXCEPT ![p] = Nothing]
    /\ stamp' = [stamp EXCEPT ![p] = NoTime]
    /\ served' = [served EXCEPT ![p] = Nothing]
    /\ todo' = [todo EXCEPT ![p] = {}] /\ collected' = [collected EXCEPT ![p] = {}]
    /\ answer' = [answer EXCEPT ![p] = {}]
    /\ current' = [current EXCEPT ![p] = Nothing]
    /\ alone' = [alone EXCEPT ![p] = TRUE]
    /\ cause' = [cause EXCEPT ![p] = "none"]
    /\ Goto(p, "start")
    /\ UNCHANGED <<published, file>>

\* The next command.
Again(p) == pc[p] = "ended" /\ Fresh(p) /\ UNCHANGED disturbed

Kill(p) ==
    /\ pc[p] \in Loading
    /\ Fresh(p)
    /\ disturbed' = (disturbed \/ pc[p] \in {"fill", "stamp"})

Load(p) ==
    \/ NoLoader(p) \/ Stat(p) \/ NotModified(p) \/ Modified(p) \/ CheckFails(p)
    \/ ReadFails(p) \/ Read(p) \/ Truncate(p) \/ Fill(p) \/ SetTime(p) \/ WriteFails(p)
    \/ Parse(p) \/ ParseFails(p)

Report(p) == Search(p) \/ Get(p) \/ Collect(p) \/ PrintDocument(p)

Next == Publish \/ \E p \in Procs : Load(p) \/ Report(p) \/ Again(p) \/ Kill(p)

\* A process is scheduled, and its requests end after three seconds at most.
Spec == Init /\ [][Next]_vars /\ \A p \in Procs : WF_vars(Load(p)) /\ WF_vars(Report(p))

-----------------------------------------------------------------------------
TypeOK ==
    /\ published \in Documents
    /\ file \in [data : Documents \cup {Torn, Nothing}, mtime : Times]
    /\ pc \in [Procs -> {"start", "parse", "answer", "collect", "ended"} \cup Loading]
    /\ seen \in [Procs -> Times] /\ stamp \in [Procs -> Times]
    /\ data \in [Procs -> Documents \cup {Torn, Nothing}]
    /\ served \in [Procs -> Documents \cup {Nothing}]
    /\ current \in [Procs -> Documents \cup {Nothing}]
    /\ todo \in [Procs -> SUBSET Schemas] /\ collected \in [Procs -> SUBSET Schemas]
    /\ \A p \in Procs : Cardinality(answer[p]) <= 1
    /\ alone \in [Procs -> BOOLEAN] /\ disturbed \in BOOLEAN
    /\ cause \in [Procs -> {"none", "failure", "disturbance"}]

\* A load that meets no failure, overlaps with no other one, and finds no file or a
\* document under its own time, serves what the host had published when it answered:
\* a document that is older, and the embedded one, have a cause.  A page that is no
\* document but came with a Last-Modified is such a cause for every load after it,
\* until the host publishes something later.
ServesCurrent ==
    \A p \in Procs :
        pc[p] = "answer" /\ cause[p] = "none" => served[p] = current[p]

\* What the operations refer to, what that refers to, and so on: the least set of
\* schemas that has the former and is closed.
Needed(d, operations) ==
    LET direct    == RefersTo(d, operations) \cap Schemas
        Closed(C) == direct \subseteq C /\ \A s \in C : SchemaRefs[d][s] \subseteq C
    IN  {s \in Schemas : \A C \in SUBSET Schemas : Closed(C) => s \in C}

\* A document that get prints has every schema that its operations need, in however
\* many steps and circles, and no other.  A search that retrieves something prints
\* something, and with it the operation that beats all others and has the resource
\* asked for among its tags.
AnswersAreWhole ==
    \A p \in Procs : pc[p] = "ended" => \A a \in answer[p] :
        IF "operations" \in DOMAIN a
        THEN collected[p] = Needed(served[p], a.operations)
        ELSE LET found     == Found(a.query, a.score)
                 retrieved == DOMAIN a.score
             IN  /\ found = <<>> => retrieved = {}
                 /\ \A o \in retrieved :
                      /\ \E r \in Range(Resources(a.query)) :
                            r \in TagWords(o) /\ ~Nested(r, o)
                      /\ \A q \in retrieved \ {o} : a.score[q] < a.score[o]
                      => found # <<>> /\ Head(found) = o

\* Every command answers, whatever the host, the file and the other processes do.
LoadsEnd ==
    \A p \in Procs :
        /\ pc[p] = "start" ~> pc[p] # "start"
        /\ pc[p] \notin {"start", "ended"} ~> pc[p] \in {"start", "ended"}
=============================================================================

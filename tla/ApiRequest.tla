----------------------------- MODULE ApiRequest -----------------------------
(***************************************************************************)
(* `tfctl api`, get and create: the target is made out, names are looked   *)
(* up, one request is sent, with --all the pages that follow it, and what  *)
(* there is is displayed.  The server's collection changes while it is     *)
(* paged through; a mutation may be acted on and its answer be lost; a     *)
(* signal may come at any moment.                                          *)
(*                                                                         *)
(*   src/internal/commands/api/api.go, src/internal/pkg/client/client.go   *)
(***************************************************************************)
EXTENDS RequestTarget, ExitCodes

CONSTANTS
    Cases,               \* targets, each with the flags and the answers of interest
    Records,             \* what a collection may contain
    Collections,         \* ... and contains at first
    PageSize,            \* the server's
    MaxPaginateRecords,
    MaxRetries           \* of a request that is answered 429 or 5xx

ASSUME ConstantsAssumption ==
    /\ PageSize \in Nat \ {0} /\ MaxRetries \in Nat
    \* 100 against 2000
    /\ MaxPaginateRecords \in Nat /\ PageSize <= MaxPaginateRecords
    /\ Collections \subseteq {s \in Seq(Records) : IsInjective(s)}

Options ==
    [answer : {"list", "object", "json", "log", "empty"},
     all : BOOLEAN, dryRun : BOOLEAN, quiet : BOOLEAN]

\* What get and create are given, and the organization around them, is no placeholder.
ASSUME CasesAssumption ==
    \A c \in Cases :
        LET t == c.target
        IN  /\ c.opts \in Options
            /\ t.path \in Seq(STRING) /\ t.words \in Seq(STRING)
            /\ (Range(t.words) \cup {ResolveOrganization(t)}) \cap Placeholders = {}
            /\ None \notin Range(t.given)
            /\ IsFiniteSet(t.rels)
            \* A path of the API is below one organization at most.
            /\ \A p, q \in Params(t.path) :
                 Before(t.path, p) = "organizations" /\ Before(t.path, q) = "organizations"
                 => p = q

VARIABLES
    target,    \* the command line and its surroundings
    params, pending,   \* the values of placeholders; those that are to be looked up
    path, body,
    opts,      \* flags, and what the URL answers with
    pc,        \* the request in flight, or another place in the command
    ctx,       \* inv.ShutdownCtx
    combined,  \* the records received
    next,      \* the page that `links.next` names, or NoPage
    shown,     \* what has been written to stdout
    exit,      \* exit code, or Running
    collection,   \* on the server: a sequence of records, none twice
    attempt, handled,   \* of a mutation: retries made, the server has acted on it
    \* history
    acted,     \* how often it has acted
    lost,      \* ... and its answer was a failure
    met,       \* the collection when the first page was sent
    inserted, removed   \* the collection has been changed since

result  == <<combined, next, shown>>
sent    == <<attempt, handled, acted, lost>>
moves   == <<met, inserted, removed>>
server  == <<collection, moves>>
request == <<target, params, pending, path, body>>
vars    == <<request, opts, pc, ctx, result, exit, server, sent>>

Running == -1
NoPage  == 0

Take(s, n) == SubSeq(s, 1, Min({n, Len(s)}))

\* isMutationMethod.
Mutation == Method(target) # "GET"

Init ==
    /\ \E c \in Cases : target = c.target /\ opts = c.opts
    /\ params = <<>> /\ pending = {} /\ path = None /\ body = NoBody
    /\ pc = "target" /\ ctx = "live" /\ exit = Running
    /\ combined = <<>> /\ next = NoPage /\ shown = "nothing"
    /\ collection \in IF opts.answer = "list" THEN Collections ELSE {<<>>}
    /\ attempt = 0 /\ handled = FALSE /\ acted = 0 /\ lost = FALSE
    /\ met = <<>> /\ inserted = FALSE /\ removed = FALSE

Exit(code) == pc' = "exited" /\ exit' = code
Goto(to)   == pc' = to /\ exit' = exit

-----------------------------------------------------------------------------
(* The collection: what is new comes first, as the API lists runs.         *)

InsertRecord ==
    /\ pc = "page"
    /\ \E r \in Records \ (Range(met) \cup Range(collection) \cup Range(combined)) :
        collection' = <<r>> \o collection
    /\ inserted' = TRUE
    /\ UNCHANGED <<request, opts, pc, exit, ctx, result, sent, met, removed>>

RemoveRecord ==
    /\ pc = "page"
    /\ \E i \in DOMAIN collection : collection' = RemoveAt(collection, i)
    /\ removed' = TRUE
    /\ UNCHANGED <<request, opts, pc, exit, ctx, result, sent, met, inserted>>

Page(n)     == SubSeq(collection, (n - 1) * PageSize + 1, Min({n * PageSize, Len(collection)}))
NextPage(n) == IF n * PageSize < Len(collection) THEN n + 1 ELSE NoPage

Signal ==
    /\ ctx = "live" /\ pc # "exited"
    /\ ctx' = "canceled"
    /\ UNCHANGED <<request, opts, pc, exit, result, server, sent>>

-----------------------------------------------------------------------------
(* Failures.                                                               *)

Waits ==
    \/ pc \in {"first", "page"}
    \/ pc = "resolve" /\ pending # {}
    \/ pc = "gate" /\ Method(target) = "DELETE"

\* Requests and the prompt end with the context.
Abort ==
    /\ Waits /\ ctx = "canceled"
    /\ Exit(ErrorToExitCode({"canceled"}))
    /\ UNCHANGED <<request, opts, ctx, result, server, sent>>

\* Mutant of PageRefused: what has been received so far is displayed.
PageRefusedQuietly ==
    /\ pc = "page" /\ ctx = "live"
    /\ Goto("show")
    /\ UNCHANGED <<request, opts, ctx, result, server, sent>>

\* Mutant of PageRefused: the pages are requested from the first one on.
PageRefusedRestarts ==
    /\ pc = "page" /\ ctx = "live"
    /\ combined' = <<>> /\ next' = 1
    /\ UNCHANGED <<request, opts, pc, exit, ctx, shown, server, sent>>

\* A page fails after all retries, or is no JSON: the others are dropped.
PageRefused ==
    /\ pc = "page" /\ ctx = "live"
    /\ \E err \in {{"net"}, {"server"}, {"request"}, {"unauthorized"}, {"not found"}, {}} :
        Exit(ErrorToExitCode(err))
    /\ UNCHANGED <<request, opts, ctx, result, server, sent>>

\* A lookup, or a request that the server turns down; a name that is not found, or
\* not on the first page, is reported without the API's error.
Refused ==
    /\ pc = "first" \/ (pc = "resolve" /\ pending # {})
    /\ ~handled /\ ctx = "live"
    /\ \E err \in {{"net"}, {"server"}, {"request"}, {"unauthorized"},
                   IF pc = "resolve" THEN {} ELSE {"not found"}} :
        Exit(ErrorToExitCode(err))
    /\ UNCHANGED <<request, opts, ctx, result, server, sent>>

-----------------------------------------------------------------------------
(* RunF and RunAPI, up to the request.                                     *)

Fail == Exit(ErrorToExitCode({}))

\* get and create.
Locate ==
    /\ pc = "target" /\ target.verb # "api"
    /\ path' = IF target.verb = "get" THEN GetPath(target) ELSE CreatePath(target)
    /\ IF path' = None THEN Fail ELSE Goto("build")
    /\ UNCHANGED <<target, params, pending, body, opts, ctx, result, server, sent>>

LocateLiteral ==
    /\ pc = "target" /\ target.verb = "api" /\ Params(target.path) = {}
    /\ path' = target.path
    /\ Goto("build")
    /\ UNCHANGED <<target, params, pending, body, opts, ctx, result, server, sent>>

\* resolvePathParamsFromContext.
Fill ==
    /\ pc = "target" /\ target.verb = "api" /\ Params(target.path) # {}
    /\ params' = AutoFill(target) /\ pending' = Lookups(target)
    /\ Goto("resolve")
    /\ UNCHANGED <<target, path, body, opts, ctx, result, server, sent>>

\* The names are looked up in any order.
Resolve ==
    /\ pc = "resolve" /\ ctx = "live"
    /\ \E p \in pending :
        LET id == IDOf(LookupOrg(target), Before(target.path, p), params[p])
        IN  /\ params' = [params EXCEPT ![p] = id]
            /\ IF id = None THEN Fail ELSE Goto("resolve")
            /\ pending' = pending \ {p}
    /\ UNCHANGED <<target, path, body, opts, ctx, result, server, sent>>

Resolved ==
    /\ pc = "resolve" /\ pending = {}
    /\ LET filled == Substitute(target.path, params)
       IN  IF Params(filled) = {} THEN path' = filled /\ Goto("build")
           ELSE path' = path /\ Fail
    /\ UNCHANGED <<target, params, pending, body, opts, ctx, result, server, sent>>

\* buildRequestBody; -i may name what cannot be read.
Build ==
    /\ pc = "build"
    /\ \/ body' \in Bodies(target, path) /\ Goto("gate")
       \/ (target.input \/ Bodies(target, path) = {}) /\ body' = body /\ Fail
    /\ UNCHANGED <<target, params, pending, path, opts, ctx, result, server, sent>>

\* The delete gate (ExecSession, about the class DeleteClass) denies a deletion or
\* lets it pass, in a dry run too; then a dry run ends, unless it only reads.
Gate ==
    /\ pc = "gate"
    /\ \/ Method(target) = "DELETE" /\ Exit(1)
       \/ opts.dryRun /\ Mutation /\ Exit(0)
       \/ ~(opts.dryRun /\ Mutation) /\ Goto("first")
    /\ UNCHANGED <<request, opts, ctx, result, server, sent>>

\* The server acts on a mutation.
Act ==
    /\ pc = "first" /\ Mutation /\ ~handled
    /\ handled' = TRUE /\ acted' = acted + 1
    /\ UNCHANGED <<request, opts, pc, exit, ctx, result, server, attempt, lost>>

\* 429 or 5xx, whether it has acted or not: retryablehttp tries again.
Busy ==
    /\ pc = "first" /\ Mutation /\ ctx = "live"
    /\ lost' = (lost \/ handled)
    /\ IF attempt < MaxRetries
       THEN Goto("first") /\ attempt' = attempt + 1 /\ handled' = FALSE
       ELSE /\ \E err \in {{"net"}, {"server"}, {"request"}} : Exit(ErrorToExitCode(err))
            /\ UNCHANGED <<attempt, handled>>
    /\ UNCHANGED <<request, opts, ctx, result, server, acted>>

-----------------------------------------------------------------------------
(* The answer, and the pages that follow.                                  *)

Receive(n) ==
    /\ combined' = Take(combined \o Page(n), MaxPaginateRecords)
    /\ next' = NextPage(n)
    /\ Goto(IF opts.all /\ Len(combined') < MaxPaginateRecords /\ next' # NoPage
            THEN "page" ELSE "show")

FirstPage ==
    /\ pc = "first" /\ opts.answer = "list" /\ ctx = "live"
    /\ Mutation => handled
    /\ Receive(1)
    /\ met' = collection
    /\ UNCHANGED <<request, opts, ctx, shown, collection, inserted, removed, sent>>

\* paginateResponse.
Paginate ==
    /\ pc = "page" /\ ctx = "live"
    /\ Receive(next)
    /\ UNCHANGED <<request, opts, ctx, shown, server, sent>>

\* With --all the body is read and parsed at once, and must be a JSON object.
Answered ==
    /\ pc = "first" /\ ctx = "live"
    /\ opts.answer # "list" /\ (Mutation => handled)
    /\ \/ opts.all /\ \E err \in {{}, {"net"}} : Exit(ErrorToExitCode(err))
       \/ (opts.all => opts.answer \notin {"empty", "log"}) /\ Goto("show")
    /\ UNCHANGED <<request, opts, ctx, result, server, sent>>

-----------------------------------------------------------------------------
(* Display.                                                                *)

Silent == opts.answer = "empty" \/ (opts.quiet /\ Mutation)
Raw    == opts.answer \in {"json", "log"}

ShowNothing ==
    /\ pc = "show" /\ Silent
    /\ Exit(0)
    /\ UNCHANGED <<request, opts, ctx, result, server, sent>>

\* CopyRaw.  Its error is logged and dropped.
ShowRaw ==
    /\ pc = "show" /\ Raw
    /\ Exit(0)
    /\ \/ shown' = "whole"
       \/ ~opts.all /\ shown' \in {"nothing", "part"}
    /\ UNCHANGED <<request, opts, ctx, combined, next, server, sent>>

Display ==
    /\ pc = "show" /\ ~Silent /\ ~Raw
    /\ Exit(0)
    /\ shown' = "whole"
    /\ UNCHANGED <<request, opts, ctx, combined, next, server, sent>>

\* Mutant of DisplayFails: the body is read before it is known to be needed.
ReadFails ==
    /\ pc = "show" /\ ~Raw
    /\ Exit(ErrorToExitCode(IF ctx = "live" THEN {} ELSE {"canceled"}))
    /\ UNCHANGED <<request, opts, ctx, result, server, sent>>

\* The body breaks off, is no JSON:API, or does not suit a --jq filter.
DisplayFails ==
    /\ pc = "show" /\ ~Silent /\ ~Raw
    /\ \/ Exit(ErrorToExitCode({}))
       \/ ~opts.all /\ \E err \in {{"net"}, {"canceled"}} :
            (err = {"canceled"} => ctx = "canceled") /\ Exit(ErrorToExitCode(err))
    /\ UNCHANGED <<request, opts, ctx, result, server, sent>>

-----------------------------------------------------------------------------
Answer == Resolve \/ Act \/ Refused \/ Busy \/ FirstPage \/ Paginate \/ PageRefused \/ Answered
Own    == \/ Locate \/ LocateLiteral \/ Fill \/ Resolved \/ Build
          \/ Abort \/ Gate \/ ShowNothing \/ ShowRaw \/ Display \/ DisplayFails

Next == InsertRecord \/ RemoveRecord \/ Signal \/ Answer \/ Own

\* The process is scheduled; the server need not answer.
Spec == Init /\ [][Next]_vars /\ WF_vars(Own)

-----------------------------------------------------------------------------
TypeOK ==
    /\ opts \in Options /\ \E c \in Cases : target = c.target /\ opts = c.opts
    /\ pending \subseteq DOMAIN params
    /\ pc \in {"target", "resolve", "build", "gate", "first", "page", "show", "exited"}
    /\ ctx \in {"live", "canceled"}
    /\ combined \in Seq(Records) /\ Len(combined) <= MaxPaginateRecords
    /\ next \in Nat
    /\ shown \in {"nothing", "part", "whole"}
    /\ exit \in {Running, 0, 1, 2, 3, 4, 5, 130}
    /\ collection \in Seq(Records) /\ IsInjective(collection)
    /\ attempt \in 0..MaxRetries /\ acted \in 0..(MaxRetries + 1)
    /\ handled \in BOOLEAN /\ lost \in BOOLEAN
    /\ met \in Seq(Records) /\ inserted \in BOOLEAN /\ removed \in BOOLEAN

Listed == shown = "whole" /\ opts.answer = "list" /\ opts.all

\* --all displays what was there when it began, in its order, up to the limit.
\* If the collection changes meanwhile, a record may be missing only if one was
\* removed, and may be there twice only if one was inserted.
AllIsComplete ==
    Listed =>
        /\ ~inserted /\ ~removed => combined = Take(met, MaxPaginateRecords)
        /\ ~removed /\ Len(combined) < MaxPaginateRecords =>
              Range(met) \subseteq Range(combined)
        /\ ~inserted => IsInjective(combined)

\* A mutation is done if its exit code is 0, not at all in a dry run, and twice
\* only if an answer got lost.  A quiet one that was done does not fail for the
\* sake of a body that nobody wants to see, unless --all asks for its pages.  A
\* request that fails displays nothing: neither some of the pages, nor the first.
ActsAsAsked ==
    /\ exit = 0 /\ Mutation /\ ~opts.dryRun => handled
    /\ acted > 0 => Mutation /\ ~opts.dryRun
    /\ acted > 1 => lost
    /\ acted > 0 /\ opts.quiet /\ exit \notin {Running, 0} =>
          lost \/ ctx = "canceled" \/ opts.all
    /\ exit \notin {Running, 0} => shown = "nothing"

\* The place in the path, for one whose value has an organization of its own.
Filled(i) == target.verb = "api" /\ target.path[i] \in Placeholders

\* No placeholder is left, except by get, which fills in the id alone.
PathIsResolved ==
    Params(path) \subseteq IF target.verb = "get" THEN {OrganizationName} ELSE {}

\* A placeholder stands for what -p gives for it, or else the surroundings.  A name
\* becomes its id in the organization that the path's placeholders stand for, or else
\* in the one of the surroundings, even if the path has another one written out.
NamesKeepTheirOrganization ==
    \A i \in {i \in DOMAIN path : Filled(i)} :
        LET p       == target.path[i]
            segment == Before(target.path, p)
            named   == IF p \in DOMAIN target.given THEN target.given[p]
                       ELSE IF segment = "organizations" THEN ContextOrg(target)
                       ELSE FindCloudConfig(target.blocks).workspace
            orgs    == {path[j] : j \in {j \in DOMAIN path : Filled(j) /\
                                   Before(target.path, target.path[j]) = "organizations"}}
        IN  IF IsResolvable(segment) /\ ~LooksLikeID(segment, named)
            THEN \E o \in IF orgs = {} THEN {ContextOrg(target)} ELSE orgs :
                    path[i] = IDOf(o, segment, named) /\ path[i] # None
            ELSE path[i] = named

\* The workspace of the directory's configuration is that of the organization named
\* there, unless the profile, or the path, names another one.
ConfiguredWorkspace ==
    \A i \in {i \in DOMAIN path : Filled(i)} :
        LET p      == target.path[i]
            config == FindCloudConfig(target.blocks)
        IN  /\ Before(target.path, p) = "workspaces" /\ p \notin DOMAIN target.given
            /\ LookupOrg(target) = config.organization
            => path[i] \in {config.workspace,
                            IDOf(config.organization, "workspaces", config.workspace)}

\* What a delete has to be granted is the type of the id that is deleted, where the
\* path has the id in its place and the command has no --type.  With one it is that
\* type, whatever the path names, although harness_exec.go:61 has only "resource types
\* that are explicitly named" deleted.
ClassIsTheType ==
    LET resource == ByIDPrefix(Last(path))
    IN  /\ Method(target) = "DELETE" /\ resource # NoResource /\ target.type = None
        /\ Len(path) > 1 /\ path[Len(path) - 1] = PlaceOf(resource)
        => DeleteClass(target, path) = resource.type

\* The relationships that are asked for are all in the body, with their ids, and
\* with a type that the description allows unless the command line gives one.  The
\* body has the type of the id that is changed, if that is the path's segment and
\* the id does not end in "s".
BodyIsAsAsked ==
    /\ ~target.input =>
          /\ {<<r.name, r.ids>> : r \in target.rels} =
                {<<b.name, b.ids>> : b \in body.relationships}
          /\ Cardinality(body.relationships) = Cardinality(target.rels)
          /\ \A r \in target.rels, b \in body.relationships :
                r.name = b.name =>
                    b.type = r.type \/
                    (r.type = None /\
                     b.type \in Linkages(Method(target), path)[r.name].types)
    /\ LET resource == ByIDPrefix(Last(path))
       IN  /\ resource # NoResource /\ target.type = None /\ body.type # "raw"
           /\ Len(path) > 1 /\ path[Len(path) - 1] = resource.type
           /\ Last(path) \notin Plural /\ resource.type \in Plural
           => body.type \in {None, resource.type}

\* What is sent is what was named, on the command line or else around it.
RequestIsAsNamed ==
    pc = "gate" =>
        /\ PathIsResolved
        /\ NamesKeepTheirOrganization
        /\ ConfiguredWorkspace
        /\ ClassIsTheType
        /\ BodyIsAsAsked

\* A signal ends the command; the pages come to an end without one, if the server
\* answers.
RequestEnds ==
    /\ ctx = "canceled" ~> exit # Running
    /\ WF_vars(Answer) => (pc = "page" ~> exit # Running)
=============================================================================

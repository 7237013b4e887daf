--------------------------- MODULE VariableImport ---------------------------
(***************************************************************************)
(* `tfctl variable import`: find (or create) the target, list what it has, *)
(* refuse or not, then create or update one variable after the other.      *)
(* Several imports run at once, may be repeated, and share the target with *)
(* people who delete variables; any request may fail, and a POST may fail  *)
(* after the server has acted on it, to be repeated by the transport.      *)
(*                                                                         *)
(*   src/internal/commands/variable/{variable_import,target}.go            *)
(*   src/internal/pkg/client/{resolver,client}.go                          *)
(***************************************************************************)
EXTENDS Naturals, Sequences, FiniteSets

CONSTANTS
    Importers,   \* the processes
    Kind,        \* of the target: "workspace" or "variable set"
    Keys,        \* variables: category and key
    Values,
    None,        \* a variable that does not exist
    Lists,       \* what is imported: sequences of keys with values
    PageSize,    \* variables in one answer of the server
    MaxRetries   \* of a request that is answered 429 or 5xx

ASSUME ConstantsAssumption ==
    /\ None \notin Values
    /\ Lists \subseteq Seq([key : Keys, value : Values]) \ {<<>>}
    /\ Kind \in {"workspace", "variable set"}
    /\ PageSize \in Nat /\ MaxRetries \in Nat

VARIABLES
    target,    \* the target exists
    vars,      \* its variables
    pc,        \* the request an import is about to make
    flags,     \* --overwrite, --dry-run
    list,      \* imported
    next,      \* the index it has come to
    existing,  \* existingVariables
    attempt,   \* retries of the request
    result,    \* of the import that has ended
    \* history
    done,      \* the indices for which this import has changed a variable
    made,      \* it has created the target
    upset      \* what has come between it and the server: "lost", an answer to
               \* a POST; "rival", another import's write; "hidden", variables
               \* beyond the page, or the target itself

server  == <<target, vars>>
history == <<done, made, upset>>
locals  == <<pc, flags, list, next, existing, attempt, result>>
allVars == <<server, locals, history>>

Results == {"none", "imported", "duplicates", "failed", "taken", "would create", "would import"}
PCs     == {"idle", "resolve", "create target", "list", "write"}

Present == {k \in Keys : vars[k] # None}

-----------------------------------------------------------------------------
Init ==
    /\ target \in BOOLEAN /\ (Kind = "workspace" => target)
    /\ vars \in [Keys -> Values \cup {None}] /\ (~target => Present = {})
    /\ pc = [p \in Importers |-> "idle"]
    /\ flags = [p \in Importers |-> [overwrite |-> FALSE, dryRun |-> FALSE]]
    /\ list = [p \in Importers |-> <<>>]
    /\ next = [p \in Importers |-> 1]
    /\ existing = [p \in Importers |-> {}]
    /\ attempt = [p \in Importers |-> 0]
    /\ result = [p \in Importers |-> "none"]
    /\ done = [p \in Importers |-> {}]
    /\ made = [p \in Importers |-> FALSE]
    /\ upset = [p \in Importers |-> {}]

Goto(p, to) ==
    /\ pc' = [pc EXCEPT ![p] = to]
    /\ attempt' = [attempt EXCEPT ![p] = 0]
    /\ result' = result

End(p, r) ==
    /\ pc' = [pc EXCEPT ![p] = "idle"]
    /\ attempt' = [attempt EXCEPT ![p] = 0]
    /\ result' = [result EXCEPT ![p] = r]

Here(f, p, v) == [f EXCEPT ![p] = v]

-----------------------------------------------------------------------------
\* A tfvars file that does not parse or a variable that is not in the
\* environment ends the command before it makes a request.
Start(p) ==
    /\ pc[p] = "idle"
    /\ \E o, d \in BOOLEAN : flags' = Here(flags, p, [overwrite |-> o, dryRun |-> d])
    /\ \E l \in Lists : list' = Here(list, p, l)
    /\ pc' = Here(pc, p, "resolve") /\ result' = Here(result, p, "none")
    /\ next' = Here(next, p, 1) /\ existing' = Here(existing, p, {})
    /\ done' = Here(done, p, {}) /\ made' = Here(made, p, FALSE)
    /\ upset' = Here(upset, p, {})
    /\ UNCHANGED <<server, attempt>>

Same == UNCHANGED <<flags, list, existing>>

\* A write that other imports may stumble over.
Upsets(p, trouble) ==
    upset' = [q \in Importers |->
        upset[q] \cup (IF q = p THEN trouble ELSE IF pc[q] = "idle" THEN {} ELSE {"rival"})]

\* resolveTarget: a variable set that is missing is created, but not by a dry run.  A
\* workspace is asked for by its name; a variable set is looked for on the first page
\* of a search, which other names that contain its own may have filled.
Resolve(p) ==
    /\ pc[p] = "resolve"
    /\ \E found \in {target, FALSE} :
        /\ Kind = "workspace" => found = target
        /\ IF found THEN Goto(p, "list")
           ELSE IF flags[p].dryRun THEN End(p, "would create")
           ELSE Goto(p, "create target")
        /\ upset' = Here(upset, p, upset[p] \cup (IF found = target THEN {} ELSE {"hidden"}))
    /\ Same /\ UNCHANGED <<server, next, done, made>>

\* Every error counts as a missing variable set in a dry run.
ResolveFails(p) ==
    /\ pc[p] = "resolve"
    /\ End(p, IF flags[p].dryRun /\ Kind = "variable set" THEN "would create" ELSE "failed")
    /\ Same /\ UNCHANGED <<server, next, history>>

\* A name is taken once; another import may have been faster, or the search too short.
CreateTarget(p) ==
    /\ pc[p] = "create target"
    /\ IF target
       THEN End(p, "taken") /\ UNCHANGED <<target, made, upset>>
       ELSE target' = TRUE /\ made' = Here(made, p, TRUE) /\ Upsets(p, {}) /\ Goto(p, "list")
    /\ Same /\ UNCHANGED <<vars, next, done>>

\* Mutant of List: --overwrite saves the request.
ListBlind(p) ==
    /\ pc[p] = "list"
    /\ existing' = Here(existing, p, IF flags[p].overwrite THEN {} ELSE Present)
    /\ IF \E i \in DOMAIN list[p] : list[p][i].key \in existing'[p]
       THEN End(p, "duplicates")
       ELSE Goto(p, "write")
    /\ UNCHANGED <<server, flags, list, next, history>>

\* listExistingVariables: one request, one page; then the check for duplicates.
List(p) ==
    /\ pc[p] = "list"
    /\ \E page \in SUBSET Present :
        /\ Cardinality(page) <= PageSize
        /\ page # Present => Cardinality(page) = PageSize
        /\ existing' = Here(existing, p, page)
        /\ upset' = Here(upset, p, upset[p] \cup (IF page = Present THEN {} ELSE {"hidden"}))
    /\ IF ~flags[p].overwrite /\ \E i \in DOMAIN list[p] : list[p][i].key \in existing'[p]
       THEN End(p, "duplicates")
       ELSE Goto(p, "write")
    /\ UNCHANGED <<server, flags, list, next, done, made>>

-----------------------------------------------------------------------------
(* The loop.                                                               *)

AtWrite(p) == pc[p] = "write" /\ next[p] <= Len(list[p])
Item(p)    == list[p][next[p]]
Known(p)   == Item(p).key \in existing[p]
Advance(p) == next' = Here(next, p, next[p] + 1) /\ Goto(p, "write")

\* With an answer or without.
Store(p, trouble) ==
    /\ Upsets(p, trouble)
    /\ vars' = Here(vars, Item(p).key, Item(p).value)
    /\ done' = Here(done, p, done[p] \cup {next[p]})

\* A dry run only reports.
Report(p) ==
    /\ AtWrite(p) /\ flags[p].dryRun
    /\ Advance(p)
    /\ Same /\ UNCHANGED <<server, history>>

\* updateVariable; the variable may have been deleted since it was listed.
Update(p) ==
    /\ AtWrite(p) /\ ~flags[p].dryRun /\ Known(p)
    /\ IF Item(p).key \in Present
       THEN Store(p, {}) /\ Advance(p)
       ELSE End(p, "failed") /\ UNCHANGED <<vars, done, upset, next>>
    /\ Same /\ UNCHANGED <<target, made>>

\* Mutant of Create: whatever is there is replaced.
CreateOver(p) ==
    /\ AtWrite(p) /\ ~flags[p].dryRun /\ ~Known(p)
    /\ Store(p, {}) /\ Advance(p)
    /\ Same /\ UNCHANGED <<target, made>>

\* createVariable; the server refuses a second variable with the same key.
Create(p) ==
    /\ AtWrite(p) /\ ~flags[p].dryRun /\ ~Known(p)
    /\ IF Item(p).key \in Present
       THEN End(p, "taken") /\ UNCHANGED <<vars, done, upset, next>>
       ELSE Store(p, {}) /\ Advance(p)
    /\ Same /\ UNCHANGED <<target, made>>

\* Retry, as long as the transport does.
Again(p) ==
    IF attempt[p] < MaxRetries
    THEN attempt' = Here(attempt, p, attempt[p] + 1) /\ UNCHANGED <<pc, result>>
    ELSE End(p, "failed")

\* The server creates the variable, but answers 5xx.
CreateLost(p) ==
    /\ AtWrite(p) /\ ~flags[p].dryRun /\ ~Known(p) /\ Item(p).key \notin Present
    /\ Store(p, {"lost"})
    /\ Again(p)
    /\ Same /\ UNCHANGED <<target, next, made>>

TargetLost(p) ==
    /\ pc[p] = "create target" /\ ~target
    /\ target' = TRUE /\ made' = Here(made, p, TRUE) /\ Upsets(p, {"lost"})
    /\ Again(p)
    /\ Same /\ UNCHANGED <<vars, next, done>>

\* Mutant of Fail: a variable that cannot be written is left out.
FailOn(p) ==
    /\ AtWrite(p)
    /\ Advance(p)
    /\ Same /\ UNCHANGED <<server, history>>

\* A request fails for good, without effect, or the signal's context ends it.
Fail(p) ==
    /\ \/ pc[p] \in {"create target", "list"}
       \/ AtWrite(p) /\ ~flags[p].dryRun
    /\ End(p, "failed")
    /\ Same /\ UNCHANGED <<server, next, history>>

Finish(p) ==
    /\ pc[p] = "write" /\ next[p] > Len(list[p])
    /\ End(p, IF flags[p].dryRun THEN "would import" ELSE "imported")
    /\ Same /\ UNCHANGED <<server, next, history>>

\* Somebody deletes a variable.
Delete(k) ==
    /\ vars[k] # None
    /\ vars' = Here(vars, k, None)
    /\ UNCHANGED <<target, locals, history>>

Step(p) ==
    \/ Start(p) \/ Resolve(p) \/ ResolveFails(p) \/ CreateTarget(p) \/ TargetLost(p)
    \/ List(p) \/ Report(p) \/ Update(p) \/ Create(p) \/ CreateLost(p)
    \/ Fail(p) \/ Finish(p)

Next == (\E p \in Importers : Step(p)) \/ (\E k \in Keys : Delete(k))

Spec == Init /\ [][Next]_allVars

-----------------------------------------------------------------------------
TypeOK ==
    /\ target \in BOOLEAN
    /\ vars \in [Keys -> Values \cup {None}]
    /\ pc \in [Importers -> PCs]
    /\ flags \in [Importers -> [overwrite : BOOLEAN, dryRun : BOOLEAN]]
    /\ list \in [Importers -> Lists \cup {<<>>}]
    /\ next \in [Importers -> Nat \ {0}]
    /\ existing \in [Importers -> SUBSET Keys]
    /\ attempt \in [Importers -> 0..MaxRetries]
    /\ result \in [Importers -> Results]
    /\ done \in [Importers -> SUBSET Nat]
    /\ made \in [Importers -> BOOLEAN]
    /\ upset \in [Importers -> SUBSET {"lost", "rival", "hidden"}]

\* A variable that exists takes another value only from an import that was
\* given --overwrite, however imports interleave.
OverwriteNeedsFlag ==
    [][\A k \in Keys :
        vars[k] # None /\ vars'[k] \notin {vars[k], None} =>
            \E p \in Importers : /\ pc[p] = "write" /\ next'[p] = next[p] + 1
                                 /\ flags[p].overwrite /\ ~flags[p].dryRun]_allVars

\* An import that reports success has written every variable it was given; one
\* that reports "variables already exist" has written none, and no dry run has
\* written or created anything.
ResultsHold ==
    \A p \in Importers :
        /\ result[p] = "imported"   => done[p] = DOMAIN list[p]
        /\ result[p] = "duplicates" => done[p] = {}
        /\ flags[p].dryRun => done[p] = {} /\ ~made[p]

Repeats(l) == \E i, j \in DOMAIN l : i # j /\ l[i].key = l[j].key

\* variable_import.go:96, --overwrite: "Update matching existing variables
\* instead of erroring".  The server refuses a variable or the set all the same, but
\* only if the import gives the variable twice, if the answer to a POST got lost, if
\* another import was faster, or if the page it was shown left out variables, or the
\* set: listExistingVariables and Resolver.VariableSet never ask for a second one.
RefusedForCause ==
    \A p \in Importers :
        result[p] = "taken" /\ flags[p].overwrite =>
            Repeats(list[p]) \/ upset[p] # {}
=============================================================================

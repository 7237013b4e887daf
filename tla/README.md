# tfctl: a model of its concurrent and stateful parts

tfctl is a single Go binary: every invocation is one short-lived process that
talks HTTP to HCP Terraform / Terraform Enterprise and keeps its state in files
under the user's configuration directory. What is hard about it is not in the
size of the algorithms but in who else is running: several tfctl processes (an
agent starts them in parallel, nested under `tfctl harness exec`) share the
session files, locks, profiles and caches; inside one process, goroutines for
signals, prompts, checkpointing and skill migration outlive the code that
started them; every step can be the last one before a kill; and what is
displayed, masked and sent is put together from flags, environment, profile and
directory.

The project is TLA+ modules (checked by TLC on small instances), and proofs
(checked by TLAPS for every value of the constants).

## Inventory

| Component | State | Operations | Interacts with | What makes it correct |
|---|---|---|---|---|
| Exec sessions (`execsession`, `harness exec`) | session file, shared lock held by the wrapper, token in the child's environment | Create, run child, Close; Load, probe, AuthorizeDelete | file system, child processes, delete gate | a grant counts only while its wrapper lives; nothing is left behind; checks never block |
| Delete gate (`api`) | decision, prompt answer | session check, confirmation, denial, dry run, request | exec sessions, prompts | no unattended delete without a grant |
| Prompts (`iostreams`) | terminal echo, goroutines, channels | PromptConfirm, ReadSecret | signals, login, delete gate, profile delete | a signal ends them; a yes is typed; the echo comes back |
| Profile store (`profile`) | `active_profile.hcl`, `profiles/*.hcl` | load, first-run creation, write, list, delete, rename, activate | every command; other processes | the active profile exists; a login's token stays with its host |
| Schema cache (`profile/hostcache.go`, `openapi/schema.go`) | cached document and its mtime | ReadOrRefresh, fall back to the embedded document | `api schema`, other processes, the host | a stale or torn document has a cause |
| Schema search (`api schema`) | none kept | retrieve, filter, order; collect what a schema refers to | schema cache | the best result is kept; a document is whole |
| Runs (`client/run_wait.go`, `run_summary.go`, `run start`) | run status on the server, poll state, deadline | create, poll, refetch, summarise, exit code | HTTP client, signals | the exit code tells what became of the run |
| HTTP client (`client`) | attempts | Do, retry on 429/5xx | server | a retried request is not done twice |
| Variable import | target set, list of existing variables | resolve, list, create/update each | server | a re-run completes what a failed run began |
| Targets (`get`, `create`, `api`; `resource`, `client/resolver.go`, `terraform`) | registry table, path parameters | alias, prefix, path, name lookup, body | profile, directory, API description, server | what is sent is what was named; grant and request agree on the class |
| api requests | page cursor, merged body | request, paginate, display | server, output | all pages once, in order; the cap is respected |
| Command pipeline (`cmd`) | parsed flags, invocation | prescan, dispatch, parse, pre-run, authenticate, validate, run, exit code | every command | no command runs past a failed check |
| Redaction (`redact`) and output (`format`) | mode, mask counts | mask, display, raw copy, report | api, get, create | what is hidden is hidden in every view, and reported |
| Process lifecycle (`cmd/tfctl`, `checkpoint`, `telemetry`) | context, goroutines, exit status | start, signal, shutdown | all of the above | every path ends; what was started is waited for |
| Skill installation (`skills`) | SKILL.md files | install, migrate in background | process lifecycle | a skill file is never left torn |
| Flag values, tables, heredoc, generators | none kept | parsing, formatting | - | outside the model |

### Hard behaviours

* **Concurrent processes** share files and `flock`s: probes meet each other,
  profile writers overwrite each other, deletion races activation, loads of the
  schema overtake each other between the cache's data and its time.
* **Concurrent goroutines** inside a prompt share results, channels and the
  terminal's mode.
* **Crashes**: a killed wrapper leaves its session file; a kill between the
  writes of a first run leaves half a configuration.
* **Failure of one of several steps**: session creation, variable import,
  rename (write new, switch, delete old), cache write (data, then time).
* **Staleness**: a liveness answer, the list of existing variables, a page of a
  collection or the active profile is used after it was read, in one case after
  a human has thought about it.
* **Two views of one thing**: a response is masked as a document and as rows, the
  arguments are scanned once as text and once as flags, a class is read off a
  path and off an id, the organization comes from three places.
* **Termination**: signals, blocked reads, locks, polling and paging loops.

## Plan

In this order, the most consequential behaviour first; all of it is done.

1. `DeleteGrant` (abstract), `ExecSession` (detailed), `ExecSessionProofs`.
2. `TerminalPrompt`, with its proofs in `ExecSessionProofs`.
3. `ProfileStore`, `ProfileStoreProofs`.
4. `RunWait`, `ExitCodes`, `RunWaitProofs`: run start, polling, refetch and exit code against a
   moving server.
5. `VariableImport`, `VariableImportProofs`: import, partial failure and re-run,
   retried creates.
6. `SkillMigration`, `SkillMigrationProofs`: the goroutines of one process from start to exit.
7. `Registry`, `RequestTarget`, `ApiRequest`, `ApiRequestProofs`: what a request is sent to, with
   which body; its pages and their limit, its exit code.
8. `Redaction`, `Output`, `CommandRun`, `CommandRunProofs`: the pipeline from raw arguments to exit
   code, with the masking and display of what a command shows.
9. `SchemaSearch`, `SchemaCache`, `SchemaCacheProofs`.

`CommandRun` and `ApiRequest` are two views of `tfctl api`: the first has every
step around the request and the display in full, and the request as one answer;
the second has the target and the request in full. `ExecSession` has the delete
gate in full. Each `MC` module names the instance of the module it extends.

A module's type invariant is `TypeOK`; where the module has a proof it is a
conjunct of the inductive invariant (restated there as `Types`, `Counts` or
`Shapes` where the provers want it otherwise), and it is not listed in the runs.

## Exec sessions and the delete gate (`ExecSession`, `DeleteGrant`)

`ExecSession` has a wrapper per session and a client per delete request. A
wrapper walks through `Store.Create` (create the file, take the shared lock,
write the body), starts its child, and closes (unlock, remove); every step may
fail where the code has an error path, and a kill may come anywhere. A client
walks through `RunAPI`'s delete gate: stat, decode, open, `flock(LOCK_EX|LOCK_NB)`,
unlock, decision, prompt, request. Processes share only the file system, so each
system call is a step. `file` and `shared` are the session file and the
wrapper's `LOCK_SH`; `exclusive` is a probe's momentary `LOCK_EX`; `reason` is
`Decision.Reason`. `began` is history: what the check found as it began.

A session's token is random and handed to the child only, so a client can hold
it only once `issued`. `NormalizeAllowDelete` and `ClassFromPath` are text
handling here: a wrapper has a set of classes, a request has a class or none
(`Registry` has the class of a path).

`DeleteGrant` is the promise of `harness exec` without files and locks: a grant
is open from issue to revert, and an unattended delete needs a check that began
while a grant was open. `ImplementsDeleteGrant` is the refinement (a grant is
open while its file can be found).

* `exec`: one client and two wrappers, so that a client could confuse sessions.
  Safety: `UnattendedDeletesAreBacked`, `DenialsAreFinal`, `NothingLeftBehind`,
  `IssuedSessionIsUsable`; the refinement; and liveness: every check answers, every
  session reverts.
* `exec_false_alive`: with two clients that probe at once `AliveMeansHeld` fails. A killed wrapper's
  file is probed by two clients at once; one meets the other's exclusive lock
  and takes it for the wrapper's. The delete is then authorized although the
  grant has ended.

Fairness: a process that is not killed is scheduled, so the deterministic steps
of wrappers and clients are weakly fair. The child's length, the human and
failures are not.

### Proof (`ExecSessionProofs`)

`Inv` is the inductive invariant: `TypeOK`, `WrapperInv` (what each wrapper
program counter implies of file, lock and issue), `LockInv` (an exclusive lock
belongs to a client between its flock and unlock, and excludes the shared one),
`CheckInv` (what a client past each check knows), `GateInv` (what an outcome
needs) and `GrantInv` (where a granted answer came from). The last is the
point: `UnattendedDeletesAreBacked` is not inductive, since the lock that
justified an answer may be long gone; `GrantInv` keeps the evidence (`FoundDead`)
and `FoundDeadStable` shows that no step destroys it. `Refinement` shows each
step of `ExecSession` to be a step of `DeleteGrant` or a stutter, by
`WrapperSim`, `ClientSim` and `BeginSim`. `LoneClient` says that the false-alive
answer needs a second client. All hold for any sets of wrappers, clients and
classes, so for the second client that the run leaves out. Liveness stays with
TLC.

## Prompts (`TerminalPrompt`)

The three goroutines of login's two prompts, with the terminal's echo flag and
input queue. The named results of `PromptConfirm` are shared between its
goroutine and its caller, without a lock, so each write is a step. `ReadPassword`
of `golang.org/x/term` is external: keep the state, echo off, read, put it back.
At most one line waits in the input queue; a hang-up is a line that stays.

* `prompt`: all interleavings, one signal. A yes is typed (`ProceedsOnlyOnYes`);
  a typed secret is handed out with the echo on, and the echo stays off for one
  reason only, a signal before the reader had turned it off (`EchoComesBack`); a
  signal ends both prompts, a line ends the second. Goroutines are weakly fair,
  the human, the signal and the rest of the command are not.
* `prompt_echo`: a signal that arrives before the reader's echo-off leaves the
  terminal silent at exit, against the comment at `io.go:194`.

The model has one signal: realMain's goroutine consumes only the first.

### Proof (the last part of `ExecSessionProofs`)

`OnlyYesProceeds` and `EchoReturns`, for any capacity of `ReadSecret`'s channel.
`ConfirmInv` says that a yes is the last thing the asking goroutine reads and that
its caller passes the select without an error only after it; `EchoInv` that only
the reader turns the echo off, between two of its steps, and that what reader and
watcher keep to put back has the echo on; `ChannelInv` that a typed line is sent
only after the reader has put the echo back.

## Profile store (`ProfileStore`)

The configuration directory is two variables: `active` is `active_profile.hcl`,
`profile` the files below `profiles/`. Every process runs one command after
another. `Start` to `LoadProfile` is `loadActiveProfile`, with the first run that
creates both files; `LoadFlagged` is `--profile`; `Update` is a change in memory
that `Truncate` and `Fill` write back; `List`, `Reread`, `Prompt` and `Remove` are
the steps that create, activate, delete and rename share. `os.WriteFile` is two
steps, so a file can be read, activated or lost between them; when two processes
write one file the result may be one of their texts or a mixture, which is
assumed not to decode. A failed write leaves what a kill leaves.

Of a profile the hostname and the token are kept, and a token is told apart only
by the host that has accepted it: default organization, environment and device id
are left out. A login stores its token once the host of the profile in memory has
accepted it. `profile set token VALUE` stores whatever it is given (`Typed`), beside
any hostname and without a look at it (`set.go:149` checks hostname and organization
only): of such a token nothing is claimed.

* `store`: two processes, two names, two hosts, all commands. `NextRunStarts`
  names the four places where a kill leaves a configuration that no later process
  can load (`harmed` records them) and shows that there is no fifth, unless two
  commands were at work at once (`overlap`); first runs may be. `RemovalIsSafe`,
  under the same condition: what rename removes has been copied, what delete
  removes is not active. (A profile that another process activates while its
  deletion waits for the confirmation is deleted.) Whole-profile write-back loses
  updates (login against set), but by `TokenMatchesHost` a token that a login has
  stored never stands beside another hostname, whatever overlaps. The run does not
  go on from a state where a kill has done harm and two commands have overlapped
  (`OneExcuse`): two of the properties claim nothing of what follows, and the third
  is proved.
* `store_unset`: `profile unset hostname` keeps the token that a login has stored for
  the old host, which a profile without a hostname then sends to the default one.

One process is part of these behaviours: the other need not start.
There is no liveness here: each command is a straight line, and nothing waits.

### Proof (`ProfileStoreProofs`)

`TokensStayHome` proves `TokenMatchesHost` for any number of processes, names,
hosts and commands; `TokensStayHomeByDefault` adds the profiles without a
hostname, from the assumption that `unset-hostname` is not given. `Inv` adds to
`TypeOK` that the pairs in memory match too, and those in damaged files: a write
copies memory to a file and a load copies a file to memory, so neither set alone
is preserved.

`NextProcessStarts` and `RemovalsAreSafe` prove the other two, with kills
anywhere. What they rest on is `StartInv`, which adds:

* `Place`: which command a process can be at which step of, and with what;
* `Together`: until two commands overlap, only first runs are at work together,
  and they fill the same files with the same;
* `Keeps`: what a process at work has found or done stays so;
* `Profiles`, `Pointer`, `Activated`: a profile is whole or somebody fills it, the
  active one exists or somebody makes it so. Those who owe it (`Owes`) are exactly
  the places where `Kill` does harm.

Each step that writes a file has a lemma of its own; those that do not share
`QuietStep`.

## Runs (`RunWait`, `ExitCodes`)

One `run start` or `run status` against the run it is about. `pc` is the request
in flight: `workspace` and `post` are `runStart`, `poll` and `sleep` are
`PollRunUntilTerminated`, `summary` to `apply` the requests of `NewRunSummary`, of
which each is made only where an earlier answer calls for it, `log` is `FetchLog`
and `url` is `resolveRunURL` with the display and the exit code. `outcome`,
`summary` and `exit` are the code's `RunOutcome`, `RunSummary` and exit code.

The server is external: the run moves through its statuses between any two
requests, and whatever made it fail (`cause`) decides which of plan, checks,
stages and apply have something to show. The POST that creates a run is the one
request that is not idempotent: the server may have acted on it (`handled`)
although its answer was 429 or 5xx, after which `retryablehttp` posts again, or
although the connection failed, which ends the command. Retries of the GETs change
nothing and are left out.

A signal cancels the context and a deadline expires it; a request then fails
with the context's error or with its cause, whichever the HTTP client returns
(the test at `run_start_test.go:541` allows for both), and only the first is
told apart by `errorToExitCode`. `ExitCodes` is that function: an error is the
set of kinds found in its chain, and the first kind of the list decides.

* `run_wait`: all options, one retry. The exit code of a wait was true of the run
  at some time (`ExitIsEarned`), and of what is displayed if the run had come to
  rest (`FinalStatusSetsExit`); the evidence displayed belongs to the phase
  reported; a second run is created only if an answer to the first POST was lost.
  A signal or the deadline ends the command wherever it is, but for the download
  of a log, which takes no context; a wait ends when the run does, if the server
  answers.

What is displayed is fetched anew after the poll, so a wait that was satisfied
by a run awaiting confirmation can display one that has since failed, and exit
0, where `run_start.go:115` says "Exits non-zero if the run fails". That is why
`FinalStatusSetsExit` speaks of a run at rest only.

One retry shows all that a retry can do to the counts; the depth of the run's
life is its statuses and is not bounded. Fairness: the command's own steps
(`Own`) are weakly fair; that the server answers in the end is a premise of
the second half of `CommandEnds` only. Moves of the run, the signal and the
deadline are not fair.

### Proof (`RunWaitProofs`)

The four safety properties, for any number of retries. Neither `exit` nor
`outcome` says what the run has been, so `Inv` adds, to the types (`Counts` and
`Shapes`, apart because they need different provers): `CountInv` (no more runs
than attempts), `PostInv` (a run exists only after its POST, and a second one only
after a lost answer), `PathInv` (which options lead where), `PastInv` (what an
outcome that the poll found says of the statuses the run has been in), `RestInv`
(a poll that found the run at rest finds it there ever after), `ExitInv` and
`PhaseInv` (what exit code and evidence need).

## Variable import (`VariableImport`)

Importers (`variable import` with or without `--overwrite` and `--dry-run`) and
the people who delete a variable, against one target's variables. An importer
lists what exists (`existing`), then goes through its entries, creating or
updating each, and ends with success, a refusal or a failure. Between the listing
and a write others may have written. The server is external: it refuses a second
variable of the same key, and an update of what is gone; it may have acted on a
request whose answer is lost. The listing is one page (the code asks for no
second one), so a key beyond it is not seen. Nor is a variable set that the first
page of the search for its name leaves out: `Resolve` then goes on to create it, and
the server refuses.

* `import`: two importers into one variable set, import after import, of two
  variables or of the same one twice. What a result says about what was done:
  success means that every variable was written, a refusal that none was, a dry
  run writes nothing, nothing is overwritten without `--overwrite`. With it, the
  server still refuses a variable that is given twice, and a variable or a set that
  another import has created meanwhile, that is beyond the page, or that the import
  itself has created when the answer got lost (`upset`), for no other reason.

Two keys are enough for one entry to fail after another has succeeded, two
entries for a key to be given twice, a page of one for a key not to be seen; one
retry is enough to meet one's own variable. Nothing waits, so there is no
liveness. A dry run takes every failure to find the variable set for a missing
set (`ResolveFails`).

### Proof (`VariableImportProofs`)

For any importers, keys, values and lists. `Inv` is `Types`, `Checked` (an
importer that writes has passed the check of its listing, or may overwrite),
`Written` (the entries before its place are written) and `Dry`. `ResultsAreTrue` and
`OverwriteIsAsked` follow: none of the properties is inductive alone, since an
outcome says nothing of how far the importer had got. `StepElsewhere` says that a
step leaves the other importers' part of `Inv` alone, `StepOwn` that it preserves
its own.

`RefusalsHaveCause` proves `RefusedForCause` from `CauseInv`, which adds `Cause`: an
import that nobody has upset comes to create the variable set only while there is
none, and what the server has beyond its listing is what it has written itself.
`StepUpsets` shows that a step that changes what
others at work rely on tells them so; `CauseOwn` and `CauseStep` do the rest.

## Skills and the process's life (`SkillMigration`)

A process from `realMain` to its exit. `main` is its main goroutine, `mig` the
goroutine of `StartMigration` with the paths it has left (`todo`) and the one it
works on (`at`); both end when the process does. `link` and `skill` are the files:
a path may be a link to another, which the migration resolves and replaces at
the target, while `harness install` replaces whatever is at the path itself.
`installSkillToPath` is two steps, a temporary file (`temp`) and its rename. That
the migration recognizes a skill by the hash of an earlier release is `Release[p]`
and an order; the agents' paths come in the order of their names, which is left
open. `Change` and `Relink` are the others: users, version control, other tfctl
processes. `excused` records what they have changed since a process looked at it.

An early return of `realMain` waits for nothing (`LoadFails`); every other path
waits for the migration or the context (`Exit`). Telemetry's shutdown takes a
second at most and is not told apart here (`CommandRun` has it).

* `skills`: what is migrated was the skill of an earlier release and links
  survive, unless others came between the look and the rename (a window the
  code leaves open); a process that has waited leaves no earlier skill behind;
  a temporary file stays only if a process was cut off. A signal ends the
  process however long the migration takes, but for `version`, which waits for
  checkpoint without a context.

Three releases are an earlier one, a later one and the process's own; two paths
are enough for a link. One process is enough because all that others do to it
goes through the files. The main goroutine is weakly fair (`Proceed`); that the
migration is scheduled is a premise of the second half of `ProcessEnds` only.

### Proof (`SkillMigrationProofs`)

For any processes, releases and paths. `LinkInv` (a link leads to a file),
`PlaceInv` (the goroutine's path goes with its place, and it ends with its
process) and `TempInv` are about one state; `ResolvedInv` and `RecognizedInv` keep
what was true of the file when it was looked at, unless it is excused; `CoverInv`
is the loop's invariant: a file that is no link is still to be visited, is being
looked at, is not of an earlier release, or is excused. `OwnRename` has the step
that all three theorems turn on.

## Targets and requests (`Registry`, `RequestTarget`, `ApiRequest`)

`Registry` is the table of `resource/registry.go` with its lookups
(`ByNameOrAlias`, `ByIDPrefix`, `TypeFromPathSegment`, `ClassFromPath`); the table
itself is a parameter.
`RequestTarget` is what a command line comes to: the paths that `get` and `create`
make of an alias, a name or an id, the placeholders that `api` fills from `-p`,
the profile and the cloud block of the directory, the lookups of names on the
server, and the body, whose relationship types come from the API description.

`ApiRequest` is one such command. `Locate`, `Fill`, `Resolve` and `Build` are the
steps up to the delete gate (`Gate`, which `ExecSession` has in full) and the dry
run; then comes the request, the loop of `paginateResponse`, and the display.
`combined` and `next` are the loop's variables; `shown` is what got to stdout.
What the URL answers with is an option: a list, one object, nothing (204), or a
raw body that is JSON or not. The server is external: it sends pages by number,
new records come first, and records may be inserted and removed while there are
pages to come. A mutation that is answered 429 or 5xx is sent again, whether it
was done or not. Exit codes are those of `ExitCodes`.

* `api`: five registry entries (with and without prefix, list path, resolver; one
  whose path holds an organization), two organizations that both have a workspace
  `app` and a team `ops`, profiles, cloud blocks and given names in all
  combinations; pages of two, a limit of five, collections of up to six.
  `RequestIsAsNamed`: no placeholder is left in a path, one that is filled in stands
  for what `-p` or the surroundings give, a name becomes the id it has in the
  organization that the path's placeholders or else the surroundings name, the class
  that a delete is checked under is the type of the id it is sent to unless `--type`
  gives one, and the body
  has the relationships asked for, with a type that was given or that the
  description allows. `--all` is complete and in order, up to the limit, if the
  collection stands still (`AllIsComplete` says what may go wrong otherwise); a
  failing page drops the others; a mutation that exits 0 was done, once unless an
  answer got lost (`ActsAsAsked`). A signal ends the command, and so does the end
  of the pages.

The limit falls within the third page, so that pages are whole, cut and left out.
What `RequestIsAsNamed` exempts is the code's. `get sq-...` leaves the
organization in the path as a placeholder. A last segment in `s` is taken for a
type. The profile's organization and the cloud block's workspace are combined
without asking whether they belong together. A name that begins like an id is
taken for one, a configured workspace included. An organization that is written out
in the path is not the one in which the path's names are looked up
(`/organizations/umbrella/teams/{team}` asks for the profile's team of that name).
The class of a delete is the type of its id only where the path has the id in its
place, after the collection of its kind. `--type` is taken at its word for the class
as well (`api.go:505`, `DeleteClass`): a delete of one type is then granted as another,
although `harness_exec.go:61` speaks of types that are explicitly named. The API's list of names is read to its
first page. `--all` on an answer without a body, as of a deletion, fails after the
deletion is done: `ActsAsAsked` exempts it. A raw body that breaks off is displayed
in part and the command exits 0 (`ShowRaw`). A mutation may be answered with a list
as well, and `--all` then pages through it.

Fairness is that of `RunWait`: the command's own steps are weakly fair, the server's
answers are a premise of the second half of `RequestEnds`.

### Proof (`ApiRequestProofs`)

For any registry, command lines, profiles, configurations, directories and API
descriptions, any records, page size, limit and number of retries. What is assumed of
them is in `ResourcesAssumption` (a prefix, or a place in a path, belongs to one
resource: true of the registry's 59 entries), `TemplatesAssumption` (the registry's
paths have no placeholders but `{organization_name}` and `{id}`),
`ConstantsAssumption` and `CasesAssumption` (no word, and no organization around the
command, is itself a placeholder; a path is below one organization at most, as the
code would otherwise choose by the order of a map).

* `RequestsAreDone` proves `ActsAsAsked`. `SentInv` adds what an exit code alone does
  not say: nothing is done before the gate, what is paged through or displayed was
  handled, a second act needs a lost answer, and there are no more acts than attempts.
* `ListsAreComplete` proves `AllIsComplete`. `PageInv` is the loop's invariant,
  `Between`: as long as nothing was removed, every record of the first collection is
  received or behind the pages that were; as long as nothing was inserted, nothing
  that was received is behind them. A removal shifts records only forward and an
  insertion only backward, so each of the two survives the change that breaks the
  other. `MorePages` takes one page (`Received`, `NoneMissed`, `NoneTwice`), which ends
  in `Between` again or in `Complete`.
* `RequestsGoWhereNamed` proves `RequestIsAsNamed`. Of the state it needs `TargetInv`
  only: a placeholder's value is what was named until it is looked up and its id
  afterwards (`Looked`), whatever the order of the lookups. The rest is about the
  functions that make path, class and body: `LocatedPath`, `FilledIn`,
  `NamesOfTheirOrganization`, `ClassOfItsPlace`, `AcceptedRelationships`.

Preparing the last one refuted the property as it stood, which had the names looked
up in the organization of the path however it got there; TLC agreed once the second
organization had a team of the same name. The exemptions for the organization that
is written out and for the configured workspace that looks like an id come from
there.

## Command pipeline (`CommandRun`), redaction and output (`Redaction`, `Output`)

`Redaction` is the mask. A document is a function from paths to scalars, and a
leaf is hidden if one of its prefixes is, which makes the recursive walk of
`redact.go` a quantifier. It has both views: the envelope that `--json` and jq
show and the flattened rows that tables and Markdown show, whose rules differ.
`Output` is the Outputter: it masks both views, renders the one asked for, and
reports once what was hidden, three fields by name and the others by their number
(`Named` leaves their order free); raw bodies and dry-run requests are masked by rules
of their own. `CommandRun` is one process from raw arguments to exit code, with
one step per stage: the prescan of `realMain`, the load of the profile, the
dispatch, parsing, global flags, telemetry, authentication, argument checks,
`RunF` and `shutdownMain`; beside it run the migration, the version check and a
signal. A command line is a sequence of tokens; the documents, the environment
and the profiles are parameters.

* `command`: every command line of two tokens, and longer ones of the commands
  whose flags interact; six environments and profiles; eight documents (a secret
  directly under the attributes, in a nested object beside more fields than a notice
  names, below a sensitive name, in a
  variable that declares itself sensitive, in one whose declaration a relationship
  overwrites in the row, in a collection, in a value's text, none). `RunsWithCredentials`, `MaskingOffWasAsked` and `DryRunStartsNoMigration`
  relate what a command runs with to what was given, which is parsed twice, once
  by the prescan and once by the flags. `HiddenStaysHidden`: a leaf that the mode
  hides is shown by no view, filter or raw copy; `HiddenIsReported`: of what was
  hidden the user is told, by name or, beyond `MaxReportedRedactions`, by number.
  `ShutdownIsComplete` and `CommandReturns`: what was
  started is waited for, and the process ends.

The exceptions the properties name are the code's. A row shows an attribute of
a nested object that the document hides (the name that decides is the last
segment of the row's column, where the document's walk stops at the outermost
key), although the comment at `output.go:358` has the two agree. Nor is an
attribute hidden in a row that the document hides because of the attributes beside
it (`sensitive`, `key`, `name`) when a relationship of that name has taken their
column. The body of a dry
run is printed as it is when every field masked in it is named like one already
masked in the headers. A single argument that reads like a version flag passes
without a token (`api version`). `--dry-run=1` is a dry run to the flag parser
but not to the prescan, so the migration starts.

Two tokens reach every stage and every pair of flag and command; the longer lines
have a flag after `--`, a flag given twice and two flags of the display. Fairness:
the main goroutine is scheduled (`Main`), and the migration and the version check
end (`MigrationEnds`, `CheckpointEnds`): the one is a loop over files, and the other's
request is taken to be answered. Only `version` waits for the second, and
`SkillMigration` shows what becomes of it otherwise.

### Proof (`CommandRunProofs`)

For any command lines, environments, profiles and documents. `StageInv` is what a
stage has established and later ones rely on (the flag that was read is the flag
that was given; the profile is the selected one; past authentication there is a
token or no need of one), `RedactorInv` that displaying adds to the masked fields
and leaves the mode alone, `ShutdownInv` what the span and the migration are at
each stage of the shutdown. `RunsWithCredentials` and `MaskingOffWasAsked` speak
of the end and `StageInv` of every stage before it, which makes it inductive.

`DryRunsMigrateNothing` proves `DryRunStartsNoMigration` from `LineInv`: what is
left of the line after the command's name are words of the line, so a flag that
was parsed stands in it and the prescan, which reads the whole of it, has seen it.
That a token survives the functions that drop others (`WithoutDrops`) is an
induction over the sequence.

`NothingHiddenSilently` and `NothingHiddenIsShown` prove `HiddenIsReported` and
`HiddenStaysHidden` for any documents that are finite trees (`IsTree`). `ViewInv`
adds to the two that until `RunF` displays it nothing has been masked, shown or
reported, so that what a display masks for the first time is new to the report.
Most of the
proof is about the two masks: `FlatIsMaskedAlike` shows that an attribute directly
under `attributes` is hidden in the row whenever it is hidden in the document. The
attempt to prove it without the exception for relationships failed, for a reason
that TLC confirmed with one more document (`overwritten`).

## Schema cache and search (`SchemaCache`, `SchemaSearch`)

`SchemaCache` is the document that `api schema` works with: `Look` at the cached
file, ask the host with `If-Modified-Since`, `Write` data and then its time, or
fall back to what is embedded in the binary; then `search` or `get`. Processes
share the file without a lock, the data is written before the time
(`os.WriteFile`, two steps, then `os.Chtimes`), each may be killed or fail, and
the host may publish another document at any moment. `SchemaSearch` is what is
kept of a search's results and in which order; the full-text index is external, a
set of possible retrievals with scores.

* `schema`: two processes, three documents (one embedded, two published), three
  operations, schemas that refer to each other in a circle. `ServesCurrent`: a
  load that is not disturbed by failure, kill or another load serves what the host
  had published when it answered. `AnswersAreWhole`: a document that `get` prints
  has every schema its operations need and no other, and a search that retrieved
  something prints something, the best of it included. `LoadsEnd`: every command
  answers.

What `ServesCurrent` exempts can happen: data whose time was not set (a kill
between the two calls, another process between them, an answer without
`Last-Modified`) has the time at which it was written, newer than its document's,
and is served as current until the host publishes again. An answer that is no
document, a login page say, is stored like one, under the time it came with: this
load and those after it, which are told that nothing has changed, serve the embedded
document until the host publishes something later. A file that cannot be read has
them fall back too (`ReadFails`). Two published documents
are enough for the one in the file to be old. Processes are weakly fair, and a
request ends after three seconds at most.

`SchemaSearch` gives results by their rank and a query's words by their places,
and the schemas of a printed document are stated as the least set that contains
the operations' own and is closed under references; `Collect` is the code's
worklist.

### Proof (`SchemaCacheProofs`)

`CurrentIsServed`, for any processes and number of documents. `FileInv` says that
the file is absent or holds a document under its own time, while no one
disturbs it; `AloneInv` and `StampInv` what a load that is alone may rely on of
what it has read; `OwnInv` and `CurrentInv` carry that from the look to the answer.

`AnswersHaveAll` proves `AnswersAreWhole` for any operations, references, queries
and scores (`SearchAssumption`: they are finite in number, and a limit is not
zero). `AnswerInv` is the worklist's invariant: what is collected or
on the list is needed, and what the collected schemas refer to is collected or on
the list, so that with an empty list the collected ones are closed. `SearchIsWhole`
needs that a finite set of results has a best one (`Least`).

## What is proved, what is only checked

The theorems listed with each module hold for every value of its constants, from
the assumptions the module names (`ConstantsAssumption` and the like: that names,
hosts or markers are distinct, that bounds are natural numbers). TLC evaluates
these assumptions in every run.

Only model-checked:

* liveness (`ChecksTerminate`, `SessionReverts`, `PromptsEnd`, `CommandEnds`,
  `ProcessEnds`, `RequestEnds`, `CommandReturns`, `LoadsEnd`), which is out of the
  prover's reach.

`AliveMeansHeld` does not hold; `LoneClient` proves what is left of it with a single
client.

The library's induction theorems take an operator as a parameter, which the provers
cannot instantiate. Where a proof needs induction it argues by the least
counterexample, which the library states of sets (`WFMin`,
`NatLessThanWellFounded`): `Least` and `Induction` in `CommandRunProofs`,
`SchemaCacheProofs` and `ApiRequestProofs`. What the modules with theorems compute over sequences is
written with recursive functions, index sets or least closed sets for that reason.

## What is not modelled

* Flag values, tables, heredoc and the generators of documentation format and
  parse text and keep no state.
* Wording, layout, colours, completion, help texts and suggestions; parsing of
  tfvars files and logs; git remotes; Windows' lock and console calls, which have
  the contract of the Unix ones.
* The device id file: two first runs may both create it, and a kill between its
  creation and its text leaves it empty for good. It is sent with telemetry only.
* Which of the environment's tokens belongs to which host; the token is taken to
  be there or not.
* URLs, query parameters, headers beyond their masking, the logging and telemetry
  transports.
* Of attribute names the filter on their characters, of headers the rule on the
  shape of their values; resource names are in lower case; a child that a signal
  kills exits like any other.
* The server beyond the answers that the code tells apart.

A part that a component leaves out is named in its note in `PROJECT.json`.

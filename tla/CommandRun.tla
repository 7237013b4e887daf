------------------------------ MODULE CommandRun ------------------------------
(***************************************************************************)
(* One process of the CLI from its raw arguments to its exit code:          *)
(* realMain scans the arguments and starts the skill migration and the      *)
(* version check, github.com/hashicorp/cli picks the command, Command.Run   *)
(* parses, prepares, authenticates and validates, RunF displays through the *)
(* Outputter, and shutdownMain waits for the migration and ends the         *)
(* telemetry span.                                                         *)
(*                                                                         *)
(*   src/cmd/tfctl/main.go, src/internal/pkg/cmd, src/internal/pkg/telemetry *)
(***************************************************************************)
EXTENDS Output, ExitCodes, SequencesExt

CONSTANTS
    Lines,    \* command lines: sequences of tokens, after the program's name
    Setups,   \* environments: variables and profiles
    Headers   \* names a user may give with --header

ASSUME LinesAssumption == Lines \subseteq Seq(STRING) /\ IsFiniteSet(Headers)

VARIABLES
    line, setup,   \* the arguments; the environment and the profiles
    pc,
    rest,          \* the arguments after the command's name
    command,       \* the command dispatched to, or "none"
    flags,         \* what parsing the flags set
    profile,       \* inv.Profile
    quiet,         \* the IO streams' quiet
    migration, checkpoint,   \* the two goroutines: "off", "running", "done"
    telemetry,     \* mode, span: "none", "open", "ended"; status: the span's
    interrupted,   \* SIGINT or SIGTERM has cancelled the context
    exit,          \* the status, or Running
    outcome        \* of RunF: "not run", "running", or how it ended

own == <<pc, rest, command, flags, profile, quiet, migration, checkpoint,
         telemetry, interrupted, exit, outcome>>
vars == <<line, setup, own, outVars>>

Running == -1

(***************************************************************************)
(* The commands, by how the pipeline treats them.  A nested command such as *)
(* "harness exec" is one token.                                            *)
(***************************************************************************)
Commands == {"api", "exec", "rename", "version", "auth"}
Group == {"auth"}                             \* no RunF: its help is shown
NoAuthRequired == {"exec", "rename", "version"}
SkipInputValidation == {"exec"}
LocalFlags == [c \in Commands |-> IF c = "rename" THEN {"--new-name"} ELSE {}]
RequiredFlags == LocalFlags

DryRunFlags == {"--dry-run", "--dry-run=1", "--dry-run=false"}
QuietFlags == {"--quiet", "--quiet=false"}
JQFlags == {"--jq=.", "--jq=(", "--jq=error"}
GlobalFlags == DryRunFlags \cup QuietFlags \cup JQFlags \cup
    {"--json", "--markdown", "--no-redact", "--profile=other", "--debug"}
VersionFlags == {"--version"}
HelpFlags == {"--help"}
FlagTokens == GlobalFlags \cup VersionFlags \cup HelpFlags \cup
    {"--", "--bogus", "--new-name"}
ControlWords == {"ctl"}   \* contain a control character or invalid UTF-8

IsFlag(token) == token \in FlagTokens

\* What the flag parser reads as flags ends at "--".
BeforeDashes(tokens) ==
    IF \E i \in DOMAIN tokens : tokens[i] = "--"
    THEN SubSeq(tokens, 1, (CHOOSE i \in DOMAIN tokens :
            tokens[i] = "--" /\ \A j \in 1..(i - 1) : tokens[j] # "--") - 1)
    ELSE tokens

\* The tokens that are not in drop, in their order.
Without(tokens, drop) ==
    LET kept[n \in 0..Len(tokens)] ==
            IF n = 0 THEN <<>>
            ELSE IF tokens[n] \in drop THEN kept[n - 1] ELSE Append(kept[n - 1], tokens[n])
    IN  kept[Len(tokens)]

Positionals(tokens) ==
    Without(BeforeDashes(tokens), FlagTokens)
    \o SubSeq(tokens, Len(BeforeDashes(tokens)) + 2, Len(tokens))

Given(tokens) == {t \in ToSet(BeforeDashes(tokens)) : IsFlag(t)}

\* The last of a family of spellings that is given, or "none".
LastOf(tokens, family) ==
    LET those == {i \in DOMAIN BeforeDashes(tokens) : tokens[i] \in family}
    IN  IF those = {} THEN "none" ELSE tokens[Max(those)]

NoFlags == [dryRun |-> FALSE, quiet |-> FALSE, jq |-> "none", json |-> FALSE,
            markdown |-> FALSE, noRedact |-> FALSE, other |-> FALSE]

Init ==
    /\ line \in Lines /\ setup \in Setups
    /\ pc = "start" /\ rest = <<>> /\ command = "none" /\ flags = NoFlags
    /\ profile = setup.active /\ quiet = FALSE
    /\ migration = "off" /\ checkpoint = "off"
    /\ telemetry = [mode |-> "disabled", span |-> "none", status |-> Running]
    /\ interrupted = FALSE /\ exit = Running /\ outcome = "not run"
    /\ OutInit

-----------------------------------------------------------------------------
(***************************************************************************)
(* realMain.                                                               *)
(***************************************************************************)

\* Mutant: only the first argument is scanned for --dry-run.
PrescanFirstOnly ==
    /\ pc = "start" /\ pc' = "load"
    /\ quiet' = ("--quiet" \in ToSet(line))
    /\ checkpoint' = "running"
    /\ migration' = IF (line # <<>> /\ line[1] = "--dry-run") \/ setup.skipMigrate
                    THEN "off" ELSE "running"
    /\ UNCHANGED <<line, setup, interrupted, rest, command, flags, profile,
                   telemetry, exit, outcome, outVars>>

\* Mutant: a quiet process does not check for a new version.
PrescanQuietChecksNothing ==
    /\ pc = "start" /\ pc' = "load"
    /\ quiet' = ("--quiet" \in ToSet(line))
    /\ checkpoint' = IF quiet' THEN "off" ELSE "running"
    /\ migration' = IF "--dry-run" \in ToSet(line) \/ setup.skipMigrate
                    THEN "off" ELSE "running"
    /\ UNCHANGED <<line, setup, interrupted, rest, command, flags, profile,
                   telemetry, exit, outcome, outVars>>

\* The raw arguments are scanned for the global flags in their bare form
\* (isGlobalBooleanArg), wherever they stand.  The version check always starts.
Prescan ==
    /\ pc = "start" /\ pc' = "load"
    /\ quiet' = ("--quiet" \in ToSet(line))
    /\ checkpoint' = "running"
    /\ migration' = IF "--dry-run" \in ToSet(line) \/ setup.skipMigrate
                    THEN "off" ELSE "running"
    /\ UNCHANGED <<line, setup, interrupted, rest, command, flags, profile,
                   telemetry, exit, outcome, outVars>>

\* A profile that cannot be loaded ends the process at once: nobody waits for
\* the migration.
LoadFails ==
    /\ pc = "load" /\ ~setup.readable
    /\ pc' = "exited" /\ exit' = 1
    /\ UNCHANGED <<line, setup, interrupted, rest, command, flags, profile,
                   quiet, migration, checkpoint, telemetry, outcome,
                   outVars>>

\* telemetry.Init resolves the mode from the environment and the active
\* profile; an exporter that cannot be set up disables it.
TelemetryMode ==
    IF setup.doNotTrack THEN "disabled" ELSE setup.active.telemetry

Load ==
    /\ pc = "load" /\ setup.readable /\ pc' = "dispatch"
    /\ \E mode \in {TelemetryMode, "disabled"} :
         telemetry' = [telemetry EXCEPT !.mode = mode]
    /\ UNCHANGED <<line, setup, interrupted, rest, command, flags, profile,
                   quiet, migration, checkpoint, exit, outcome, outVars>>

\* isVersion: no argument at all, a version flag before any word, or nothing
\* but the flags a bare invocation may carry.
BareFlags == {"--debug", "--quiet"}
IsVersion(tokens) ==
    \/ \E i \in DOMAIN tokens : /\ tokens[i] \in VersionFlags
                                /\ \A j \in 1..(i - 1) : IsFlag(tokens[j])
    \/ ToSet(tokens) \subseteq BareFlags

Arguments ==
    IF IsVersion(line)
    THEN <<"version">> \o Without(line, VersionFlags)
    ELSE line

\* github.com/hashicorp/cli, as main.go relies on it: the first word is the
\* command, help flags are looked for up to "--", and a flag before the
\* command is refused.
Words == Without(BeforeDashes(Arguments), FlagTokens)
WantsHelp == ToSet(BeforeDashes(Arguments)) \cap HelpFlags # {}
Position == CHOOSE i \in DOMAIN Arguments :
              /\ ~IsFlag(Arguments[i])
              /\ \A j \in 1..(i - 1) : IsFlag(Arguments[j])
FlagsFirst == \E j \in 1..(Position - 1) : Arguments[j] \notin HelpFlags

Unknown == Words # <<>> /\ Words[1] \notin Commands

Dispatch ==
    /\ pc = "dispatch"
    /\ IF \/ Words = <<>> \/ Unknown
          \/ WantsHelp \/ FlagsFirst
          \/ Words[1] \in Group
       THEN /\ pc' = "shutdown"
            /\ exit' = IF Words = <<>> THEN IF WantsHelp THEN 0 ELSE 127
                       ELSE IF Unknown THEN 127
                       ELSE IF WantsHelp THEN 0
                       ELSE 1   \* flags first, or RunResultHelp
            /\ UNCHANGED <<rest, command>>
       ELSE /\ pc' = "parse" /\ exit' = exit
            /\ command' = Words[1]
            /\ rest' = SubSeq(Arguments, Position + 1, Len(Arguments))
    /\ UNCHANGED <<line, setup, interrupted, flags, profile, quiet,
                   migration, checkpoint, telemetry, outcome, outVars>>

-----------------------------------------------------------------------------
(***************************************************************************)
(* Command.Run: every check that fails ends the command with exit code 1.   *)
(***************************************************************************)
Refuse == /\ pc' = "shutdown" /\ exit' = 1

ParseFlags ==
    /\ pc = "parse"
    /\ flags' = [dryRun |-> LastOf(rest, DryRunFlags) \in {"--dry-run", "--dry-run=1"},
                 quiet |-> LastOf(rest, QuietFlags) = "--quiet",
                 jq |-> LastOf(rest, JQFlags),
                 json |-> "--json" \in Given(rest),
                 markdown |-> "--markdown" \in Given(rest),
                 noRedact |-> "--no-redact" \in Given(rest),
                 other |-> "--profile=other" \in Given(rest)]
    /\ IF \/ ~(Given(rest) \subseteq GlobalFlags \cup VersionFlags \cup LocalFlags[command])
          \/ ~(RequiredFlags[command] \subseteq Given(rest))
       THEN Refuse
       ELSE pc' = "prerun" /\ exit' = exit
    /\ UNCHANGED <<line, setup, interrupted, rest, command, profile, quiet,
                   migration, checkpoint, telemetry, outcome, outVars>>

\* redact.ResolveMode and applyRedaction: the flag, then the variable, then the
\* profile; a setting that cannot be parsed falls back to strict.

\* Mutant: a setting that cannot be parsed masks nothing.
ParseModeLenient(setting) == IF setting \in Modes THEN setting ELSE "off"

ParseMode(setting) == IF setting \in Modes THEN setting ELSE "strict"
ResolveMode(p) ==
    IF flags.noRedact THEN "off"
    ELSE IF setup.redactVar # "" THEN ParseMode(setup.redactVar)
    ELSE IF p.redact # "" THEN ParseMode(p.redact)
    ELSE "strict"

FormatsClash == flags.markdown /\ (flags.json \/ flags.jq # "none")
Selected == IF flags.other THEN setup.other ELSE setup.active

\* applyGlobalFlags.  Quiet is only ever switched on.
ApplyGlobalFlags ==
    /\ pc = "prerun"
    /\ profile' = IF flags.other /\ setup.otherExists THEN setup.other ELSE profile
    /\ IF (flags.other /\ ~setup.otherExists) \/ FormatsClash
       THEN Refuse /\ UNCHANGED <<quiet, redactor, forced, jq>>
       ELSE /\ pc' = "telemetry" /\ exit' = exit
            /\ forced' = IF flags.json \/ flags.jq # "none" THEN "json"
                         ELSE IF flags.markdown THEN "markdown" ELSE forced
            /\ jq' = CASE flags.jq = "--jq=(" -> "bad"
                       [] flags.jq = "--jq=error" -> "stops"
                       [] flags.jq = "--jq=." -> "."
                       [] OTHER -> "none"
            /\ redactor' = [mode |-> ResolveMode(profile'), masked |-> {}]
            /\ quiet' = (quiet \/ flags.quiet)
    /\ UNCHANGED <<line, setup, interrupted, rest, command, flags, migration,
                   checkpoint, telemetry, outcome, reported, shown, notice>>

\* The span starts before the command is authenticated.
StartCommand ==
    /\ pc = "telemetry" /\ pc' = "auth"
    /\ telemetry' = IF telemetry.mode = "disabled" THEN telemetry
                    ELSE [telemetry EXCEPT !.span = "open"]
    /\ UNCHANGED <<line, setup, interrupted, rest, command, flags, profile,
                   quiet, migration, checkpoint, exit, outcome, outVars>>

\* isAuthenticated and isTopLevelCmd: a command whose only argument is one of
\* the version words is let through without a token.
TopLevelWords == {"version", "-v", "--version", "-version", "-h", "--help"}
IsTopLevelCmd(args) == Len(args) = 1 /\ args[1] \in TopLevelWords
HasToken(p) == p.token \/ setup.envToken

\* Mutant: the token of the active profile counts, not that of --profile.
IsAuthenticatedByActive ==
    /\ pc = "auth"
    /\ IF \/ IsTopLevelCmd(Positionals(rest))
          \/ command \in NoAuthRequired
          \/ HasToken(setup.active)
       THEN pc' = "arguments" /\ exit' = exit
       ELSE Refuse
    /\ UNCHANGED <<line, setup, interrupted, rest, command, flags, profile,
                   quiet, migration, checkpoint, telemetry, outcome,
                   outVars>>

IsAuthenticated ==
    /\ pc = "auth"
    /\ IF \/ IsTopLevelCmd(Positionals(rest))
          \/ command \in NoAuthRequired
          \/ HasToken(profile)
       THEN pc' = "arguments" /\ exit' = exit
       ELSE Refuse
    /\ UNCHANGED <<line, setup, interrupted, rest, command, flags, profile,
                   quiet, migration, checkpoint, telemetry, outcome,
                   outVars>>

\* validateFunc's count for the documented arguments, then inputguard.
CountFits(args) ==
    CASE command = "exec"   -> TRUE             \* ArbitraryArgs
      [] command = "rename" -> Len(args) = 1    \* ExactArgs(1)
      [] command = "api"    -> Len(args) = 1
      [] OTHER              -> Len(args) = 0    \* NoArgs

ValidateArgs ==
    /\ pc = "arguments"
    /\ LET args == Positionals(rest)
       IN  IF /\ CountFits(args)
              /\ command \in SkipInputValidation \/ ToSet(args) \cap ControlWords = {}
           THEN pc' = "run" /\ exit' = exit /\ outcome' = "running"
           ELSE Refuse /\ outcome' = outcome
    /\ UNCHANGED <<line, setup, interrupted, rest, command, flags, profile,
                   quiet, migration, checkpoint, telemetry, outVars>>

-----------------------------------------------------------------------------
(***************************************************************************)
(* RunF.                                                                   *)
(***************************************************************************)
Return(code, out) ==
    /\ pc' = "shutdown" /\ exit' = code /\ outcome' = out
    /\ UNCHANGED <<line, setup, interrupted, rest, command, flags, profile,
                   quiet, migration, checkpoint, telemetry>>

\* api against a server that answers with a JSON:API document.  A dry run still
\* sends a request that only reads.
ShowResponse ==
    /\ command = "api"
    /\ \E body \in Envelopes :
         /\ Display(body, quiet)
         /\ IF DisplayFails(body) THEN Return(1, "failed") ELSE Return(0, "shown")

\* ... with any other content type: the body is copied, masked if it is JSON.
ShowRawBody ==
    /\ command = "api"
    /\ \E body \in Bodies, kind \in BodyKinds, contentType \in ContentTypes :
         CopyRaw(body, kind, contentType, quiet)
    /\ Return(0, "shown")

\* A raw body that breaks off is shown as far as it came, or not at all when it
\* was to be masked, and the error is only logged.
RawBodyBreaks ==
    /\ command = "api"
    /\ \E body \in Bodies, kind \in BodyKinds, contentType \in ContentTypes :
         shown' = [view |-> "copied", body |-> body,
                   leaves |-> IF Enabled /\ PrepareForMasking(kind, contentType)
                              THEN {} ELSE DOMAIN Docs[body]]
    /\ Return(0, "broken")
    /\ UNCHANGED <<redactor, reported, forced, jq, notice>>

\* No content, an empty body, or quiet after a mutation.
ShowNothing ==
    /\ command = "api"
    /\ Return(0, "done")
    /\ UNCHANGED outVars

ShowDryRun ==
    /\ command = "api" /\ flags.dryRun
    /\ \E body \in Bodies, headers \in SUBSET Headers : ShowRequest(headers, body, quiet)
    /\ Return(0, "previewed")

RequestFails ==
    /\ command = "api"
    /\ \E err \in {"not found", "unauthorized", "net", "server", "request"}
                  \cup (IF interrupted THEN {"canceled"} ELSE {}) :
         Return(ErrorToExitCode({err}), "failed")
    /\ UNCHANGED outVars

\* exec passes the exit code of its child on; a child that cannot be started,
\* or none given, is an error.
RunChild ==
    /\ command = "exec"
    /\ IF Positionals(rest) = <<>> THEN Return(1, "failed")
       ELSE IF flags.dryRun THEN Return(0, "previewed")
       ELSE \/ \E code \in {0, 3} : Return(code, "done")
            \/ Return(1, "failed")
    /\ UNCHANGED outVars

RunLocal ==
    /\ command = "rename"
    /\ Return(0, "done") \/ Return(1, "failed")
    /\ UNCHANGED outVars

\* version waits for the result of the version check.
RunVersion ==
    /\ command = "version" /\ checkpoint = "done"
    /\ Return(0, "done")
    /\ UNCHANGED outVars

RunF == /\ pc = "run"
        /\ \/ ShowResponse \/ ShowRawBody \/ RawBodyBreaks \/ ShowNothing
           \/ ShowDryRun \/ RequestFails \/ RunChild \/ RunLocal \/ RunVersion

-----------------------------------------------------------------------------
(***************************************************************************)
(* shutdownMain, and the goroutines.                                       *)
(***************************************************************************)

\* Mutant: the process does not wait.
WaitMigrationSkipped ==
    /\ pc = "shutdown" /\ pc' = "end"
    /\ UNCHANGED <<line, setup, rest, command, flags, profile, quiet,
                   migration, checkpoint, telemetry, interrupted, exit,
                   outcome, outVars>>

\* Migration.Wait returns early when the context has been cancelled.
WaitMigration ==
    /\ pc = "shutdown" /\ (migration # "running" \/ interrupted) /\ pc' = "end"
    /\ UNCHANGED <<line, setup, rest, command, flags, profile, quiet,
                   migration, checkpoint, telemetry, interrupted, exit,
                   outcome, outVars>>

TelemetryShutdown ==
    /\ pc = "end" /\ pc' = "exited"
    /\ telemetry' = IF telemetry.span = "none" THEN telemetry
                    ELSE [telemetry EXCEPT !.span = "ended", !.status = exit]
    /\ UNCHANGED <<line, setup, interrupted, rest, command, flags, profile,
                   quiet, migration, checkpoint, exit, outcome, outVars>>

MigrationEnds ==
    /\ pc # "exited" /\ migration = "running" /\ migration' = "done"
    /\ UNCHANGED <<line, setup, pc, rest, command, flags, profile, quiet,
                   checkpoint, telemetry, interrupted, exit, outcome,
                   outVars>>

CheckpointEnds ==
    /\ pc # "exited" /\ checkpoint = "running" /\ checkpoint' = "done"
    /\ UNCHANGED <<line, setup, pc, rest, command, flags, profile, quiet,
                   migration, telemetry, interrupted, exit, outcome,
                   outVars>>

Signal ==
    /\ pc # "exited" /\ ~interrupted /\ interrupted' = TRUE
    /\ UNCHANGED <<line, setup, pc, rest, command, flags, profile, quiet,
                   migration, checkpoint, telemetry, exit, outcome, outVars>>

Main == \/ Prescan \/ LoadFails \/ Load \/ Dispatch
        \/ ParseFlags \/ ApplyGlobalFlags \/ StartCommand \/ IsAuthenticated
        \/ ValidateArgs \/ RunF \/ WaitMigration \/ TelemetryShutdown

Next == Main \/ MigrationEnds \/ CheckpointEnds \/ Signal

\* The process takes its steps, the server answers and the child ends; both
\* goroutines end.
Spec == Init /\ [][Next]_vars
             /\ WF_vars(Main) /\ WF_vars(MigrationEnds) /\ WF_vars(CheckpointEnds)

-----------------------------------------------------------------------------
(***************************************************************************)
(* Properties.                                                             *)
(***************************************************************************)

\* RunF of a command that needs a token runs only with one, that of the profile
\* --profile names or of the environment; the one way round it is an only
\* argument that reads like a version flag.
RunsWithCredentials ==
    outcome # "not run" =>
        \/ command \in NoAuthRequired
        \/ HasToken(Selected)
        \/ IsTopLevelCmd(Positionals(rest))

\* Masking is off only when whoever ran the command said so in the strongest
\* setting present: a setting that cannot be parsed, or one of a profile the
\* command does not use, never switches it off.
MaskingOffWasAsked ==
    outcome # "not run" /\ redactor.mode = "off" =>
        \/ "--no-redact" \in Given(rest)
        \/ setup.redactVar = "off"
        \/ setup.redactVar = "" /\ Selected.redact = "off"

\* A command that runs as a dry run has let no skill migration start, unless
\* the flag was spelled in a way only the flag parser understands.
DryRunStartsNoMigration ==
    outcome # "not run" /\ flags.dryRun /\ migration # "off" =>
        LastOf(rest, DryRunFlags) = "--dry-run=1"

\* Whatever way the command went, a process that loaded its profile exits with
\* its span ended with the exit code it returns, and with the migration over
\* unless it was interrupted.
ShutdownIsComplete ==
    pc = "exited" /\ setup.readable =>
        /\ migration = "running" => interrupted
        /\ telemetry.span # "open"
        /\ telemetry.span = "ended" => telemetry.status = exit

\* After a response or a dry run's request that was rendered without an error the
\* user is told of every field its mask took away, unless the streams are quiet: it
\* is named, or it is one of those that the notice counts, which is of none that was
\* not masked and counts some only when it names as many as it may.
HiddenIsReported ==
    /\ outcome \in {"shown", "previewed"}
    /\ shown.view \notin {"copied", "none"}
    /\ ~quiet
    =>
        LET hidden == EnvelopeFields[redactor.mode][shown.body]
        IN  hidden # {} =>
              /\ hidden \cup notice.named \subseteq redactor.masked
              /\ Cardinality(redactor.masked \ notice.named) = notice.more
              /\ notice.more > 0 => Cardinality(notice.named) = MaxReportedRedactions

\* Every process ends: nothing it waits for was never started.
CommandReturns == <>(pc = "exited")

=============================================================================

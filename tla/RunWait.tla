------------------------------ MODULE RunWait -------------------------------
(***************************************************************************)
(* `tfctl run start [--wait [--timeout]]` and `tfctl run status`, against  *)
(* a run that moves on the server, where a human may confirm, override or  *)
(* discard it.  The wait polls the run; what is displayed in the end is    *)
(* fetched anew, request by request; a signal or the deadline may fall     *)
(* between any two.                                                        *)
(*                                                                         *)
(*   src/internal/commands/run/run_{start,status}.go                       *)
(*   src/internal/pkg/client/run_{wait,summary}.go, client.go              *)
(***************************************************************************)
EXTENDS ExitCodes

CONSTANT MaxRetries   \* of a request that is answered 429 or 5xx

ASSUME MaxRetriesAssumption == MaxRetries \in Nat

VARIABLES
    opts,      \* the command and its flags
    pc,        \* the request in flight, or another place in the command
    ctx,       \* its context: "live", "canceled" by a signal or "expired"
    attempt, handled,   \* of the POST: retries made, the server has acted on it
    outcome,   \* PollRunUntilTerminated's RunOutcome
    summary,   \* RunSummary: status, phase, and what is shown for evidence
    exit,      \* exit code, or Running
    run,       \* the run on the server: status, is-confirmable, what made it fail
    created,   \* history: runs created
    lost,      \* history: a POST that had been acted on was answered 429 or 5xx
    past       \* history: the statuses of the run, "confirmable" among them

post   == <<attempt, handled, created, lost>>
server == <<run, past>>
local  == <<opts, outcome, summary>>
vars   == <<opts, pc, ctx, attempt, handled, outcome, summary, exit, run, created, lost, past>>

Running   == -1
Succeeded == {"applied", "planned_and_finished", "planned_and_saved"}
Failed    == {"errored", "canceled", "discarded", "policy_soft_failed", "policy_override"}
Policy    == {"policy_soft_failed", "policy_override"}
Final     == (Succeeded \cup Failed) \ {"policy_override"}
Statuses  == Final \cup {"none", "pending", "planning", "planned", "policy_override", "applying"}
Causes    == {"none", "plan", "check", "stage", "apply"}

Requests  == {"workspace", "post", "poll", "summary", "plan", "checks", "output",
              "stages", "details", "apply", "url"}
PCs       == Requests \cup {"sleep", "log", "exited"}

Run(status, confirmable, cause) ==
    [status |-> status, confirmable |-> confirmable, cause |-> cause]

\* classifyRunStatus.
Classify(status, confirmable) ==
    IF status \in Succeeded THEN "succeeded"
    ELSE IF status \in Failed THEN "failed"
    ELSE IF confirmable THEN "awaiting confirm" ELSE "in progress"

-----------------------------------------------------------------------------
Options ==
    [command : {"start"}, dryRun : BOOLEAN, wait : BOOLEAN, timeout : BOOLEAN]
        \cup [command : {"status"}, dryRun : {FALSE}, wait : {FALSE}, timeout : {FALSE}]

Init ==
    /\ opts \in Options
    /\ pc = "workspace" /\ ctx = "live" /\ exit = Running
    /\ attempt = 0 /\ handled = FALSE
    /\ outcome = "in progress"
    /\ summary = [status |-> "none", phase |-> "none", evidence |-> "none"]
    /\ run = Run(IF opts.command = "start" THEN "none" ELSE "pending", FALSE, "none")
    /\ created = 0 /\ lost = FALSE /\ past = {}

Exit(code) == pc' = "exited" /\ exit' = code
Goto(to)   == pc' = to /\ exit' = exit

-----------------------------------------------------------------------------
(* The server, and the people who look after the run.                      *)

Becomes(r) ==
    /\ run' = r
    /\ past' = past \cup {r.status} \cup (IF r.confirmable THEN {"confirmable"} ELSE {})
    /\ UNCHANGED <<local, pc, exit, ctx, post>>

\* Where a run may go from each status; a failure has a cause.
RunMoves ==
    \/ /\ run.status = "pending"
       /\ \E s \in {"planning", "canceled"} : Becomes(Run(s, FALSE, "none"))
    \/ /\ run.status = "planning"
       /\ \/ \E s \in {"planned_and_finished", "planned_and_saved", "canceled"} :
                Becomes(Run(s, FALSE, "none"))
          \/ \E c \in BOOLEAN : Becomes(Run("planned", c, "none"))
          \/ \E s \in Policy, c \in {"check", "stage"} : Becomes(Run(s, FALSE, c))
          \/ \E c \in {"plan", "check", "stage"} : Becomes(Run("errored", FALSE, c))
    \/ /\ run.status = "planned"
       /\ \E s \in {"applying", "discarded"} : Becomes(Run(s, FALSE, "none"))
    \/ /\ run.status = "policy_override"
       /\ Becomes(Run("planned", TRUE, "none")) \/ Becomes(Run("discarded", FALSE, "none"))
    \/ /\ run.status = "applying"
       /\ \/ \E s \in {"applied", "canceled"} : Becomes(Run(s, FALSE, "none"))
          \/ \E c \in {"stage", "apply"} : Becomes(Run("errored", FALSE, c))

-----------------------------------------------------------------------------
(* The context.                                                            *)

Signal ==
    /\ ctx = "live" /\ pc # "exited"
    /\ ctx' = "canceled"
    /\ UNCHANGED <<local, pc, exit, post, server>>

\* WithTimeoutCause spans the polling and the summary.
Expire ==
    /\ ctx = "live" /\ opts.wait /\ opts.timeout
    /\ pc \notin {"workspace", "post", "exited"}
    /\ ctx' = "expired"
    /\ UNCHANGED <<local, pc, exit, post, server>>

CtxErr == IF ctx = "canceled" THEN {"canceled"} ELSE {}

\* Mutant of Abort: the polling requests do not take the context.
AbortLate ==
    /\ pc \in Requests \ {"url", "poll"} /\ ctx # "live"
    /\ \E err \in {CtxErr, {}} : Exit(ErrorToExitCode(err))
    /\ UNCHANGED <<local, ctx, post, server>>

\* A request ends with its context, with the context's error or its cause (the
\* test at run_start_test.go:541 allows for both); only the run's URL can do
\* without its answer.
Abort ==
    /\ pc \in Requests \ {"url"} /\ ctx # "live"
    /\ \E err \in {CtxErr, {}} : Exit(ErrorToExitCode(err))
    /\ UNCHANGED <<local, ctx, post, server>>

\* A request fails for good: any but the POST after all retries; the POST without
\* another, by a refusal or, even if it has been acted on, by its connection.
Refuse ==
    /\ \/ pc \in Requests \ {"url"} /\ ctx = "live"
       \/ pc = "log"
    /\ \E err \in IF pc = "log" THEN {{}, {"net"}}
                  ELSE IF pc = "post" THEN {{}, {"not found"}, {"net"}}
                  ELSE {{"not found"}, {"net"}, {"server"}} :
        /\ pc = "post" /\ handled => err = {"net"}
        /\ Exit(ErrorToExitCode(err))
    /\ UNCHANGED <<local, ctx, post, server>>

Answered(request) == pc = request /\ ctx = "live"
Quiet == UNCHANGED <<opts, ctx, post, server>>

-----------------------------------------------------------------------------
(* runStart.                                                               *)

\* Mutant of Workspace: the dry run is not told apart.
WorkspaceAlways ==
    /\ Answered("workspace")
    /\ Goto(IF opts.command = "status" THEN "summary" ELSE "post")
    /\ Quiet /\ UNCHANGED <<outcome, summary>>

\* The workspace, and for `run status` its current run.
Workspace ==
    /\ Answered("workspace")
    /\ IF opts.command = "status" THEN Goto("summary")
       ELSE IF opts.dryRun THEN Exit(0)
       ELSE Goto("post")
    /\ Quiet /\ UNCHANGED <<outcome, summary>>

\* The server creates the run.
Create ==
    /\ pc = "post" /\ ~handled
    /\ handled' = TRUE /\ created' = created + 1
    /\ run' = Run("pending", FALSE, "none") /\ past' = {"pending"}
    /\ UNCHANGED <<local, pc, exit, ctx, attempt, lost>>

PostAnswered ==
    /\ Answered("post") /\ handled
    /\ IF opts.wait THEN Goto("poll") ELSE Exit(0)
    /\ Quiet /\ UNCHANGED <<outcome, summary>>

\* 429 or 5xx: the transport tries again.
PostFails ==
    /\ Answered("post")
    /\ lost' = (lost \/ handled)
    /\ IF attempt < MaxRetries
       THEN attempt' = attempt + 1 /\ handled' = FALSE /\ Goto("post")
       ELSE Exit(ErrorToExitCode({"server"})) /\ UNCHANGED <<attempt, handled>>
    /\ UNCHANGED <<local, ctx, created, server>>

-----------------------------------------------------------------------------
(* PollRunUntilTerminated.                                                 *)

\* Mutant of Poll: every confirmable run counts as failed.
PollFails ==
    /\ Answered("poll")
    /\ outcome' = LET c == Classify(run.status, run.confirmable)
                  IN  IF c = "awaiting confirm" THEN "failed" ELSE c
    /\ Goto(IF outcome' = "in progress" THEN "sleep" ELSE "summary")
    /\ Quiet /\ UNCHANGED summary

Poll ==
    /\ Answered("poll")
    /\ outcome' = Classify(run.status, run.confirmable)
    /\ Goto(IF outcome' = "in progress" THEN "sleep" ELSE "summary")
    /\ Quiet /\ UNCHANGED summary

\* The select: whichever is ready, either if both are.
Sleep ==
    /\ pc = "sleep"
    /\ \/ Goto("poll")
       \/ ctx # "live" /\ Exit(ErrorToExitCode(CtxErr))
    /\ Quiet /\ UNCHANGED <<outcome, summary>>

-----------------------------------------------------------------------------
(* NewRunSummary: the run again, then what its status calls for.           *)

Summarise(to, phase, evidence) ==
    /\ Goto(to)
    /\ summary' = [summary EXCEPT !.phase = phase, !.evidence = evidence]
    /\ Quiet /\ UNCHANGED outcome

\* buildRunSummary.
FetchRun ==
    /\ Answered("summary")
    /\ summary' = [status   |-> run.status,
                   phase    |-> IF run.status \in Policy THEN "policy_check" ELSE "none",
                   evidence |-> "none"]
    /\ Goto(IF run.status \in Policy THEN "checks"
            ELSE IF run.status = "errored" THEN "plan" ELSE "url")
    /\ Quiet /\ UNCHANGED outcome

\* populateErroredSummary: an errored plan has a log.
FetchPlan ==
    /\ Answered("plan")
    /\ IF run.cause = "plan" THEN Summarise("log", "plan", "none")
                             ELSE Summarise("checks", summary.phase, "none")

\* populatePolicyCheckSummary.
FetchChecks ==
    /\ Answered("checks")
    /\ IF run.cause = "check" THEN Summarise("output", "policy_check", "none")
                              ELSE Summarise("stages", summary.phase, "none")

\* An empty output counts as no failed check at all.
FetchOutput ==
    /\ Answered("output")
    /\ \/ Summarise("url", summary.phase, "check")
       \/ Summarise("stages", summary.phase, "none")

\* Mutant of WithoutEvidence: the phase stays where the search left it.
WithoutPhase ==
    IF summary.status = "errored" THEN Summarise("apply", summary.phase, "none")
                                  ELSE Summarise("url", summary.phase, "none")

\* Neither a check nor a stage has failed, as far as can be shown.
WithoutEvidence ==
    IF summary.status = "errored" THEN Summarise("apply", "apply", "none")
                                  ELSE Summarise("url", summary.phase, "none")

\* populateTaskStageSummary.
FetchStages ==
    /\ Answered("stages")
    /\ IF run.cause = "stage" THEN Summarise("details", "stage", "none")
                              ELSE WithoutEvidence

\* The stage's evaluations and task results, of which there may be none.
FetchDetails ==
    /\ Answered("details")
    /\ \/ Summarise("url", summary.phase, "stage")
       \/ WithoutEvidence

\* The run a third time, for its apply; a run that never applied has none.
FetchApply ==
    /\ Answered("apply")
    /\ IF "applying" \in past
       THEN Summarise("log", summary.phase, "none")
       ELSE /\ Exit(ErrorToExitCode({}))
            /\ Quiet /\ UNCHANGED <<outcome, summary>>

\* FetchLog: http.Get, without the context.
FetchLog ==
    /\ pc = "log"
    /\ Summarise("url", summary.phase, "log")

\* Mutant of Display: both commands go by what they display.
DisplaySeen ==
    /\ pc = "url"
    /\ IF summary.status \in Policy \cup {"errored"}
       THEN Exit(ErrorToExitCode({"underlying"}))
       ELSE Exit(0)
    /\ Quiet /\ UNCHANGED <<outcome, summary>>

\* resolveRunURL, with or without an answer; the display; the exit code, which
\* `run start` takes from the poll and `run status` from what it displays.
Display ==
    /\ pc = "url"
    /\ IF \/ opts.command = "start"  /\ outcome = "failed"
          \/ opts.command = "status" /\ summary.status \in Policy \cup {"errored"}
       THEN Exit(ErrorToExitCode({"underlying"}))
       ELSE Exit(0)
    /\ Quiet /\ UNCHANGED <<outcome, summary>>

-----------------------------------------------------------------------------
Fetch ==
    \/ FetchRun \/ FetchPlan \/ FetchChecks \/ FetchOutput
    \/ FetchStages \/ FetchDetails \/ FetchApply
Answer == Workspace \/ Create \/ PostAnswered \/ PostFails \/ Poll \/ Fetch \/ FetchLog \/ Refuse
Own    == Abort \/ Sleep \/ Display

Next == RunMoves \/ Signal \/ Expire \/ Answer \/ Own

\* The process is scheduled; the server need not answer.
Spec == Init /\ [][Next]_vars /\ WF_vars(Own)

-----------------------------------------------------------------------------
TypeOK ==
    /\ opts \in Options
    /\ pc \in PCs
    /\ ctx \in {"live", "canceled", "expired"}
    /\ attempt \in 0..MaxRetries /\ handled \in BOOLEAN
    /\ outcome \in {"in progress", "succeeded", "failed", "awaiting confirm"}
    /\ summary \in [status : Statuses, phase : {"none", "policy_check", "plan", "stage", "apply"},
                    evidence : {"none", "check", "stage", "log"}]
    /\ exit \in {Running, 0, 1, 2, 4, 5, 6, 130}
    /\ run \in [status : Statuses, confirmable : BOOLEAN, cause : Causes]
    /\ created \in 0..(MaxRetries + 1) /\ lost \in BOOLEAN
    /\ past \subseteq Statuses \cup {"confirmable"}

\* `run start` creates a run, unless it is a dry run or fails, and never two
\* unless the answer to the first request got lost.
OneRunPerStart ==
    /\ created > 0 => opts.command = "start" /\ ~opts.dryRun
    /\ created > 1 => lost
    /\ exit = 0 /\ opts.command = "start" /\ ~opts.dryRun => created > 0

\* The exit code of a wait is earned: the run has been where 0 says it has got
\* to, or where 6 says it has failed, however it moves on later.
ExitIsEarned ==
    opts.wait =>
        /\ exit = 0 /\ ~opts.dryRun => past \cap (Succeeded \cup {"confirmable"}) # {}
        /\ exit = 6 => past \cap Failed # {}

\* A run that no longer moves is displayed as it was polled: the exit code of
\* the wait is then that of the status displayed.
FinalStatusSetsExit ==
    opts.wait /\ exit \in {0, 6} /\ ~opts.dryRun /\ outcome # "awaiting confirm" =>
        \/ "policy_override" \in past
        \/ (exit = 6) = (summary.status \in Failed)

\* What is shown for evidence belongs to the phase that is reported.
EvidenceFitsPhase ==
    exit # Running =>
        CASE summary.evidence = "check" -> summary.phase = "policy_check"
          [] summary.evidence = "stage" -> summary.phase = "stage"
          [] summary.evidence = "log"   -> summary.phase \in {"plan", "apply"}
          [] OTHER -> TRUE

\* A signal or the deadline ends the command, but for the download of a log; and
\* a wait is over some time after the run is, if the server answers.
CommandEnds ==
    /\ ctx # "live" ~> pc \in {"exited", "log"}
    /\ WF_vars(Answer) =>
          ((run.status \in Final /\ pc \in {"poll", "sleep"}) ~> pc = "exited")
=============================================================================

---------------------------- MODULE RunWaitProofs ----------------------------
(***************************************************************************)
(* Proofs about RunWait, for any number of retries.                        *)
(***************************************************************************)
EXTENDS RunWait, TLAPS

Waiting == opts.command = "start" /\ ~opts.dryRun /\ opts.wait

\* The parts of the type invariant, with numbers and without them.
Counts ==
    /\ attempt \in 0..MaxRetries /\ created \in 0..(MaxRetries + 1)
    /\ exit \in {Running, 0, 1, 2, 4, 5, 6, 130}

Shapes ==
    /\ opts \in Options
    /\ pc \in PCs
    /\ ctx \in {"live", "canceled", "expired"}
    /\ handled \in BOOLEAN
    /\ outcome \in {"in progress", "succeeded", "failed", "awaiting confirm"}
    /\ summary \in [status : Statuses, phase : {"none", "policy_check", "plan", "stage", "apply"},
                    evidence : {"none", "check", "stage", "log"}]
    /\ run \in [status : Statuses, confirmable : BOOLEAN, cause : Causes]
    /\ lost \in BOOLEAN
    /\ past \subseteq Statuses \cup {"confirmable"}

\* The code path: what is past the POST is a wait or `run status`.
PathInv ==
    /\ pc \notin {"workspace", "exited"} /\ opts.command = "start" => ~opts.dryRun
    /\ opts.command = "start" /\ pc \notin {"workspace", "post", "exited"} => opts.wait
    /\ opts.command = "status" => pc \notin {"post", "poll", "sleep"}
    /\ (exit = Running) = (pc # "exited")

\* The POST: a run is created for each attempt at most, and an attempt that is
\* given up after the server has acted on it has lost its answer.
CountInv ==
    /\ created <= IF handled THEN attempt + 1 ELSE attempt
    /\ created > 1 => lost

PostInv ==
    /\ created # 0 => opts.command = "start" /\ ~opts.dryRun /\ pc # "workspace"
    /\ ~handled /\ created # 0 => lost
    /\ handled => created # 0
    /\ opts.command = "start" /\ pc \notin {"workspace", "post", "exited"} => created # 0
    /\ opts.command = "start" /\ ~opts.dryRun /\ exit = 0 => created # 0

\* What the server's run has been, and what the poll has learnt of it.
PastInv ==
    /\ created # 0 =>
          /\ run.status \in past
          /\ run.confirmable => "confirmable" \in past
    /\ pc \in {"workspace", "post", "sleep"} => outcome = "in progress"
    /\ Waiting /\ pc \notin {"workspace", "post", "poll", "sleep", "exited"} =>
          outcome # "in progress"
    /\ outcome # "in progress" => created # 0
    /\ outcome = "succeeded" => past \cap Succeeded # {}
    /\ outcome = "failed" => past \cap Failed # {}
    /\ outcome = "awaiting confirm" => "confirmable" \in past

\* A poll that has found the run at rest finds it there ever after.
RestInv ==
    outcome \in {"succeeded", "failed"} /\ "policy_override" \notin past =>
        /\ run.status \in Final
        /\ (outcome = "failed") <=> (run.status \in Failed)
        /\ pc \notin {"poll", "summary", "exited"} => summary.status = run.status

\* The exit code of a wait that has displayed the run.
Displayed == exit \in {0, 6}
Failure   == exit = 6

ExitInv ==
    opts.wait /\ Displayed /\ (Failure \/ ~opts.dryRun) =>
        /\ ~opts.dryRun
        /\ outcome # "in progress"
        /\ Failure <=> outcome = "failed"
        /\ outcome # "awaiting confirm" /\ "policy_override" \notin past =>
              summary.status = run.status

\* The requests for evidence are made under the phase they belong to.
PhaseInv ==
    /\ summary.evidence = "check" => summary.phase = "policy_check"
    /\ summary.evidence = "stage" => summary.phase = "stage"
    /\ summary.evidence = "log"   => summary.phase \in {"plan", "apply"}
    /\ pc = "output"  => summary.phase = "policy_check"
    /\ pc = "details" => summary.phase = "stage"
    /\ pc = "apply"   => summary.phase = "apply"
    /\ pc = "log"     => summary.phase \in {"plan", "apply"}

Inv ==
    /\ Counts /\ CountInv /\ Shapes
    /\ PathInv /\ PostInv /\ PastInv /\ RestInv /\ ExitInv /\ PhaseInv

-----------------------------------------------------------------------------
\* The table of errorToExitCode: its rows are told apart by their kinds.
LEMMA Length ==
    DOMAIN ExitCodeOf = 1..10 /\ \A k \in 1..10 : k \in {1, 2, 3, 4, 5, 6, 7, 8, 9, 10}
  BY DEF ExitCodeOf, RunResultHelp

LEMMA Kinds ==
    /\ ExitCodeOf[1][1] = "help" /\ ExitCodeOf[2][1] = "usage"
    /\ ExitCodeOf[3][1] = "underlying" /\ ExitCodeOf[4][1] = "not found"
    /\ ExitCodeOf[5][1] = "unauthorized" /\ ExitCodeOf[6][1] = "net"
    /\ ExitCodeOf[7][1] = "server" /\ ExitCodeOf[8][1] = "request"
    /\ ExitCodeOf[9][1] = "exit code" /\ ExitCodeOf[10][1] = "canceled"
<1> USE DEF ExitCodeOf, RunResultHelp
<1>1. ExitCodeOf[1][1] = "help" /\ ExitCodeOf[2][1] = "usage"
  OBVIOUS
<1>2. ExitCodeOf[3][1] = "underlying" /\ ExitCodeOf[4][1] = "not found"
  OBVIOUS
<1>3. ExitCodeOf[5][1] = "unauthorized" /\ ExitCodeOf[6][1] = "net"
  OBVIOUS
<1>4. ExitCodeOf[7][1] = "server" /\ ExitCodeOf[8][1] = "request"
  OBVIOUS
<1>5. ExitCodeOf[9][1] = "exit code" /\ ExitCodeOf[10][1] = "canceled"
  OBVIOUS
<1> HIDE DEF ExitCodeOf
<1> QED
  BY <1>1, <1>2, <1>3, <1>4, <1>5

\* An error of one kind has the code of its row.
LEMMA OneKind ==
    ASSUME NEW k \in DOMAIN ExitCodeOf, NEW kind, ExitCodeOf[k][1] = kind,
           \A j \in DOMAIN ExitCodeOf : ExitCodeOf[j][1] = kind => j = k
    PROVE  ErrorToExitCode({kind}) = ExitCodeOf[k][2]
<1> DEFINE known == {i \in DOMAIN ExitCodeOf : ExitCodeOf[i][1] \in {kind}}
<1>1. known = {k}
  OBVIOUS
<1>2. k <= k
  BY Length
<1>3. (CHOOSE i \in known : \A j \in known : i <= j) = k
  BY <1>1, <1>2
<1> QED
  BY <1>1, <1>3 DEF ErrorToExitCode

\* The codes of the errors that occur here.
LEMMA Codes ==
    /\ ErrorToExitCode({}) = 1 /\ ErrorToExitCode({"canceled"}) = 130
    /\ ErrorToExitCode({"not found"}) = 2 /\ ErrorToExitCode({"net"}) = 4
    /\ ErrorToExitCode({"server"}) = 5 /\ ErrorToExitCode({"underlying"}) = 6
<1>1. ErrorToExitCode({}) = 1
  BY DEF ErrorToExitCode
<1>2. ErrorToExitCode({"underlying"}) = 6
  <2>1. \A j \in DOMAIN ExitCodeOf : ExitCodeOf[j][1] = "underlying" => j = 3
    BY Length, Kinds
  <2>2. 3 \in DOMAIN ExitCodeOf
    BY Length
  <2>3. ExitCodeOf[3][1] = "underlying"
    BY Kinds
  <2>4. ErrorToExitCode({"underlying"}) = ExitCodeOf[3][2]
    BY <2>1, <2>2, <2>3, OneKind
  <2>5. ExitCodeOf[3][2] = 6
    BY DEF ExitCodeOf, RunResultHelp
  <2> QED
    BY <2>4, <2>5
<1>3. ErrorToExitCode({"not found"}) = 2
  <2>1. \A j \in DOMAIN ExitCodeOf : ExitCodeOf[j][1] = "not found" => j = 4
    BY Length, Kinds
  <2>2. 4 \in DOMAIN ExitCodeOf
    BY Length
  <2>3. ExitCodeOf[4][1] = "not found"
    BY Kinds
  <2>4. ErrorToExitCode({"not found"}) = ExitCodeOf[4][2]
    BY <2>1, <2>2, <2>3, OneKind
  <2>5. ExitCodeOf[4][2] = 2
    BY DEF ExitCodeOf, RunResultHelp
  <2> QED
    BY <2>4, <2>5
<1>4. ErrorToExitCode({"net"}) = 4
  <2>1. \A j \in DOMAIN ExitCodeOf : ExitCodeOf[j][1] = "net" => j = 6
    BY Length, Kinds
  <2>2. 6 \in DOMAIN ExitCodeOf
    BY Length
  <2>3. ExitCodeOf[6][1] = "net"
    BY Kinds
  <2>4. ErrorToExitCode({"net"}) = ExitCodeOf[6][2]
    BY <2>1, <2>2, <2>3, OneKind
  <2>5. ExitCodeOf[6][2] = 4
    BY DEF ExitCodeOf, RunResultHelp
  <2> QED
    BY <2>4, <2>5
<1>5. ErrorToExitCode({"server"}) = 5
  <2>1. \A j \in DOMAIN ExitCodeOf : ExitCodeOf[j][1] = "server" => j = 7
    BY Length, Kinds
  <2>2. 7 \in DOMAIN ExitCodeOf
    BY Length
  <2>3. ExitCodeOf[7][1] = "server"
    BY Kinds
  <2>4. ErrorToExitCode({"server"}) = ExitCodeOf[7][2]
    BY <2>1, <2>2, <2>3, OneKind
  <2>5. ExitCodeOf[7][2] = 5
    BY DEF ExitCodeOf, RunResultHelp
  <2> QED
    BY <2>4, <2>5
<1>6. ErrorToExitCode({"canceled"}) = 130
  <2>1. \A j \in DOMAIN ExitCodeOf : ExitCodeOf[j][1] = "canceled" => j = 10
    BY Length, Kinds
  <2>2. 10 \in DOMAIN ExitCodeOf
    BY Length
  <2>3. ExitCodeOf[10][1] = "canceled"
    BY Kinds
  <2>4. ErrorToExitCode({"canceled"}) = ExitCodeOf[10][2]
    BY <2>1, <2>2, <2>3, OneKind
  <2>5. ExitCodeOf[10][2] = 130
    BY DEF ExitCodeOf, RunResultHelp
  <2> QED
    BY <2>4, <2>5
<1> QED
  BY <1>1, <1>2, <1>3, <1>4, <1>5, <1>6

\* A run moves from a status that is not final, and to one of the statuses.
LEMMA Moves ==
    ASSUME RunMoves
    PROVE  /\ run.status \notin Final
           /\ \E s \in Statuses, c \in BOOLEAN, k \in Causes : Becomes(Run(s, c, k))
<1>1. /\ {"canceled", "discarded", "errored", "planning", "planned", "planned_and_finished",
          "planned_and_saved", "applying", "applied"} \cup Policy \subseteq Statuses
      /\ {"none", "plan", "check", "stage", "apply"} \subseteq Causes
  BY DEF Statuses, Final, Succeeded, Failed, Policy, Causes
<1>2. TRUE \in BOOLEAN /\ FALSE \in BOOLEAN
  OBVIOUS
<1>3. run.status \in {"pending", "planning", "planned", "policy_override", "applying"}
  BY DEF RunMoves
<1>4. run.status \notin Final
  BY <1>3 DEF Final, Succeeded, Failed
<1>5. \E s \in Statuses, c \in BOOLEAN, k \in Causes : Becomes(Run(s, c, k))
  BY <1>1, <1>2 DEF RunMoves
<1> QED
  BY <1>4, <1>5

LEMMA InitInv == Init => Inv
<1> SUFFICES ASSUME Init PROVE Inv
  OBVIOUS
<1>1. Shapes /\ Counts
  <2>1. /\ "none" \in Statuses /\ "pending" \in Statuses /\ "none" \in Causes
        /\ "workspace" \in PCs /\ FALSE \in BOOLEAN
    BY DEF Statuses, Final, Succeeded, Failed, Causes, PCs, Requests
  <2>2. run \in [status : Statuses, confirmable : BOOLEAN, cause : Causes]
    BY <2>1 DEF Init, Run
  <2>3. Counts
    <3>1. attempt = 0 /\ created = 0 /\ exit = Running
      BY DEF Init
    <3> QED
      BY <3>1, MaxRetriesAssumption DEF Counts
  <2>4. Shapes
    BY <2>1, <2>2 DEF Init, Shapes
  <2> QED
    BY <2>3, <2>4
<1>2. PathInv
  BY DEF Init, PathInv, Options, Running
<1>3. PostInv /\ CountInv
  <2>1. created = 0 /\ attempt = 0 /\ ~handled /\ pc = "workspace" /\ exit = Running
    BY DEF Init
  <2>2. exit # 0
    BY <2>1 DEF Running
  <2>3. PostInv
    BY <2>1, <2>2 DEF PostInv
  <2>4. CountInv
    BY <2>1 DEF CountInv
  <2> QED
    BY <2>3, <2>4
<1>4. PastInv /\ RestInv /\ ExitInv /\ PhaseInv
  <2>1. /\ created = 0 /\ pc = "workspace" /\ outcome = "in progress"
        /\ exit = Running
    BY DEF Init
  <2>2. summary.evidence = "none"
    BY DEF Init
  <2>3. PastInv
    BY <2>1 DEF PastInv
  <2>4. RestInv
    BY <2>1 DEF RestInv
  <2>5. ExitInv
    <3>1. exit = Running
      BY <2>1
    <3>2. ~Displayed
      BY <3>1 DEF Displayed, Running
    <3> QED
      BY <3>2 DEF ExitInv
  <2>6. PhaseInv
    BY <2>1, <2>2 DEF PhaseInv
  <2> QED
    BY <2>3, <2>4, <2>5, <2>6
<1> QED
  BY <1>1, <1>2, <1>3, <1>4 DEF Inv

-----------------------------------------------------------------------------
\* What an action changes leaves the invariants over other variables as they are.
StaysAsItIs == UNCHANGED <<opts, attempt, handled, outcome, summary, run, created, lost, past>>

LEMMA Undisplayed == ASSUME Inv, pc # "exited" PROVE ~Displayed
<1>1. exit = Running
  BY DEF Inv, PathInv
<1> QED
  BY <1>1 DEF Displayed, Running

LEMMA ShapesStay ==
    ASSUME Shapes, pc' \in PCs, UNCHANGED ctx, StaysAsItIs
    PROVE  Shapes'
  BY DEF Shapes, StaysAsItIs

LEMMA CountsStay ==
    ASSUME Counts, CountInv, exit' \in {Running, 0, 1, 2, 4, 5, 6, 130}, StaysAsItIs
    PROVE  Counts' /\ CountInv'
  BY DEF Counts, CountInv, StaysAsItIs

\* The command gives up, with a code that tells of no run.
LEMMA GivingUp ==
    ASSUME Inv, pc # "exited", NEW code \in {1, 2, 4, 5, 130}, Exit(code),
           UNCHANGED ctx, StaysAsItIs
    PROVE  Inv'
<1>0. pc' = "exited" /\ UNCHANGED ctx /\ StaysAsItIs
  BY DEF Exit
<1> USE DEF Exit, StaysAsItIs
<1>1. Shapes' /\ Counts'
  <2>1. exit' \in {Running, 0, 1, 2, 4, 5, 6, 130}
    OBVIOUS
  <2>2. Shapes'
    <3>1. pc' \in PCs
      BY <1>0 DEF PCs
    <3> QED
      BY <1>0, <3>1, ShapesStay DEF Inv
  <2> QED
    BY <2>1, <2>2 DEF Inv, Counts
<1>2. PathInv'
  BY DEF Inv, PathInv, Running
<1>3. PostInv' /\ CountInv'
  <2>1. exit' # 0
    OBVIOUS
  <2> QED
    BY <2>1 DEF Inv, PostInv, CountInv
<1>4. PastInv'
  BY DEF Inv, PastInv, Waiting
<1>5. RestInv'
  BY DEF Inv, RestInv
<1>6. ExitInv'
  <2>1. ~Displayed'
    BY DEF Displayed
  <2> QED
    BY <2>1 DEF ExitInv
<1>7. PhaseInv'
  BY DEF Inv, PhaseInv
<1> QED
  BY <1>1, <1>2, <1>3, <1>4, <1>5, <1>6, <1>7 DEF Inv

\* A request for evidence that names the phase and the evidence it has found.
LEMMA Summarising ==
    ASSUME Inv,
           pc \in {"plan", "checks", "output", "stages", "details", "apply", "log"},
           NEW to \in {"checks", "output", "stages", "details", "apply", "log", "url"},
           NEW phase \in {"none", "policy_check", "plan", "stage", "apply"},
           NEW evidence \in {"none", "check", "stage", "log"},
           Summarise(to, phase, evidence),
           evidence = "check" => phase = "policy_check",
           evidence = "stage" => phase = "stage",
           evidence = "log" => phase \in {"plan", "apply"},
           to = "output" => phase = "policy_check",
           to = "details" => phase = "stage",
           to = "apply" => phase = "apply",
           to = "log" => phase \in {"plan", "apply"}
    PROVE  Inv'
<1>1. /\ pc' = to /\ exit' = exit
      /\ UNCHANGED <<opts, ctx, attempt, handled, created, lost, run, past, outcome>>
  BY DEF Summarise, Goto, Quiet, post, server
<1>2. /\ summary' \in [status : Statuses, phase : {"none", "policy_check", "plan", "stage", "apply"},
                       evidence : {"none", "check", "stage", "log"}]
      /\ summary'.status = summary.status
      /\ summary'.phase = phase /\ summary'.evidence = evidence
  BY DEF Summarise, Inv, Shapes
<1>3. Shapes' /\ Counts'
  <2>1. Shapes'
    BY <1>1, <1>2 DEF Inv, Shapes, PCs, Requests
  <2> QED
    BY <1>1, <2>1 DEF Inv, Counts
<1>4. PathInv'
  BY <1>1 DEF Inv, PathInv
<1>5. PostInv' /\ CountInv'
  BY <1>1 DEF Inv, PostInv, CountInv
<1>6. PastInv'
  BY <1>1 DEF Inv, PastInv, Waiting
<1>7. RestInv'
  BY <1>1, <1>2 DEF Inv, RestInv
<1>8. ExitInv'
  <2>1. ~Displayed'
    BY <1>1, Undisplayed DEF Displayed
  <2> QED
    BY <2>1 DEF ExitInv
<1>9. PhaseInv'
  BY <1>1, <1>2 DEF PhaseInv
<1> QED
  BY <1>3, <1>4, <1>5, <1>6, <1>7, <1>8, <1>9 DEF Inv

-----------------------------------------------------------------------------
\* The server, the signal and the deadline.
LEMMA WorldStep ==
    ASSUME Inv, RunMoves \/ Signal \/ Expire \/ Create
    PROVE  Inv'
<1>1. CASE RunMoves
  <2>1. PICK s \in Statuses, c \in BOOLEAN, k \in Causes : Becomes(Run(s, c, k))
    BY <1>1, Moves
  <2>2. run.status \notin Final
    BY <1>1, Moves
  <2>3. /\ run' \in [status : Statuses, confirmable : BOOLEAN, cause : Causes]
        /\ run'.status \in past' /\ (run'.confirmable => "confirmable" \in past')
        /\ past \subseteq past' /\ past' \subseteq Statuses \cup {"confirmable"}
    BY <2>1 DEF Becomes, Run, Inv, Shapes
  <2>4. UNCHANGED <<opts, ctx, attempt, handled, created, lost, pc, exit, outcome, summary>>
    BY <2>1 DEF Becomes, local, post
  <2>5. Shapes' /\ Counts'
    <3>1. Shapes'
      BY <2>3, <2>4 DEF Inv, Shapes
    <3> QED
      BY <2>4, <3>1 DEF Inv, Counts
  <2>6. PathInv' /\ CountInv' /\ PostInv' /\ PhaseInv'
    BY <2>4 DEF Inv, PathInv, CountInv, PostInv, PhaseInv
  <2>7. PastInv'
    BY <2>3, <2>4 DEF Inv, PastInv, Waiting
  <2>8. RestInv'
    BY <2>2, <2>3, <2>4 DEF Inv, RestInv
  <2>9. ExitInv'
    <3>1. (Displayed' <=> Displayed) /\ (Failure' <=> Failure)
      BY <2>4 DEF Displayed, Failure
    <3> QED
      BY <2>2, <2>3, <2>4, <3>1 DEF Inv, Shapes, RestInv, ExitInv
  <2> QED
    BY <2>5, <2>6, <2>7, <2>8, <2>9 DEF Inv
<1>2. CASE Signal \/ Expire
  <2>1. /\ ctx' \in {"canceled", "expired"}
        /\ UNCHANGED <<opts, pc, exit, attempt, handled, outcome, summary, run, created, lost, past>>
    BY <1>2 DEF Signal, Expire, local, post, server
  <2> QED
    <3>1. Shapes'
      BY <2>1 DEF Inv, Shapes
    <3>2. Counts' /\ CountInv' /\ PostInv'
      BY <2>1 DEF Inv, Counts, CountInv, PostInv
    <3>3. PathInv' /\ RestInv' /\ PhaseInv'
      BY <2>1 DEF Inv, PathInv, RestInv, PhaseInv
    <3>4. PastInv'
      BY <2>1 DEF Inv, PastInv, Waiting
    <3>5. ExitInv'
      BY <2>1 DEF Inv, ExitInv, Displayed, Failure
    <3> QED
      BY <3>1, <3>2, <3>3, <3>4, <3>5 DEF Inv
<1>3. CASE Create
  <2>1. /\ pc = "post" /\ ~handled /\ handled' = TRUE /\ created' = created + 1
        /\ past' = {"pending"}
        /\ UNCHANGED <<opts, outcome, summary, pc, exit, ctx, attempt, lost>>
    BY <1>3 DEF Create, local
  <2>2. /\ run' \in [status : Statuses, confirmable : BOOLEAN, cause : Causes]
        /\ run'.status = "pending" /\ ~run'.confirmable
    BY <1>3 DEF Create, Run, Statuses, Causes
  <2>3. Shapes' /\ Counts'
    <3>1. created' \in 0..(MaxRetries + 1)
      BY <2>1, MaxRetriesAssumption DEF Inv, Counts, CountInv
    <3>2. past' \subseteq Statuses \cup {"confirmable"} /\ handled' \in BOOLEAN
      BY <2>1 DEF Statuses
    <3>3. Shapes'
      BY <2>1, <2>2, <3>2 DEF Inv, Shapes
    <3> QED
      BY <2>1, <3>1, <3>3 DEF Inv, Counts
  <2>4. PathInv'
    BY <2>1 DEF Inv, PathInv
  <2>5. CountInv' /\ PostInv'
    <3>1. created \in Nat /\ attempt \in Nat
      BY MaxRetriesAssumption DEF Inv, Counts
    <3>2. CountInv'
      BY <2>1, <3>1 DEF Inv, CountInv, PostInv
    <3>3. created' # 0
      BY <2>1, <3>1
    <3> QED
      BY <2>1, <3>2, <3>3 DEF Inv, PostInv, PathInv, Shapes, Options
  <2>6. PastInv'
    BY <2>1, <2>2 DEF Inv, PastInv, Waiting
  <2>7. RestInv'
    BY <2>1 DEF Inv, PastInv, RestInv
  <2>8. ExitInv'
    <3>1. ~Displayed'
      BY <2>1, Undisplayed DEF Displayed
    <3> QED
      BY <3>1 DEF ExitInv
  <2>9. PhaseInv'
    BY <2>1 DEF Inv, PhaseInv
  <2> QED
    BY <2>3, <2>4, <2>5, <2>6, <2>7, <2>8, <2>9 DEF Inv
<1> QED
  BY <1>1, <1>2, <1>3

-----------------------------------------------------------------------------
\* A step to another place of the command that changes nothing else.
LEMMA Going ==
    ASSUME Inv, pc # "exited", NEW to \in PCs \ {"exited", "workspace"}, Goto(to),
           UNCHANGED ctx, StaysAsItIs,
           to = "post" => opts.command = "start" /\ ~opts.dryRun,
           opts.command = "status" => to \notin {"post", "poll", "sleep"},
           to \notin {"post", "workspace"} /\ opts.command = "start" =>
              opts.wait /\ ~opts.dryRun /\ created # 0,
           to \in {"post", "sleep"} => outcome = "in progress",
           to \notin {"post", "sleep", "poll"} /\ Waiting => outcome # "in progress",
           to \notin {"poll", "summary"} => outcome = "in progress",
           to \notin {"output", "details", "apply", "log"}
    PROVE  Inv'
<1>1. /\ pc' = to /\ exit' = exit /\ UNCHANGED ctx /\ StaysAsItIs
  BY DEF Goto
<1>2. Shapes'
  BY <1>1, ShapesStay DEF Inv
<1>3. Counts' /\ CountInv'
  <2>1. exit' \in {Running, 0, 1, 2, 4, 5, 6, 130}
    BY <1>1 DEF Inv, Counts
  <2> QED
    BY <1>1, <2>1, CountsStay DEF Inv
<1>4. PathInv'
  BY <1>1 DEF Inv, PathInv, StaysAsItIs
<1>9. PostInv'
  <2>1. exit' # 0
    BY <1>1, Undisplayed DEF Displayed
  <2>2. pc' # "workspace" /\ (pc' \in {"post", "workspace", "exited"} <=> to = "post")
    BY <1>1
  <2>3. opts' = opts /\ created' = created /\ handled' = handled /\ lost' = lost
    BY <1>1 DEF StaysAsItIs
  <2>4. opts.command = "start" /\ to # "post" => created # 0
    OBVIOUS
  <2>5. PostInv
    BY DEF Inv
  <2> HIDE DEF Inv
  <2> QED
    BY ONLY <2>1, <2>2, <2>3, <2>4, <2>5 DEF PostInv
<1>5. PastInv'
  BY <1>1 DEF Inv, PastInv, StaysAsItIs, Waiting
<1>6. RestInv'
  BY <1>1 DEF Inv, RestInv, StaysAsItIs
<1>7. ExitInv'
  <2>1. ~Displayed'
    BY <1>1, Undisplayed DEF Displayed
  <2> QED
    BY <2>1 DEF ExitInv
<1>8. PhaseInv'
  BY <1>1 DEF Inv, PhaseInv, StaysAsItIs
<1> QED
  BY <1>2, <1>3, <1>4, <1>5, <1>6, <1>7, <1>8, <1>9 DEF Inv

\* A request that fails for good, and a context that ends a request or the sleep.
LEMMA FailingStep ==
    ASSUME Inv, Abort \/ Refuse
    PROVE  Inv'
<1>1. /\ pc # "exited" /\ UNCHANGED ctx /\ StaysAsItIs
  BY DEF Abort, Refuse, StaysAsItIs, local, post, server, Requests
<1>2. \E code \in {1, 2, 4, 5, 130} : Exit(code)
  <2>1. \E err \in {{}, {"canceled"}, {"not found"}, {"net"}, {"server"}} :
           Exit(ErrorToExitCode(err))
    BY DEF Abort, Refuse, CtxErr
  <2>2. \A err \in {{}, {"canceled"}, {"not found"}, {"net"}, {"server"}} :
           ErrorToExitCode(err) \in {1, 2, 4, 5, 130}
    BY Codes
  <2> QED
    BY <2>1, <2>2
<1> QED
  BY <1>1, <1>2, GivingUp

\* The workspace, and the POST's answer.
LEMMA StartStep ==
    ASSUME Inv, Workspace \/ PostAnswered \/ PostFails
    PROVE  Inv'
<1>1. CASE Workspace
  <2>1. pc = "workspace" /\ UNCHANGED ctx /\ StaysAsItIs
    BY <1>1 DEF Workspace, Answered, Quiet, StaysAsItIs, post, server
  <2>2. outcome = "in progress" /\ opts.command \in {"start", "status"}
    BY <2>1 DEF Inv, PastInv, Shapes, Options
  <2>3. CASE opts.command = "status"
    <3>1. Goto("summary")
      BY <1>1, <2>3 DEF Workspace
    <3> QED
      BY <2>1, <2>2, <2>3, <3>1, Going DEF PCs, Requests, Waiting
  <2>4. CASE opts.command = "start" /\ ~opts.dryRun
    <3>1. Goto("post")
      BY <1>1, <2>4 DEF Workspace
    <3> QED
      BY <2>1, <2>2, <2>4, <3>1, Going DEF PCs, Requests
  <2>5. CASE opts.command = "start" /\ opts.dryRun
    <3>1. pc' = "exited" /\ exit' = 0
      BY <1>1, <2>5 DEF Workspace, Exit
    <3>2. Shapes'
      BY <2>1, <3>1, ShapesStay DEF Inv, PCs
    <3>3. Counts' /\ CountInv'
      BY <2>1, <3>1 DEF Inv, Counts, CountInv, StaysAsItIs
    <3>4. PathInv'
      BY <2>1, <2>5, <3>1 DEF PathInv, StaysAsItIs, Running
    <3>5. PostInv'
      BY <2>1, <2>5, <3>1 DEF Inv, PostInv, StaysAsItIs
    <3>6. PastInv' /\ PhaseInv'
      BY <2>1, <3>1 DEF Inv, PastInv, PhaseInv, StaysAsItIs
    <3>7. RestInv' /\ ExitInv'
      <4>1. ~Failure'
        BY <3>1 DEF Failure
      <4> QED
        BY <2>1, <2>2, <2>5, <4>1 DEF RestInv, ExitInv, StaysAsItIs
    <3> QED
      BY <3>2, <3>3, <3>4, <3>5, <3>6, <3>7 DEF Inv
  <2> QED
    BY <2>2, <2>3, <2>4, <2>5
<1>2. CASE PostAnswered
  <2>1. pc = "post" /\ handled /\ UNCHANGED ctx /\ StaysAsItIs
    BY <1>2 DEF PostAnswered, Answered, Quiet, StaysAsItIs, post, server
  <2>2. /\ outcome = "in progress" /\ opts.command = "start" /\ ~opts.dryRun
        /\ created # 0
    BY <2>1 DEF Inv, PastInv, PathInv, PostInv, Shapes, Options
  <2>3. CASE opts.wait
    <3>1. Goto("poll")
      BY <1>2, <2>3 DEF PostAnswered
    <3> QED
      BY <2>1, <2>2, <2>3, <3>1, Going DEF PCs, Requests
  <2>4. CASE ~opts.wait
    <3>1. pc' = "exited" /\ exit' = 0
      BY <1>2, <2>4 DEF PostAnswered, Exit
    <3>2. Shapes'
      BY <2>1, <3>1, ShapesStay DEF Inv, PCs
    <3>3. Counts' /\ CountInv'
      BY <2>1, <3>1 DEF Inv, Counts, CountInv, StaysAsItIs
    <3>4. PathInv'
      <4>1. exit' # Running
        BY <3>1 DEF Running
      <4> QED
        BY <2>1, <2>2, <3>1, <4>1 DEF PathInv, StaysAsItIs
    <3>5. PostInv'
      BY <2>1, <2>2, <3>1 DEF Inv, PostInv, StaysAsItIs
    <3>6. PastInv' /\ PhaseInv'
      BY <2>1, <3>1 DEF Inv, PastInv, PhaseInv, StaysAsItIs
    <3>7. RestInv' /\ ExitInv'
      BY <2>1, <2>2, <2>4, <3>1 DEF RestInv, ExitInv, StaysAsItIs
    <3> QED
      BY <3>2, <3>3, <3>4, <3>5, <3>6, <3>7 DEF Inv
  <2> QED
    BY <2>3, <2>4
<1>3. CASE PostFails /\ attempt < MaxRetries
  <2>1. /\ pc = "post" /\ lost' = (lost \/ handled) /\ attempt' = attempt + 1 /\ handled' = FALSE
        /\ UNCHANGED <<pc, exit, ctx, opts, outcome, summary, created, run, past>>
    BY <1>3 DEF PostFails, Answered, Goto, local, server
  <2>2. attempt \in Nat /\ created \in Nat /\ MaxRetries \in Nat
    BY MaxRetriesAssumption DEF Inv, Counts
  <2>3. Shapes'
    BY <2>1 DEF Inv, Shapes
  <2>4. Counts'
    BY <1>3, <2>1, <2>2 DEF Inv, Counts
  <2>5. CountInv'
    <3>1. created <= attempt + 1
      BY <2>2 DEF Inv, CountInv
    <3>2. created > 1 => lost'
      BY <2>1 DEF Inv, CountInv
    <3> QED
      BY <2>1, <3>1, <3>2 DEF CountInv
  <2>6. PathInv' /\ PhaseInv'
    BY <2>1 DEF Inv, PathInv, PhaseInv
  <2>7. PostInv'
    BY <2>1 DEF Inv, PostInv
  <2>8. PastInv' /\ RestInv'
    BY <2>1 DEF Inv, PastInv, RestInv, Waiting
  <2>9. ExitInv'
    BY <2>1, Undisplayed DEF ExitInv, Displayed
  <2> QED
    BY <2>3, <2>4, <2>5, <2>6, <2>7, <2>8, <2>9 DEF Inv
<1>4. CASE PostFails /\ ~(attempt < MaxRetries)
  <2>1. /\ pc = "post" /\ lost' = (lost \/ handled)
        /\ pc' = "exited" /\ exit' = 5
        /\ UNCHANGED <<attempt, handled, ctx, opts, outcome, summary, created, run, past>>
    BY <1>4, Codes DEF PostFails, Answered, Exit, local, server
  <2>2. Shapes'
    BY <2>1 DEF Inv, Shapes, PCs
  <2>3. Counts' /\ CountInv'
    BY <2>1 DEF Inv, Counts, CountInv
  <2>4. PathInv'
    <3>1. exit' # Running
      BY <2>1 DEF Running
    <3> QED
      BY <2>1, <3>1 DEF PathInv
  <2>8. exit' # 0 /\ ~Displayed'
    BY <2>1 DEF Displayed
  <2>5. PostInv'
    BY <2>1, <2>8 DEF Inv, PostInv
  <2>6. PastInv' /\ RestInv' /\ PhaseInv'
    BY <2>1 DEF Inv, PastInv, RestInv, PhaseInv, Waiting
  <2>7. ExitInv'
    BY <2>8 DEF ExitInv
  <2> QED
    BY <2>2, <2>3, <2>4, <2>5, <2>6, <2>7 DEF Inv
<1> QED
  BY <1>1, <1>2, <1>3, <1>4

-----------------------------------------------------------------------------
\* The poll, which is the only one to set the outcome, and the sleep.
LEMMA PollStep ==
    ASSUME Inv, Poll \/ Sleep
    PROVE  Inv'
<1>1. CASE Poll
  <2>1. /\ pc = "poll" /\ exit' = exit
        /\ UNCHANGED <<opts, ctx, attempt, handled, summary, run, created, lost, past>>
        /\ outcome' = Classify(run.status, run.confirmable)
        /\ pc' = IF outcome' = "in progress" THEN "sleep" ELSE "summary"
    BY <1>1 DEF Poll, Answered, Goto, Quiet, post, server
  <2>2. /\ opts.command = "start" /\ ~opts.dryRun /\ opts.wait /\ created # 0
        /\ run.status \in past /\ (run.confirmable => "confirmable" \in past)
    BY <2>1 DEF Inv, Shapes, Options, PathInv, PostInv, PastInv
  <2>3. /\ outcome' \in {"in progress", "succeeded", "failed", "awaiting confirm"}
        /\ outcome' = "succeeded" => run.status \in Succeeded
        /\ outcome' = "failed" => run.status \in Failed /\ run.status \notin Succeeded
        /\ outcome' = "awaiting confirm" => run.confirmable
    BY <2>1 DEF Classify
  <2>4. Shapes'
    BY <2>1, <2>3 DEF Inv, Shapes, PCs, Requests
  <2>5. Counts' /\ CountInv'
    BY <2>1 DEF Inv, Counts, CountInv
  <2>6. PathInv' /\ PhaseInv'
    BY <2>1, <2>2 DEF Inv, PathInv, PhaseInv
  <2>7. PostInv'
    BY <2>1, <2>2 DEF Inv, PostInv
  <2>8. PastInv'
    BY <2>1, <2>2, <2>3 DEF Inv, PastInv
  <2>9. RestInv'
    BY <2>1, <2>2, <2>3 DEF Inv, RestInv, Final, Succeeded, Failed
  <2>10. ExitInv'
    BY <2>1, Undisplayed DEF ExitInv, Displayed
  <2> QED
    BY <2>4, <2>5, <2>6, <2>7, <2>8, <2>9, <2>10 DEF Inv
<1>2. CASE Sleep
  <2>1. pc = "sleep" /\ UNCHANGED ctx /\ StaysAsItIs
    BY <1>2 DEF Sleep, Quiet, StaysAsItIs, post, server
  <2>2. /\ outcome = "in progress" /\ opts.command = "start" /\ ~opts.dryRun /\ opts.wait
        /\ created # 0
    BY <2>1 DEF Inv, PastInv, PathInv, PostInv, Shapes, Options
  <2>3. CASE Goto("poll")
    BY <2>1, <2>2, <2>3, Going DEF PCs, Requests
  <2>4. CASE Exit(ErrorToExitCode(CtxErr))
    <3>1. ErrorToExitCode(CtxErr) \in {1, 130}
      BY Codes DEF CtxErr
    <3> QED
      BY <2>1, <2>4, <3>1, GivingUp
  <2> QED
    BY <1>2, <2>3, <2>4 DEF Sleep
<1> QED
  BY <1>1, <1>2

\* The requests of NewRunSummary.
LEMMA FetchStep ==
    ASSUME Inv, Fetch \/ FetchLog
    PROVE  Inv'
<1>1. CASE FetchRun
  <2>1. /\ pc = "summary" /\ exit' = exit /\ pc' \in {"checks", "plan", "url"}
        /\ UNCHANGED <<opts, ctx, attempt, handled, outcome, run, created, lost, past>>
    BY <1>1 DEF FetchRun, Answered, Goto, Quiet, post, server
  <2>2. /\ summary' \in [status : Statuses,
                         phase : {"none", "policy_check", "plan", "stage", "apply"},
                         evidence : {"none", "check", "stage", "log"}]
        /\ summary'.status = run.status /\ summary'.evidence = "none"
    BY <1>1 DEF FetchRun, Inv, Shapes
  <2>3. Shapes'
    BY <2>1, <2>2 DEF Inv, Shapes, PCs, Requests
  <2>4. Counts' /\ CountInv'
    BY <2>1 DEF Inv, Counts, CountInv
  <2>5. PathInv'
    BY <2>1 DEF Inv, PathInv
  <2>6. PostInv'
    BY <2>1 DEF Inv, PostInv
  <2>7. PastInv'
    BY <2>1 DEF Inv, PastInv, Waiting
  <2>8. RestInv'
    BY <2>1, <2>2 DEF Inv, RestInv
  <2>9. ExitInv'
    BY <2>1, Undisplayed DEF ExitInv, Displayed
  <2>10. PhaseInv'
    BY <2>1, <2>2 DEF PhaseInv
  <2> QED
    BY <2>3, <2>4, <2>5, <2>6, <2>7, <2>8, <2>9, <2>10 DEF Inv
<1>2. CASE FetchPlan
  BY <1>2, Summarising DEF FetchPlan, Answered, Inv, Shapes
<1>3. CASE FetchChecks
  BY <1>3, Summarising DEF FetchChecks, Answered, Inv, Shapes
<1>4. CASE FetchOutput
  BY <1>4, Summarising DEF FetchOutput, Answered, Inv, Shapes, PhaseInv
<1>5. ASSUME WithoutEvidence, pc \in {"stages", "details"} PROVE Inv'
  BY <1>5, Summarising DEF WithoutEvidence, Inv, Shapes
<1>6. CASE FetchStages
  BY <1>5, <1>6, Summarising DEF FetchStages, Answered
<1>7. CASE FetchDetails
  BY <1>5, <1>7, Summarising DEF FetchDetails, Answered, Inv, PhaseInv
<1>8. CASE FetchApply
  <2>1. CASE "applying" \in past
    BY <1>8, <2>1, Summarising DEF FetchApply, Answered, Inv, PhaseInv
  <2>2. CASE "applying" \notin past
    <3>1. pc = "apply" /\ Exit(1) /\ UNCHANGED ctx /\ StaysAsItIs
      BY <1>8, <2>2, Codes DEF FetchApply, Answered, Quiet, StaysAsItIs, post, server
    <3> QED
      BY <3>1, GivingUp
  <2> QED
    BY <2>1, <2>2
<1>9. CASE FetchLog
  BY <1>9, Summarising DEF FetchLog, Inv, PhaseInv
<1> QED
  BY <1>1, <1>2, <1>3, <1>4, <1>6, <1>7, <1>8, <1>9 DEF Fetch

\* The end of a command that has displayed the run.
LEMMA DisplayStep ==
    ASSUME Inv, Display
    PROVE  Inv'
<1>1. /\ pc = "url" /\ pc' = "exited" /\ exit' \in {0, 6}
      /\ UNCHANGED ctx /\ StaysAsItIs
  BY Codes DEF Display, Exit, Quiet, StaysAsItIs, post, server
<1>2. opts.command = "start" => (exit' = 6 <=> outcome = "failed")
  <2>1. ErrorToExitCode({"underlying"}) = 6
    BY Codes
  <2>2. CASE opts.command = "start" /\ outcome = "failed"
    BY <2>1, <2>2 DEF Display, Exit
  <2>3. CASE opts.command = "start" /\ outcome # "failed"
    <3>1. exit' = 0
      BY <2>3 DEF Display, Exit
    <3> QED
      BY <2>3, <3>1
  <2> QED
    BY <2>2, <2>3
<1>3. opts.command \in {"start", "status"} /\ (opts.wait => opts.command = "start")
  BY DEF Inv, Shapes, Options
<1>4. Shapes'
  BY <1>1, ShapesStay DEF Inv, PCs
<1>5. Counts' /\ CountInv'
  BY <1>1, CountsStay DEF Inv
<1>6. PathInv'
  <2>1. exit' # Running
    BY <1>1 DEF Running
  <2> QED
    BY <1>1, <2>1 DEF PathInv
<1>7. PostInv'
  BY <1>1 DEF Inv, PostInv, StaysAsItIs
<1>8. PastInv' /\ RestInv' /\ PhaseInv'
  BY <1>1 DEF Inv, PastInv, RestInv, PhaseInv, StaysAsItIs, Waiting
<1>9. ExitInv'
  <2>1. opts.wait => (Failure' <=> outcome = "failed")
    BY <1>2, <1>3 DEF Failure
  <2>3. opts.wait => ~opts.dryRun
    BY <1>1, <1>3 DEF Inv, PathInv
  <2>2. opts.wait /\ ~opts.dryRun => outcome # "in progress"
    BY <1>1, <1>3 DEF Inv, PastInv, Waiting
  <2> QED
    BY <1>1, <2>1, <2>2, <2>3 DEF Inv, Shapes, RestInv, ExitInv, StaysAsItIs
<1> QED
  BY <1>4, <1>5, <1>6, <1>7, <1>8, <1>9 DEF Inv

LEMMA Invariance == Spec => []Inv
<1>1. Inv /\ [Next]_vars => Inv'
  <2> SUFFICES ASSUME Inv, [Next]_vars PROVE Inv'
    OBVIOUS
  <2>1. CASE Next
    BY <2>1, WorldStep, FailingStep, StartStep, PollStep, FetchStep, DisplayStep
    DEF Next, Answer, Own
  <2>2. CASE UNCHANGED vars
    <3>1. Counts' /\ CountInv'
      BY <2>2 DEF vars, Inv, Counts, CountInv
    <3>2. Shapes'
      BY <2>2 DEF vars, Inv, Shapes
    <3>3. PathInv'
      BY <2>2 DEF vars, Inv, PathInv
    <3>4. PostInv'
      BY <2>2 DEF vars, Inv, PostInv
    <3>5. PastInv' /\ RestInv'
      BY <2>2 DEF vars, Inv, PastInv, RestInv, Waiting
    <3>6. PhaseInv'
      BY <2>2 DEF vars, Inv, PhaseInv
    <3>7. ExitInv'
      BY <2>2 DEF vars, Inv, ExitInv, Displayed, Failure
    <3> QED
      BY <3>1, <3>2, <3>3, <3>4, <3>5, <3>6, <3>7 DEF Inv
  <2> QED
    BY <2>1, <2>2
<1> QED
  BY <1>1, InitInv, PTL DEF Spec

-----------------------------------------------------------------------------
THEOREM TypeCorrect == Spec => []TypeOK
<1>1. Inv => TypeOK
  BY DEF Inv, Counts, Shapes, TypeOK
<1> QED
  BY <1>1, Invariance, PTL

\* However often the POST is tried again, a second run is created only if the
\* server's answer to the first was a failure; and a start that reports success
\* has created one.
THEOREM StartsOnce == Spec => []OneRunPerStart
<1>1. Inv => OneRunPerStart
  <2> SUFFICES ASSUME Inv PROVE OneRunPerStart
    OBVIOUS
  <2>1. created \in Nat
    BY MaxRetriesAssumption DEF Inv, Counts
  <2>2. (created > 0) <=> created # 0
    BY <2>1
  <2> QED
    BY <2>2 DEF Inv, PostInv, CountInv, OneRunPerStart
<1> QED
  BY <1>1, Invariance, PTL

\* A wait reports success only of a run that has succeeded or waits to be
\* confirmed, and failure only of one that has failed, wherever it goes meanwhile.
THEOREM WaitIsEarned == Spec => []ExitIsEarned
<1>1. Inv => ExitIsEarned
  <2>1. ASSUME Inv, opts.wait, exit = 0, ~opts.dryRun
        PROVE  past \cap (Succeeded \cup {"confirmable"}) # {}
    <3>1. Displayed /\ ~Failure
      BY <2>1 DEF Displayed, Failure
    <3>2. outcome \in {"succeeded", "awaiting confirm"}
      BY <2>1, <3>1 DEF Inv, ExitInv, Shapes
    <3> QED
      BY <2>1, <3>2 DEF Inv, PastInv
  <2>2. ASSUME Inv, opts.wait, exit = 6
        PROVE  past \cap Failed # {}
    <3>1. Displayed /\ Failure
      BY <2>2 DEF Displayed, Failure
    <3>2. ~opts.dryRun
      BY <2>2, <3>1 DEF Inv, ExitInv
    <3>3. outcome = "failed"
      BY <2>2, <3>1, <3>2 DEF Inv, ExitInv
    <3> QED
      BY <2>2, <3>3 DEF Inv, PastInv
  <2> QED
    BY <2>1, <2>2 DEF ExitIsEarned
<1> QED
  BY <1>1, Invariance, PTL

\* What a wait displays of a run that stays where the poll has found it is what the
\* exit code says.
THEOREM DisplayAgrees == Spec => []FinalStatusSetsExit
<1>1. Inv => FinalStatusSetsExit
  <2> SUFFICES ASSUME Inv, opts.wait, exit \in {0, 6}, ~opts.dryRun,
                      outcome # "awaiting confirm", "policy_override" \notin past
               PROVE  (exit = 6) = (summary.status \in Failed)
    BY DEF FinalStatusSetsExit
  <2>1. /\ outcome # "in progress" /\ (Failure <=> outcome = "failed")
        /\ summary.status = run.status
    BY DEF Inv, ExitInv, Displayed
  <2>2. outcome \in {"succeeded", "failed"}
    BY <2>1 DEF Inv, Shapes
  <2>3. (outcome = "failed") <=> (run.status \in Failed)
    BY <2>2 DEF Inv, RestInv
  <2>4. Failure <=> summary.status \in Failed
    BY <2>1, <2>3
  <2>5. CASE Failure
    <3>1. (exit = 6) = TRUE /\ (summary.status \in Failed) = TRUE
      BY ONLY <2>4, <2>5 DEF Failure
    <3> QED
      BY ONLY <3>1
  <2>6. CASE ~Failure
    <3>1. (exit = 6) = FALSE /\ (summary.status \in Failed) = FALSE
      BY ONLY <2>4, <2>6 DEF Failure
    <3> QED
      BY ONLY <3>1
  <2> QED
    BY <2>5, <2>6
<1> QED
  BY <1>1, Invariance, PTL

\* Evidence is displayed under the phase it belongs to.
THEOREM EvidenceAgrees == Spec => []EvidenceFitsPhase
<1>1. Inv => EvidenceFitsPhase
  BY DEF Inv, PhaseInv, EvidenceFitsPhase
<1> QED
  BY <1>1, Invariance, PTL
=============================================================================

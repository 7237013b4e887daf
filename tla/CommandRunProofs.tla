-------------------------- MODULE CommandRunProofs ---------------------------
(***************************************************************************)
(* Proofs about CommandRun, for any command lines, environments and        *)
(* profiles, and any documents that are displayed.                         *)
(***************************************************************************)
EXTENDS CommandRun, TLAPS, WellFoundedInduction, FiniteSetTheorems, SequenceTheorems

Early  == {"start", "load", "dispatch", "parse", "prerun"}
Before == Early \cup {"telemetry", "auth", "arguments"}

\* The global flags have been applied; the command has been authenticated.
Applied == pc \in {"telemetry", "auth", "arguments", "run"} \/ outcome # "not run"
Checked == pc \in {"arguments", "run"} \/ outcome # "not run"

\* What a stage of the pipeline has established holds to the end.
StageInv ==
    /\ pc \in Before => outcome = "not run"
    /\ pc \in Early => profile = setup.active
    /\ pc = "prerun" \/ Applied => (flags.noRedact <=> "--no-redact" \in Given(rest))
    /\ Applied => profile = Selected
    /\ Checked => \/ command \in NoAuthRequired
                  \/ HasToken(profile)
                  \/ IsTopLevelCmd(Positionals(rest))

\* Displaying adds to the masked fields and leaves the mode alone.
RedactorInv ==
    /\ redactor = [mode |-> redactor.mode, masked |-> redactor.masked]
    /\ Applied => redactor.mode = ResolveMode(profile)

\* The shutdown goes through its steps in order.
ShutdownInv ==
    /\ telemetry = [mode |-> telemetry.mode, span |-> telemetry.span, status |-> telemetry.status]
    /\ telemetry.span = "ended" => pc = "exited" /\ telemetry.status = exit
    /\ pc = "exited" /\ setup.readable => telemetry.span # "open"
    /\ pc \in {"end", "exited"} /\ setup.readable /\ migration = "running" => interrupted

Inv == StageInv /\ RedactorInv /\ ShutdownInv

-----------------------------------------------------------------------------
LEMMA InitInv == Init => Inv
<1> SUFFICES ASSUME Init PROVE Inv
  OBVIOUS
<1> USE DEF Init, OutInit
<1>1. StageInv
  BY DEF StageInv, Applied, Checked, Early, Before
<1>2. RedactorInv
  BY DEF RedactorInv, Applied
<1>3. ShutdownInv
  BY DEF ShutdownInv
<1> QED
  BY <1>1, <1>2, <1>3 DEF Inv

\* The steps of realMain up to the command.
LEMMA MainStep ==
    ASSUME Inv, Prescan \/ LoadFails \/ Load \/ Dispatch
    PROVE  Inv'
<1> USE DEF Prescan, LoadFails, Load, Dispatch, outVars, Inv
<1>1. StageInv'
  BY DEF StageInv, Applied, Checked, Early, Before
<1>2. RedactorInv'
  BY DEF RedactorInv, StageInv, Applied, Before, Early
<1>3. ShutdownInv'
  BY DEF ShutdownInv
<1> QED
  BY <1>1, <1>2, <1>3

LEMMA ParseStep ==
    ASSUME Inv, ParseFlags
    PROVE  Inv'
<1> USE DEF ParseFlags, Refuse, outVars, Inv
<1>1. pc = "parse" /\ pc' \in {"prerun", "shutdown"} /\ outcome = "not run" /\ outcome' = outcome
  BY DEF StageInv, Before, Early
<1>2. StageInv'
  BY <1>1 DEF StageInv, Applied, Checked, Early, Before
<1>3. RedactorInv'
  BY <1>1 DEF RedactorInv, Applied
<1>4. ShutdownInv'
  BY DEF ShutdownInv
<1> QED
  BY <1>2, <1>3, <1>4

LEMMA ApplyStep ==
    ASSUME Inv, ApplyGlobalFlags
    PROVE  Inv'
<1> USE DEF ApplyGlobalFlags, Refuse, outVars, Inv
<1>1. pc = "prerun" /\ pc' \in {"telemetry", "shutdown"} /\ outcome = "not run" /\ outcome' = outcome
  BY DEF StageInv, Before, Early
<1>2. ASSUME pc' = "telemetry"
      PROVE  profile' = Selected /\ redactor' = [mode |-> ResolveMode(profile'), masked |-> {}]
  <2>1. ~((flags.other /\ ~setup.otherExists) \/ FormatsClash)
    BY <1>2
  <2>2. redactor' = [mode |-> ResolveMode(profile'), masked |-> {}]
    BY <2>1
  <2>3. profile = setup.active
    BY DEF StageInv, Early
  <2>4. profile' = Selected
    BY <2>1, <2>3 DEF Selected
  <2> QED
    BY <2>2, <2>4
<1>3. StageInv'
  BY <1>1, <1>2 DEF StageInv, Applied, Checked, Early, Before, Selected
<1>4. RedactorInv'
  <2>1. CASE pc' = "telemetry"
    <3>1. flags' = flags /\ setup' = setup
      OBVIOUS
    <3>2. redactor'.mode = ResolveMode(profile)'
      <4>1. redactor'.mode = ResolveMode(profile')
        BY <1>2, <2>1
      <4>2. ResolveMode(profile)' = ResolveMode(profile')
        BY ONLY <3>1 DEF ResolveMode
      <4> QED
        BY ONLY <4>1, <4>2
    <3> QED
      BY <1>2, <2>1, <3>2 DEF RedactorInv
  <2>2. CASE pc' = "shutdown"
    <3>1. redactor' = redactor
      BY <2>2
    <3> QED
      BY <1>1, <2>2, <3>1 DEF RedactorInv, Applied
  <2> QED
    BY <1>1, <2>1, <2>2
<1>5. ShutdownInv'
  BY DEF ShutdownInv
<1> QED
  BY <1>3, <1>4, <1>5

LEMMA CheckStep ==
    ASSUME Inv, StartCommand \/ IsAuthenticated \/ ValidateArgs
    PROVE  Inv'
<1> USE DEF StartCommand, IsAuthenticated, ValidateArgs, Refuse, outVars, Inv
<1>1. StageInv'
  BY DEF StageInv, Applied, Checked, Early, Before, Selected, HasToken
<1>2. RedactorInv'
  BY DEF RedactorInv, StageInv, Applied, ResolveMode, Before, Early
<1>3. ShutdownInv'
  BY DEF ShutdownInv
<1> QED
  BY <1>1, <1>2, <1>3

\* RunF returns to Command.Run; it leaves the redactor's mode alone.
LEMMA Runs ==
    ASSUME Inv, RunF
    PROVE  /\ pc = "run" /\ pc' = "shutdown"
           /\ UNCHANGED <<line, setup, rest, command, flags, profile, migration,
                          telemetry, interrupted>>
           /\ redactor' = [mode |-> redactor.mode, masked |-> redactor'.masked]
<1>1. pc = "run"
  BY DEF RunF
<1>2. redactor = [mode |-> redactor.mode, masked |-> redactor.masked]
  BY DEF Inv, RedactorInv
<1>3. \E code, out : Return(code, out)
  BY DEF RunF, ShowResponse, ShowRawBody, RawBodyBreaks, ShowNothing, ShowDryRun,
         RequestFails, RunChild, RunLocal, RunVersion
<1>4. \/ redactor' = redactor
      \/ \E masked : redactor' = [redactor EXCEPT !.masked = masked]
  BY DEF RunF, ShowResponse, ShowRawBody, RawBodyBreaks, ShowNothing, ShowDryRun,
         RequestFails, RunChild, RunLocal, RunVersion, Display, CopyRaw, ShowRequest, outVars
<1>5. redactor' = [mode |-> redactor.mode, masked |-> redactor'.masked]
  BY <1>2, <1>4
<1> QED
  BY <1>1, <1>3, <1>5 DEF Return

LEMMA RunStep ==
    ASSUME Inv, RunF
    PROVE  Inv'
<1>1. StageInv'
  BY Runs DEF Inv, StageInv, Applied, Checked, Early, Before, Selected, HasToken
<1>2. RedactorInv'
  <2>1. redactor.mode = ResolveMode(profile)
    BY Runs DEF Inv, RedactorInv, Applied
  <2>2. ResolveMode(profile)' = ResolveMode(profile)
    BY Runs DEF ResolveMode
  <2>3. redactor'.mode = redactor.mode
    BY Runs
  <2>4. redactor' = [mode |-> redactor'.mode, masked |-> redactor'.masked]
    BY Runs, <2>3
  <2> QED
    BY <2>1, <2>2, <2>3, <2>4 DEF RedactorInv
<1>3. ShutdownInv'
  BY Runs DEF Inv, ShutdownInv
<1> QED
  BY <1>1, <1>2, <1>3 DEF Inv

\* The shutdown, the goroutines and the signal.
LEMMA EndStep ==
    ASSUME Inv, WaitMigration \/ TelemetryShutdown \/ MigrationEnds \/ CheckpointEnds \/ Signal
    PROVE  Inv'
<1> USE DEF WaitMigration, TelemetryShutdown, MigrationEnds, CheckpointEnds, Signal, outVars, Inv
<1>1. StageInv'
  BY DEF StageInv, Applied, Checked, Early, Before, Selected, HasToken
<1>2. RedactorInv'
  BY DEF RedactorInv, Applied, ResolveMode
<1>3. ShutdownInv'
  BY DEF ShutdownInv
<1> QED
  BY <1>1, <1>2, <1>3

LEMMA StutterStep == Inv /\ UNCHANGED vars => Inv'
<1> SUFFICES ASSUME Inv, UNCHANGED vars PROVE Inv'
  OBVIOUS
<1> USE DEF vars, own, outVars, Inv
<1>1. StageInv'
  BY DEF StageInv, Applied, Checked, Selected, HasToken
<1>2. RedactorInv'
  BY DEF RedactorInv, Applied, ResolveMode
<1>3. ShutdownInv'
  BY DEF ShutdownInv
<1> QED
  BY <1>1, <1>2, <1>3

LEMMA Invariance == Spec => []Inv
<1>1. Inv /\ [Next]_vars => Inv'
  BY MainStep, ParseStep, ApplyStep, CheckStep, RunStep, EndStep, StutterStep DEF Next, Main
<1> QED
  BY <1>1, InitInv, PTL DEF Spec

-----------------------------------------------------------------------------
\* However flags, variables and profiles are combined, a command that needs a token
\* runs with one, but for the word that reads like a version flag.
THEOREM TokenIsThere == Spec => []RunsWithCredentials
<1>1. Inv => RunsWithCredentials
  BY DEF Inv, StageInv, Applied, Checked, RunsWithCredentials
<1> QED
  BY <1>1, Invariance, PTL

\* Masking is off only if the strongest setting that is present says "off".
THEOREM MaskingIsOn == Spec => []MaskingOffWasAsked
<1>1. Inv => MaskingOffWasAsked
  <2> SUFFICES ASSUME Inv, outcome # "not run", ResolveMode(profile) = "off", profile = Selected,
                      flags.noRedact <=> "--no-redact" \in Given(rest)
               PROVE  \/ "--no-redact" \in Given(rest)
                      \/ setup.redactVar = "off"
                      \/ setup.redactVar = "" /\ Selected.redact = "off"
    BY DEF Inv, StageInv, RedactorInv, Applied, MaskingOffWasAsked
  <2>1. \A setting : ParseMode(setting) = "off" => setting = "off"
    BY DEF ParseMode
  <2> QED
    BY <2>1 DEF ResolveMode
<1> QED
  BY <1>1, Invariance, PTL

\* Every way through the pipeline ends in the same shutdown.
THEOREM ShutdownCompletes == Spec => []ShutdownIsComplete
<1>1. Inv => ShutdownIsComplete
  BY DEF Inv, ShutdownInv, ShutdownIsComplete
<1> QED
  BY <1>1, Invariance, PTL

-----------------------------------------------------------------------------
\* Every nonempty set of natural numbers has a least element, ...
LEMMA Least ==
    ASSUME NEW T \in SUBSET Nat, T # {}
    PROVE  \E m \in T : \A n \in T : m <= n
<1> DEFINE R == OpToRel(<, Nat)
<1>1. IsWellFoundedOn(R, Nat)
  BY NatLessThanWellFounded
<1>2. \E m \in T : \A n \in T : <<n, m>> \notin R
  <2> HIDE DEF R
  <2> QED
    BY <1>1, WFMin
<1>3. \A m, n \in T : <<n, m>> \notin R => m <= n
  BY DEF OpToRel
<1> QED
  BY <1>2, <1>3

\* ... which is what induction needs.
LEMMA Induction ==
    ASSUME NEW T, 0 \in T, \A n \in Nat : n \in T => n + 1 \in T
    PROVE  Nat \subseteq T
<1> SUFFICES ASSUME ~(Nat \subseteq T) PROVE FALSE
  OBVIOUS
<1>1. PICK m \in Nat \ T : \A n \in Nat \ T : m <= n
  BY Least
<1>2. m # 0 /\ m - 1 \in Nat /\ m - 1 \in T
  BY <1>1
<1> QED
  BY <1>1, <1>2

\* What Without returns is made of the tokens that it does not drop.
LEMMA WithoutDrops ==
    ASSUME NEW S, NEW tokens \in Seq(S), NEW drop
    PROVE  Without(tokens, drop) \in Seq(ToSet(tokens) \ drop)
<1> DEFINE L == Len(tokens)
           R == ToSet(tokens) \ drop
           Step(seq, n) == IF tokens[n] \in drop THEN seq ELSE Append(seq, tokens[n])
           Eq(f, m) == f = [n \in 0..m |-> IF n = 0 THEN <<>> ELSE Step(f[n - 1], n)]
           T == {m \in Nat : \E f : Eq(f, m)}
<1>1. L \in Nat /\ DOMAIN tokens = 1..L
  OBVIOUS
<1>2. \E f : Eq(f, L)
  <2>1. 0 \in T
    <3>1. Eq([n \in 0..0 |-> <<>>], 0)
      OBVIOUS
    <3> QED
      BY <3>1
  <2>2. ASSUME NEW m \in Nat, m \in T PROVE m + 1 \in T
    <3>1. PICK f : Eq(f, m)
      BY <2>2
    <3> DEFINE g == [n \in 0..(m + 1) |-> IF n = m + 1 THEN Step(f[m], m + 1) ELSE f[n]]
    <3> HIDE DEF Step
    <3>2. \A n \in 0..(m + 1) : g[n] = IF n = 0 THEN <<>> ELSE Step(g[n - 1], n)
      BY <3>1
    <3>3. Eq(g, m + 1)
      <4> HIDE DEF g
      <4> DEFINE h == [n \in 0..(m + 1) |-> IF n = 0 THEN <<>> ELSE Step(g[n - 1], n)]
      <4>1. g = [n \in 0..(m + 1) |-> g[n]]
        BY DEF g
      <4>2. h = [n \in 0..(m + 1) |-> h[n]] /\ \A n \in 0..(m + 1) : h[n] = g[n]
        BY <3>2
      <4>3. g = h
        <5> HIDE DEF h
        <5> QED
          BY <4>1, <4>2
      <4> QED
        BY <4>3
    <3>4. \E e : Eq(e, m + 1)
      <4> HIDE DEF g, Eq
      <4> QED
        BY <3>3
    <3> QED
      BY <3>4
  <2>3. L \in T
    <3> HIDE DEF T
    <3> QED
      BY <1>1, <2>1, <2>2, Induction
  <2> QED
    BY <2>3
<1> DEFINE kept == CHOOSE f : Eq(f, L)
<1>3. Without(tokens, drop) = kept[L]
  BY DEF Without
<1>4. Eq(kept, L)
  <2> HIDE DEF Eq
  <2> QED
    BY <1>2
<1>8. \A n \in 0..L : kept[n] = IF n = 0 THEN <<>> ELSE Step(kept[n - 1], n)
  <2> HIDE DEF kept, Step
  <2> QED
    BY <1>4
<1> HIDE DEF kept
<1> DEFINE U == {m \in Nat : m <= L => kept[m] \in Seq(R)}
<1> HIDE DEF R
<1>5. L \in U
  <2>1. 0 \in U
    <3>1. kept[0] = <<>>
      BY <1>1, <1>8
    <3>2. <<>> \in Seq(R)
      OBVIOUS
    <3>3. kept[0] \in Seq(R)
      BY <3>1, <3>2, Zenon
    <3> QED
      BY <3>3
  <2>2. ASSUME NEW m \in Nat, m \in U PROVE m + 1 \in U
    <3>1. CASE m + 1 <= L
      <4>1. kept[m] \in Seq(R) /\ kept[m + 1] = Step(kept[m], m + 1)
        <5> HIDE DEF Step
        <5> QED
          BY <1>1, <1>8, <2>2, <3>1
      <4>2. tokens[m + 1] \in drop \/ tokens[m + 1] \in R
        <5>1. m + 1 \in DOMAIN tokens
          BY <1>1, <3>1
        <5> QED
          BY <5>1 DEF R, ToSet
      <4> QED
        <5> HIDE DEF Step
        <5>1. Step(kept[m], m + 1) \in Seq(R)
          BY <4>1, <4>2 DEF Step
        <5> QED
          BY <4>1, <5>1
    <3>2. CASE ~(m + 1 <= L)
      BY <3>2
    <3> QED
      BY <3>1, <3>2
  <2> HIDE DEF U
  <2> QED
    BY <1>1, <2>1, <2>2, Induction
<1> QED
  BY <1>1, <1>3, <1>5 DEF R

\* Max is the greatest element of a nonempty set of bounded naturals.
LEMMA Greatest ==
    ASSUME NEW n \in Nat, NEW T \in SUBSET (0..n), T # {}
    PROVE  Max(T) \in T /\ \A i \in T : i <= Max(T)
<1> DEFINE Above == {m \in Nat : \A i \in T : i <= m}
<1>1. n \in Above
  OBVIOUS
<1>2. PICK m \in Above : \A k \in Above : m <= k
  <2> HIDE DEF Above
  <2>1. Above \in SUBSET Nat
    BY DEF Above
  <2> QED
    BY <1>1, <2>1, Least
<1>3. m \in T
  <2> SUFFICES ASSUME m \notin T PROVE FALSE
    OBVIOUS
  <2>1. PICK i \in T : TRUE
    OBVIOUS
  <2>2. m - 1 \in Above
    BY <1>2, <2>1
  <2> QED
    BY <1>2, <2>2
<1>4. \E x \in T : \A y \in T : x >= y
  BY <1>2, <1>3
<1>5. Max(T) \in T /\ \A y \in T : Max(T) >= y
  BY <1>4 DEF Max
<1> QED
  BY <1>5

\* What is read as flags is a prefix of the tokens.
LEMMA BeforeDashesIsPrefix ==
    ASSUME NEW S, NEW tokens \in Seq(S)
    PROVE  \E n \in 0..Len(tokens) : BeforeDashes(tokens) = SubSeq(tokens, 1, n)
<1>1. CASE \A i \in DOMAIN tokens : tokens[i] # "--"
  BY <1>1 DEF BeforeDashes
<1>2. CASE \E i \in DOMAIN tokens : tokens[i] = "--"
  <2> DEFINE T == {i \in DOMAIN tokens : tokens[i] = "--"}
             IsFirst(i) == tokens[i] = "--" /\ \A j \in 1..(i - 1) : tokens[j] # "--"
  <2>1. PICK i \in T : \A j \in T : i <= j
    <3>1. T \in SUBSET Nat /\ T # {}
      BY <1>2
    <3> HIDE DEF T
    <3> QED
      BY <3>1, Least
  <2>2. i \in DOMAIN tokens /\ IsFirst(i)
    BY <2>1
  <2>3. (CHOOSE k \in DOMAIN tokens : IsFirst(k)) \in DOMAIN tokens
    <3> HIDE DEF IsFirst
    <3> QED
      BY <2>2
  <2> DEFINE c == CHOOSE k \in DOMAIN tokens : IsFirst(k)
  <2>4. BeforeDashes(tokens) = SubSeq(tokens, 1, c - 1)
    BY <1>2 DEF BeforeDashes
  <2>5. c \in DOMAIN tokens
    BY <2>3
  <2> HIDE DEF c
  <2> QED
    BY <2>4, <2>5
<1> QED
  BY <1>1, <1>2

\* LastOf returns "none" or one of the tokens.
LEMMA LastOfIsGiven ==
    ASSUME NEW S, NEW tokens \in Seq(S), NEW family, LastOf(tokens, family) # "none"
    PROVE  LastOf(tokens, family) \in ToSet(tokens)
<1> DEFINE those == {i \in DOMAIN BeforeDashes(tokens) : tokens[i] \in family}
<1>1. DOMAIN BeforeDashes(tokens) \subseteq DOMAIN tokens
  BY BeforeDashesIsPrefix
<1>2. those # {} /\ LastOf(tokens, family) = tokens[Max(those)]
  BY DEF LastOf
<1>3. Max(those) \in those
  <2>1. those \in SUBSET (0..Len(tokens)) /\ Len(tokens) \in Nat
    BY <1>1
  <2> HIDE DEF those
  <2> QED
    BY <1>2, <2>1, Greatest
<1> QED
  BY <1>1, <1>2, <1>3 DEF ToSet

\* The tokens, "version" among them: it is put before a line that asks for the version.
Tokens == STRING \cup {"version"}

\* The command's arguments are tokens of the line, and the parsed flag is what they
\* say; a migration is started only by a line without the bare flag.
LineInv ==
    /\ line \in Lines /\ rest \in Seq(Tokens)
    /\ "--dry-run" \in ToSet(rest) => "--dry-run" \in ToSet(line)
    /\ migration # "off" => pc # "start" /\ "--dry-run" \notin ToSet(line)
    /\ pc = "prerun" \/ Applied =>
          (flags.dryRun <=> LastOf(rest, DryRunFlags) \in {"--dry-run", "--dry-run=1"})

\* What is left of the line for the command is a part of it.
LEMMA DispatchLine ==
    ASSUME LineInv, Dispatch
    PROVE  rest' \in Seq(Tokens) /\ ("--dry-run" \in ToSet(rest') => "--dry-run" \in ToSet(line))
<1>1. CASE rest' = rest
  BY <1>1 DEF LineInv
<1>2. CASE Words # <<>> /\ rest' = SubSeq(Arguments, Position + 1, Len(Arguments))
  <2>1. line \in Seq(Tokens)
    BY LinesAssumption, SeqMonotonic DEF LineInv, Tokens
  <2>2. Without(line, VersionFlags) \in Seq(ToSet(line) \ VersionFlags)
    BY <2>1, WithoutDrops
  <2>3. Arguments \in Seq(Tokens)
    <3>1. ToSet(line) \subseteq Tokens
      BY <2>1 DEF ToSet
    <3>2. Without(line, VersionFlags) \in Seq(Tokens)
      BY <2>2, <3>1
    <3> DEFINE w == Without(line, VersionFlags)
    <3>3. Arguments \in {<<"version">> \o w, line}
      BY DEF Arguments
    <3>4. w \in Seq(Tokens)
      BY <3>2
    <3>5. <<"version">> \in Seq(Tokens)
      BY DEF Tokens
    <3> HIDE DEF w
    <3>6. <<"version">> \o w \in Seq(Tokens)
      BY <3>4, <3>5, ConcatProperties
    <3> QED
      BY <2>1, <3>3, <3>6
  <2>4. \A i \in DOMAIN Arguments : Arguments[i] = "--dry-run" => "--dry-run" \in ToSet(line)
    <3> SUFFICES ASSUME NEW i \in DOMAIN Arguments, Arguments[i] = "--dry-run"
                 PROVE  "--dry-run" \in ToSet(line)
      OBVIOUS
    <3>1. CASE ~IsVersion(line)
      BY <3>1 DEF Arguments, ToSet
    <3>2. CASE IsVersion(line)
      <4> DEFINE w == Without(line, VersionFlags)
      <4>1. Arguments = <<"version">> \o w
        BY <3>2 DEF Arguments
      <4> HIDE DEF w
      <4>2. i # 1 /\ i - 1 \in DOMAIN w /\ w[i - 1] = "--dry-run"
        BY <2>2, <4>1 DEF w
      <4> QED
        BY <2>2, <4>2 DEF w
    <3> QED
      BY <3>1, <3>2
  <2>5. Position \in DOMAIN Arguments
    <3> DEFINE T == {i \in DOMAIN Arguments : ~IsFlag(Arguments[i])}
               IsFirst(i) == ~IsFlag(Arguments[i]) /\ \A j \in 1..(i - 1) : IsFlag(Arguments[j])
    <3>1. T # {}
      <4>1. PICK n \in 0..Len(Arguments) : BeforeDashes(Arguments) = SubSeq(Arguments, 1, n)
        BY <2>3, BeforeDashesIsPrefix
      <4>2. BeforeDashes(Arguments) \in Seq(Tokens)
        BY <2>3, <4>1
      <4>3. Words \in Seq(ToSet(BeforeDashes(Arguments)) \ FlagTokens)
        BY <4>2, WithoutDrops DEF Words
      <4>4. Words[1] \in ToSet(BeforeDashes(Arguments)) \ FlagTokens
        BY <1>2, <4>3
      <4>5. PICK i \in DOMAIN BeforeDashes(Arguments) : BeforeDashes(Arguments)[i] \notin FlagTokens
        BY <4>4 DEF ToSet
      <4>6. i \in DOMAIN Arguments /\ Arguments[i] \notin FlagTokens
        BY <2>3, <4>1, <4>5
      <4> QED
        BY <4>6 DEF IsFlag
    <3>2. PICK i \in T : \A j \in T : i <= j
      <4>1. T \in SUBSET Nat
        BY <2>3
      <4> HIDE DEF T
      <4> QED
        BY <3>1, <4>1, Least
    <3>3. i \in DOMAIN Arguments /\ IsFirst(i)
      BY <2>3, <3>2
    <3>4. (CHOOSE k \in DOMAIN Arguments : IsFirst(k)) \in DOMAIN Arguments
      <4> HIDE DEF IsFirst
      <4> QED
        BY <3>3
    <3> QED
      BY <3>4 DEF Position
  <2>6. rest' \in Seq(Tokens)
    BY <1>2, <2>3, <2>5
  <2>7. ToSet(rest') \subseteq ToSet(Arguments)
    BY <1>2, <2>3, <2>5 DEF ToSet
  <2> QED
    BY <2>4, <2>6, <2>7 DEF ToSet
<1> QED
  BY <1>1, <1>2 DEF Dispatch

LEMMA LineStep == Inv /\ LineInv /\ [Next]_vars => LineInv'
<1> SUFFICES ASSUME Inv, LineInv, [Next]_vars
             PROVE  LineInv'
  OBVIOUS
<1>1. CASE Prescan
  BY <1>1 DEF LineInv, Prescan, Inv, StageInv, Before, Early, Applied
<1>2. CASE Dispatch
  <2>1. line' = line /\ migration' = migration /\ pc' \in {"shutdown", "parse"} /\ outcome' = "not run"
    BY <1>2 DEF Dispatch, Inv, StageInv, Before, Early
  <2>2. pc = "dispatch"
    BY <1>2 DEF Dispatch
  <2> QED
    BY <1>2, <2>1, <2>2, DispatchLine DEF LineInv, Applied
<1>3. CASE ParseFlags
  <2>1. outcome' = "not run" /\ UNCHANGED <<line, rest, migration>> /\ pc' # "start"
        /\ (flags'.dryRun <=> LastOf(rest, DryRunFlags) \in {"--dry-run", "--dry-run=1"})
    BY <1>3 DEF ParseFlags, Refuse, Inv, StageInv, Before, Early
  <2> QED
    BY <2>1 DEF LineInv, LastOf
<1>4. ASSUME UNCHANGED <<line, rest, flags>>, migration' # "off" => migration # "off",
             pc' \in {"start", "prerun"} => pc' = pc, Applied' => Applied \/ pc = "prerun"
      PROVE  LineInv'
  BY <1>4 DEF LineInv
<1>5. CASE RunF
  BY <1>4, <1>5, Runs DEF Applied
<1>6. CASE \/ LoadFails \/ Load \/ ApplyGlobalFlags \/ StartCommand
           \/ IsAuthenticated \/ ValidateArgs \/ WaitMigration
           \/ TelemetryShutdown \/ MigrationEnds \/ CheckpointEnds \/ Signal \/ UNCHANGED vars
  BY <1>4, <1>6 DEF LoadFails, Load, ApplyGlobalFlags, StartCommand, IsAuthenticated, ValidateArgs,
     WaitMigration, TelemetryShutdown, MigrationEnds, CheckpointEnds, Signal, vars, own, Refuse,
     Applied
<1> QED
  BY <1>1, <1>2, <1>3, <1>5, <1>6 DEF Next, Main

LEMMA InitLine == Init => LineInv
<1>1. <<>> \in Seq(Tokens) /\ ToSet(<<>>) = {}
  BY DEF ToSet
<1> QED
  BY <1>1 DEF Init, LineInv, Applied

\* Wherever the flag stands on the line, a command that runs as a dry run has let no
\* migration start: the flag that the parser of flags obeys is on the line that was
\* scanned, unless it is spelled --dry-run=1.
THEOREM DryRunsMigrateNothing == Spec => []DryRunStartsNoMigration
<1>1. LineInv => DryRunStartsNoMigration
  <2> SUFFICES ASSUME LineInv, outcome # "not run", flags.dryRun, migration # "off",
                      LastOf(rest, DryRunFlags) # "--dry-run=1"
               PROVE  FALSE
    BY DEF DryRunStartsNoMigration
  <2>1. LastOf(rest, DryRunFlags) = "--dry-run"
    BY DEF LineInv, Applied
  <2>2. "--dry-run" \in ToSet(rest)
    BY <2>1, LastOfIsGiven DEF LineInv
  <2> QED
    BY <2>2 DEF LineInv
<1> QED
  BY <1>1, Invariance, InitLine, LineStep, PTL DEF Spec

-----------------------------------------------------------------------------
\* What the tables of views hold.
LEMMA ViewsOf ==
    ASSUME NEW mode \in Modes, NEW body \in Bodies
    PROVE  /\ EnvelopeFields[mode][body] = Fields(mode, Docs[body])
           /\ Visible[mode][body] = Apply(mode, Docs[body])
           /\ IsTree(Docs[body])
BY DocumentsAssumption DEF EnvelopeFields, Visible, Docs

LEMMA RowViewsOf ==
    ASSUME NEW mode \in Modes, NEW body \in Envelopes
    PROVE  /\ body \in Bodies
           /\ RowViews[mode][body] = {RowLeaves(mode, Docs[body], cols) : cols \in Columns(Docs[body])}
           /\ MaskedFields[mode][body] = EnvelopeFields[mode][body] \cup
                UNION {RowFields(mode, Row(Docs[body], b)) : b \in Bases(Docs[body])}
BY DEF RowViews, MaskedFields, Envelopes

\* The mode "off" hides nothing.
LEMMA NothingOff ==
    ASSUME NEW doc PROVE Apply("off", doc) = DOMAIN doc /\ Fields("off", doc) = {}
BY DEF Fields, Apply, Hidden, MatchAt, MatchKey, MatchValue

\* The documents are finite, and so are the sets of the fields that are masked in them.
LEMMA ImageFinite ==
    ASSUME NEW S, IsFiniteSet(S), NEW f, DOMAIN f = S
    PROVE  IsFiniteSet({f[x] : x \in S})
<1> DEFINE T == {f[x] : x \in S}
           g == [x \in S |-> f[x]]
<1>1. g \in Surjection(S, T)
  BY DEF Surjection
<1> QED
  BY <1>1, FS_Surjection

LEMMA FieldsFinite ==
    ASSUME NEW doc, IsTree(doc), NEW mode
    PROVE  IsFiniteSet(Fields(mode, doc))
<1> DEFINE S == DOMAIN doc \ Apply(mode, doc)
           f == [leaf \in S |-> MaskedField(mode, doc, leaf)]
<1>1. IsFiniteSet(S)
  BY FS_Subset DEF IsTree
<1>2. IsFiniteSet({f[leaf] : leaf \in S})
  <2>1. DOMAIN f = S
    OBVIOUS
  <2> HIDE DEF S, f
  <2> QED
    BY <1>1, <2>1, ImageFinite
<1>3. {f[leaf] : leaf \in S} = Fields(mode, doc)
  BY DEF Fields
<1> QED
  BY <1>2, <1>3

LEMMA RowFinite ==
    ASSUME NEW doc, IsTree(doc), NEW b
    PROVE  IsFiniteSet(DOMAIN Row(doc, b))
<1>1. IsFiniteSet(AttributePaths(doc, b))
  <2> DEFINE S == {q \in DOMAIN doc : /\ Len(q) > Len(b) + 1
                            /\ SubSeq(q, 1, Len(b) + 1) = Append(b, "attributes")}
             f == [p \in S |-> SubSeq(p, Len(b) + 2, Len(p))]
  <2>1. IsFiniteSet(S)
    BY FS_Subset DEF IsTree
  <2>2. DOMAIN f = S /\ AttributePaths(doc, b) = {f[p] : p \in S}
    BY DEF AttributePaths
  <2> HIDE DEF S, f
  <2> QED
    BY <2>1, <2>2, ImageFinite
<1>2. IsFiniteSet({<<r>> : r \in Relationships(doc, b)})
  <2> DEFINE S == {q \in DOMAIN doc : /\ Len(q) = Len(b) + 4
                            /\ q = RelationshipPath(b, q[Len(b) + 2])}
             f == [p \in S |-> <<p[Len(b) + 2]>>]
  <2>1. IsFiniteSet(S)
    BY FS_Subset DEF IsTree
  <2>2. DOMAIN f = S /\ {<<r>> : r \in Relationships(doc, b)} = {f[p] : p \in S}
    BY DEF Relationships
  <2> HIDE DEF S, f
  <2> QED
    BY <2>1, <2>2, ImageFinite
<1>3. IsFiniteSet({<<"id">>, TypeKey})
  <2>1. {<<"id">>, TypeKey} = {<<"id">>} \cup {TypeKey}
    OBVIOUS
  <2>2. IsFiniteSet({<<"id">>}) /\ IsFiniteSet({TypeKey})
    BY FS_Singleton
  <2> QED
    BY <2>1, <2>2, FS_Union
<1> DEFINE All == {<<"id">>, TypeKey} \cup AttributePaths(doc, b) \cup {<<r>> : r \in Relationships(doc, b)}
<1>4. IsFiniteSet(All)
  BY <1>1, <1>2, <1>3, FS_Union
<1>5. DOMAIN Row(doc, b) \subseteq All
  BY DEF Row, RowOf
<1> QED
  BY <1>4, <1>5, FS_Subset

LEMMA BasesFinite ==
    ASSUME NEW doc, IsTree(doc)
    PROVE  IsFiniteSet(Bases(doc))
<1> DEFINE S == {q \in DOMAIN doc : q[1] = "data"}
           f == [p \in S |-> <<"data", p[2]>>]
<1>1. IsFiniteSet(S)
  BY FS_Subset DEF IsTree
<1>2. DOMAIN f = S /\ Bases(doc) \in {{f[p] : p \in S}, {<<"data">>}}
  BY DEF Bases
<1> HIDE DEF S, f
<1>3. IsFiniteSet({f[p] : p \in S})
  BY <1>1, <1>2, ImageFinite
<1>4. IsFiniteSet({<<"data">>})
  BY FS_Singleton
<1> QED
  BY <1>2, <1>3, <1>4

LEMMA MaskedFinite ==
    ASSUME NEW mode \in Modes, NEW body \in Envelopes
    PROVE  IsFiniteSet(MaskedFields[mode][body])
<1> DEFINE D == Docs[body]
           f == [b \in Bases(D) |-> RowFields(mode, Row(D, b))]
           S == {f[b] : b \in Bases(D)}
<1>1. IsTree(D)
  BY ViewsOf, RowViewsOf
<1>2. IsFiniteSet(Fields(mode, D)) /\ IsFiniteSet(Bases(D))
  BY <1>1, FieldsFinite, BasesFinite
<1>3. IsFiniteSet(S)
  <2>1. DOMAIN f = Bases(D)
    OBVIOUS
  <2> HIDE DEF f
  <2> QED
    BY <1>2, <2>1, ImageFinite
<1>4. \A T \in S : IsFiniteSet(T)
  <2>1. ASSUME NEW b \in Bases(D) PROVE IsFiniteSet(RowFields(mode, Row(D, b)))
    BY <1>1, RowFinite, FS_Subset DEF RowFields
  <2> QED
    BY <2>1
<1>5. IsFiniteSet(UNION S)
  BY <1>3, <1>4, FS_UNION
<1>6. MaskedFields[mode][body] = Fields(mode, D) \cup UNION S
  BY ViewsOf, RowViewsOf
<1> HIDE DEF S
<1> QED
  BY <1>2, <1>5, <1>6, FS_Union

LEMMA HeadersFinite ==
    ASSUME NEW headers \in SUBSET Headers
    PROVE  IsFiniteSet(MaskedHeaders(headers))
<1> DEFINE S == {g \in headers : MatchKey(redactor.mode, g, "header", FALSE, Empty)}
           f == [h \in S |-> <<h>>]
<1>1. IsFiniteSet(S)
  BY LinesAssumption, FS_Subset
<1>2. DOMAIN f = S /\ MaskedHeaders(headers) = {f[h] : h \in S}
  BY DEF MaskedHeaders
<1> HIDE DEF S, f
<1> QED
  BY <1>1, <1>2, ImageFinite

\* The names on the paths of documents, with those that the code puts there.
Names == STRING \cup {"data", "attributes", "relationships", "id", "type", "sensitive", "key", "name"}

LEMMA LeafShape ==
    ASSUME NEW doc, IsTree(doc), NEW leaf \in DOMAIN doc
    PROVE  leaf \in Seq(Names) /\ Len(leaf) \in Nat \ {0}
<1>1. leaf \in Seq(STRING) /\ leaf # <<>>
  BY DEF IsTree
<1>2. leaf \in Seq(Names)
  BY <1>1, SeqMonotonic DEF Names
<1> QED
  BY <1>1, <1>2

LEMMA OneLong ==
    ASSUME NEW S, NEW s \in Seq(S), NEW i \in 1..Len(s)
    PROVE  SubSeq(s, i, i) = <<s[i]>>
<1>1. SubSeq(s, i, i) \in Seq(S) /\ Len(SubSeq(s, i, i)) = 1 /\ SubSeq(s, i, i)[1] = s[i]
  OBVIOUS
<1> DEFINE t == SubSeq(s, i, i)
           u == <<s[i]>>
<1>2. u \in Seq(S) /\ Len(u) = 1 /\ u[1] = s[i]
  OBVIOUS
<1>3. t \in Seq(S) /\ Len(t) = 1 /\ t[1] = s[i]
  BY <1>1
<1> HIDE DEF t, u
<1>4. t = u
  BY <1>2, <1>3, SeqEqual
<1> QED
  BY <1>4 DEF t, u

\* Where the resources of a document are.
LEMMA BaseShape ==
    ASSUME NEW doc, IsTree(doc), NEW b \in Bases(doc)
    PROVE  /\ b \in Seq(Names) /\ b[1] = "data"
           /\ Len(b) = IF IsCollection(doc) THEN 2 ELSE 1
           /\ IsCollection(doc) => b[2] \in ListIndexes
<1>1. CASE ~IsCollection(doc)
  <2>1. b = <<"data">>
    BY <1>1 DEF Bases
  <2>2. <<"data">> \in Seq(Names)
    BY DEF Names
  <2> QED
    BY <1>1, <2>1, <2>2
<1>2. CASE IsCollection(doc)
  <2>1. PICK p \in DOMAIN doc : p[1] = "data" /\ Len(p) > 1 /\ p[2] \in ListIndexes
    BY <1>2 DEF IsCollection
  <2>2. PICK q \in DOMAIN doc : q[1] = "data" /\ b = <<"data", q[2]>>
    BY <1>2 DEF Bases
  <2>3. p \in Seq(Names) /\ q \in Seq(Names) /\ Len(q) \in Nat \ {0} /\ Len(p) \in Nat
    BY LeafShape
  <2>4. SubSeq(p, 1, 1) = <<"data">> /\ SubSeq(q, 1, 1) = <<"data">>
    BY <2>1, <2>2, <2>3, OneLong
  <2>5. Len(q) > 1
    <3> DEFINE n == Len(q)
               m == Len(p)
    <3>4. n \in Nat /\ n # 0 /\ m \in Nat /\ m > 1
      BY <2>1, <2>3
    <3>5. n > 1 \/ n = 1
      <4> HIDE DEF n, m
      <4> QED
        BY <3>4
    <3> SUFFICES ASSUME Len(q) = 1 PROVE FALSE
      BY <3>5
    <3>1. SubSeq(q, 1, Len(q)) = q
      BY <2>3, SubSeqFull
    <3>2. n = 1
      OBVIOUS
    <3>6. SubSeq(p, 1, n) = q
      BY <2>4, <3>1, <3>2, Zenon
    <3>7. n <= m /\ n # m
      <4> HIDE DEF n, m
      <4> QED
        BY <3>2, <3>4
    <3>3. q = p
      BY <3>6, <3>7, Zenon DEF IsTree
    <3> QED
      BY <3>3, <3>7
  <2>6. 2 \in DOMAIN p \cap DOMAIN q
    BY <2>1, <2>3, <2>5
  <2>7. Prefix(p, 2 - 1) = Prefix(q, 2 - 1)
    <3>1. 2 - 1 = 1
      OBVIOUS
    <3> QED
      BY <2>4, <3>1, Zenon DEF Prefix
  <2>8. q[2] \in ListIndexes
    BY <2>1, <2>6, <2>7 DEF IsTree
  <2>9. q[2] \in Names
    BY <2>3, <2>5
  <2> QED
    BY <1>2, <2>2, <2>8, <2>9 DEF Names
<1> QED
  BY <1>1, <1>2

\* The path of the attribute a of the resource at b.
Entry(b, a) == Append(Append(b, "attributes"), a)

LEMMA EntryShape ==
    ASSUME NEW b \in Seq(Names), NEW a \in Names
    PROVE  /\ Entry(b, a) \in Seq(Names) /\ Len(Entry(b, a)) = Len(b) + 2
           /\ SubSeq(Entry(b, a), 1, Len(b) + 1) = Append(b, "attributes")
           /\ SubSeq(Entry(b, a), Len(b) + 2, Len(b) + 2) = <<a>>
           /\ Append(b, "attributes") \o <<a>> = Entry(b, a)
           /\ Entry(b, a)[Len(b) + 2] = a
<1> DEFINE c == Append(b, "attributes")
<1>1. c \in Seq(Names) /\ Len(c) = Len(b) + 1 /\ Len(b) \in Nat
  BY DEF Names
<1>2. Entry(b, a) = Append(c, a)
  BY DEF Entry
<1> HIDE DEF c
<1>3. Append(c, a) \in Seq(Names) /\ Len(Append(c, a)) = Len(c) + 1 /\ Append(c, a)[Len(c) + 1] = a
  BY <1>1
<1>4. SubSeq(Append(c, a), 1, Len(c)) = c
  <2>1. SubSeq(Append(c, a), 1, Len(c)) \in Seq(Names) /\ Len(SubSeq(Append(c, a), 1, Len(c))) = Len(c)
    BY <1>1, <1>3
  <2>2. \A i \in 1..Len(c) : SubSeq(Append(c, a), 1, Len(c))[i] = c[i]
    BY <1>1, <1>3
  <2> QED
    BY <1>1, <2>1, <2>2, SeqEqual
<1>5. c \o <<a>> = Append(c, a)
  BY <1>1, AppendIsConcat
<1>6. SubSeq(Append(c, a), Len(c) + 1, Len(c) + 1) = <<a>>
  <2> DEFINE e == Append(c, a)
  <2>1. e \in Seq(Names) /\ Len(c) + 1 \in 1..Len(e) /\ e[Len(c) + 1] = a
    BY <1>1, <1>3
  <2> HIDE DEF e
  <2>2. SubSeq(e, Len(c) + 1, Len(c) + 1) = <<a>>
    BY <2>1, OneLong
  <2> QED
    BY <2>2 DEF e
<1>7. c = Append(b, "attributes")
  BY DEF c
<1>8. Len(c) + 1 = Len(b) + 2
  BY <1>1
<1>9. SubSeq(Append(c, a), Len(b) + 2, Len(b) + 2) = <<a>>
  BY <1>6, <1>8, Zenon
<1>10. SubSeq(Append(c, a), 1, Len(b) + 1) = c
  BY <1>1, <1>4, Zenon
<1>11. Append(c, a)[Len(b) + 2] = a /\ Len(Append(c, a)) = Len(b) + 2
  BY <1>3, <1>8
<1> QED
  BY <1>2, <1>3, <1>5, <1>7, <1>9, <1>10, <1>11, Zenon

LEMMA AttributeEntry ==
    ASSUME NEW doc, IsTree(doc), NEW b \in Seq(Names), NEW a \in Names
    PROVE  <<a>> \in AttributePaths(doc, b) <=> Entry(b, a) \in DOMAIN doc
<1>1. ASSUME Entry(b, a) \in DOMAIN doc
      PROVE  <<a>> \in AttributePaths(doc, b)
  <2> DEFINE q == Entry(b, a)
  <2>1. Len(q) = Len(b) + 2 /\ SubSeq(q, 1, Len(b) + 1) = Append(b, "attributes")
        /\ SubSeq(q, Len(b) + 2, Len(b) + 2) = <<a>>
    BY EntryShape, Zenon
  <2> HIDE DEF q
  <2>2. q \in DOMAIN doc
    BY <1>1 DEF q
  <2> DEFINE n == Len(b)
  <2>4. n \in Nat
    OBVIOUS
  <2>5. Len(q) = n + 2 /\ <<a>> = SubSeq(q, n + 2, n + 2)
    BY <2>1, Zenon
  <2>6. Len(q) > n + 1
    <3> HIDE DEF n
    <3> QED
      BY <2>4, <2>5
  <2>3. Len(q) > Len(b) + 1 /\ <<a>> = SubSeq(q, Len(b) + 2, Len(q))
    BY <2>5, <2>6, Zenon
  <2> QED
    BY <2>1, <2>2, <2>3 DEF AttributePaths
<1>2. ASSUME <<a>> \in AttributePaths(doc, b)
      PROVE  Entry(b, a) \in DOMAIN doc
  <2>1. PICK q \in DOMAIN doc : /\ Len(q) > Len(b) + 1
                                /\ SubSeq(q, 1, Len(b) + 1) = Append(b, "attributes")
                                /\ <<a>> = SubSeq(q, Len(b) + 2, Len(q))
    BY <1>2 DEF AttributePaths
  <2>2. q \in Seq(Names) /\ Len(q) \in Nat
    BY LeafShape
  <2>3. Len(q) = Len(b) + 2
    <3>1. Len(SubSeq(q, Len(b) + 2, Len(q))) = Len(q) - Len(b) - 1
      BY <2>1, <2>2
    <3> QED
      BY <2>1, <2>2, <3>1
  <2>4. q[Len(b) + 2] = a
    BY <2>1, <2>2, <2>3
  <2>5. \A i \in 1..(Len(b) + 1) : q[i] = Append(b, "attributes")[i]
    BY <2>1, <2>2, <2>3
  <2>6. \A i \in 1..(Len(b) + 2) : q[i] = Entry(b, a)[i]
    BY <2>2, <2>3, <2>4, <2>5 DEF Entry
  <2>7. q = Entry(b, a)
    BY <2>2, <2>3, <2>6, EntryShape, SeqEqual
  <2> QED
    BY <2>7
<1> QED
  BY <1>1, <1>2

\* The leaf that a row's entry comes from.
Source(doc, b, key) ==
    IF Len(key) = 1 /\ key[1] \in Relationships(doc, b) THEN RelationshipPath(b, key[1])
    ELSE IF key \in AttributePaths(doc, b) THEN Append(b, "attributes") \o key
    ELSE Append(b, IF key = TypeKey THEN "type" ELSE "id")

LEMMA RowOfShape ==
    ASSUME NEW doc, NEW b, AttributePaths(doc, b) # {}
    PROVE  /\ \A key \in DOMAIN RowOf(doc, b) : RowOf(doc, b)[key] = Source(doc, b, key)
           /\ \A key \in DOMAIN RowOf(doc, b) :
                 key \in AttributePaths(doc, b) \/ (\E r \in Relationships(doc, b) : key = <<r>>)
                 \/ key \in {<<"id">>, TypeKey}
           /\ \A key \in AttributePaths(doc, b) :
                 key[1] \notin Relationships(doc, b) => key \in DOMAIN RowOf(doc, b)
           /\ DOMAIN Row(doc, b) = DOMAIN RowOf(doc, b)
           /\ \A key \in DOMAIN Row(doc, b) : Row(doc, b)[key] = doc[RowOf(doc, b)[key]]
<1> DEFINE attrs == AttributePaths(doc, b)
           rels == Relationships(doc, b)
           mine == (IF Append(b, "id") \in DOMAIN doc THEN {<<"id">>} ELSE {})
               \cup (IF Append(b, "type") \in DOMAIN doc THEN {TypeKey} ELSE {})
           All == mine \cup attrs \cup {<<r>> : r \in rels}
           source == [key \in All |-> Source(doc, b, key)]
           kept == {key \in All : key[1] \in rels => Len(key) = 1}
<1>1. RowOf(doc, b) = [key \in kept |-> source[key]]
  BY DEF RowOf, Source
<1>2. DOMAIN RowOf(doc, b) = kept /\ \A key \in kept : key \in All /\ RowOf(doc, b)[key] = Source(doc, b, key)
  <2> HIDE DEF All
  <2> QED
    BY <1>1
<1>3. \A key \in kept : key \in attrs \/ (\E r \in rels : key = <<r>>) \/ key \in {<<"id">>, TypeKey}
  OBVIOUS
<1>4. \A key \in attrs : key[1] \notin rels => key \in kept
  OBVIOUS
<1>5. DOMAIN Row(doc, b) = DOMAIN RowOf(doc, b) /\
      \A key \in DOMAIN Row(doc, b) : Row(doc, b)[key] = doc[RowOf(doc, b)[key]]
  BY DEF Row
<1> HIDE DEF kept
<1> QED
  BY <1>2, <1>3, <1>4, <1>5

\* An attribute that no relationship overwrites is the row's entry of its name.
LEMMA RowEntry ==
    ASSUME NEW doc, IsTree(doc), NEW b \in Seq(Names), NEW a \in Names \ Relationships(doc, b),
           AttributePaths(doc, b) # {}
    PROVE  /\ Entry(b, a) \in DOMAIN doc =>
                <<a>> \in DOMAIN Row(doc, b) /\ Row(doc, b)[<<a>>] = doc[Entry(b, a)]
           /\ <<a>> \in DOMAIN Row(doc, b) =>
                a = "id" \/ <<a>> = TypeKey \/ Entry(b, a) \in DOMAIN doc
<1>1. <<a>>[1] = a
  OBVIOUS
<1>2. ASSUME Entry(b, a) \in DOMAIN doc
      PROVE  <<a>> \in DOMAIN Row(doc, b) /\ Row(doc, b)[<<a>>] = doc[Entry(b, a)]
  <2>1. <<a>> \in AttributePaths(doc, b)
    BY <1>2, AttributeEntry
  <2>2. <<a>> \in DOMAIN Row(doc, b)
    BY <2>1, RowOfShape
  <2>3. Source(doc, b, <<a>>) = Append(b, "attributes") \o <<a>>
    BY <2>1 DEF Source
  <2>4. Append(b, "attributes") \o <<a>> = Entry(b, a)
    BY EntryShape
  <2>5. Row(doc, b)[<<a>>] = doc[RowOf(doc, b)[<<a>>]] /\ RowOf(doc, b)[<<a>>] = Source(doc, b, <<a>>)
    <3>1. DOMAIN Row(doc, b) = DOMAIN RowOf(doc, b)
      BY RowOfShape
    <3>2. \A key \in DOMAIN Row(doc, b) : Row(doc, b)[key] = doc[RowOf(doc, b)[key]]
      BY RowOfShape
    <3>3. \A key \in DOMAIN RowOf(doc, b) : RowOf(doc, b)[key] = Source(doc, b, key)
      BY RowOfShape
    <3> QED
      BY <2>2, <3>1, <3>2, <3>3, Zenon
  <2> QED
    BY <2>2, <2>3, <2>4, <2>5, Zenon
<1>3. ASSUME <<a>> \in DOMAIN Row(doc, b), a # "id", <<a>> # TypeKey
      PROVE  Entry(b, a) \in DOMAIN doc
  <2>1. \A r \in Relationships(doc, b) : <<a>> # <<r>>
    OBVIOUS
  <2>2. <<a>> # <<"id">>
    BY <1>3
  <2>3. <<a>> \in AttributePaths(doc, b)
    BY <1>3, <2>1, <2>2, RowOfShape
  <2> QED
    BY <2>3, AttributeEntry
<1> QED
  BY <1>2, <1>3

\* A leaf of a row that lies where the attributes do is an attribute.
LEMMA ShownEntry ==
    ASSUME NEW doc, IsTree(doc), NEW b \in Seq(Names), NEW key \in DOMAIN RowOf(doc, b),
           Len(RowOf(doc, b)[key]) = Len(b) + 2
    PROVE  \E a \in Names \ Relationships(doc, b) :
              /\ key = <<a>> /\ RowOf(doc, b)[key] = Entry(b, a) /\ Entry(b, a) \in DOMAIN doc
              /\ AttributePaths(doc, b) # {}
<1>1. Len(b) \in Nat
  OBVIOUS
<1>2. \A x \in Names : Len(Append(b, x)) = Len(b) + 1
  OBVIOUS
<1>3. CASE AttributePaths(doc, b) = {}
  <2>1. \A k \in DOMAIN RowOf(doc, b) : RowOf(doc, b)[k] \in {Append(b, "type"), Append(b, "id")}
    BY <1>3 DEF RowOf
  <2> QED
    BY <1>1, <1>2, <2>1 DEF Names
<1>4. CASE AttributePaths(doc, b) # {}
  <2>1. RowOf(doc, b)[key] = Source(doc, b, key)
    BY <1>4, RowOfShape
  <2>2. CASE Len(key) = 1 /\ key[1] \in Relationships(doc, b)
    <3>1. PICK q \in DOMAIN doc : key[1] = q[Len(b) + 2] /\ Len(q) = Len(b) + 4
      BY <2>2 DEF Relationships
    <3>2. q \in Seq(Names)
      BY LeafShape
    <3>3. key[1] \in Names
      BY <1>1, <3>1, <3>2
    <3>4. <<"relationships", key[1], "data", "id">> \in Seq(Names)
      BY <3>3 DEF Names
    <3>5. Len(RelationshipPath(b, key[1])) = Len(b) + 4
      BY <3>4 DEF RelationshipPath
    <3> QED
      BY <1>1, <2>1, <2>2, <3>5 DEF Source
  <2>3. CASE ~(Len(key) = 1 /\ key[1] \in Relationships(doc, b)) /\ key \in AttributePaths(doc, b)
    <3>1. PICK q \in DOMAIN doc : Len(q) > Len(b) + 1 /\ key = SubSeq(q, Len(b) + 2, Len(q))
      BY <2>3 DEF AttributePaths
    <3>2. q \in Seq(Names) /\ Len(q) \in Nat
      BY LeafShape
    <3>3. key \in Seq(Names) /\ Len(key) \in Nat
      BY <1>1, <3>1, <3>2
    <3>4. RowOf(doc, b)[key] = Append(b, "attributes") \o key
      BY <2>1, <2>3 DEF Source
    <3>5. Append(b, "attributes") \in Seq(Names) /\ Len(Append(b, "attributes")) = Len(b) + 1
      BY DEF Names
    <3>6. Len(Append(b, "attributes") \o key) = Len(b) + 1 + Len(key)
      BY <3>3, <3>5
    <3>7. Len(key) = 1
      <4> DEFINE n == Len(b)
                 m == Len(key)
      <4>1. n + 2 = n + 1 + m
        BY <3>4, <3>6, Zenon
      <4> HIDE DEF n, m
      <4>2. n \in Nat /\ m \in Nat
        BY <1>1, <3>3 DEF n, m
      <4>3. m = 1
        BY <4>1, <4>2
      <4> QED
        BY <4>3 DEF m
    <3>8. key = <<key[1]>> /\ key[1] \in Names
      <4>4. 1 \in 1..1
        OBVIOUS
      <4>5. 1 \in 1..Len(key)
        BY <3>7, <4>4, Zenon
      <4>1. 1 \in 1..Len(key) /\ key[1] \in Names
        BY <3>3, <4>5, ElementOfSeq
      <4>2. SubSeq(key, 1, 1) = <<key[1]>>
        BY <3>3, <4>1, OneLong
      <4>3. SubSeq(key, 1, Len(key)) = key
        BY <3>3, SubSeqFull
      <4> QED
        BY <3>7, <4>1, <4>2, <4>3, Zenon
    <3>9. key[1] \notin Relationships(doc, b)
      BY <2>3, <3>7
    <3> QED
      BY <1>4, <2>3, <3>4, <3>8, <3>9, EntryShape, AttributeEntry
  <2>4. CASE ~(Len(key) = 1 /\ key[1] \in Relationships(doc, b)) /\ key \notin AttributePaths(doc, b)
    BY <1>1, <1>2, <2>1, <2>4 DEF Source, Names
  <2> QED
    BY <2>2, <2>3, <2>4
<1> QED
  BY <1>3, <1>4

\* Nothing above an attribute is masked.
LEMMA AboveIsNotMasked ==
    ASSUME NEW doc, IsTree(doc), NEW b \in Bases(doc), NEW a \in Names, NEW mode,
           Entry(b, a) \in DOMAIN doc, NEW i \in 1..(Len(b) + 1)
    PROVE  ~MatchAt(mode, doc, Prefix(Entry(b, a), i))
<1> DEFINE leaf == Entry(b, a)
           p == Prefix(leaf, i)
<1>1. b \in Seq(Names) /\ Len(b) \in {1, 2} /\ b[1] = "data" /\ (Len(b) = 2 => b[2] \in ListIndexes)
  BY BaseShape
<1>2. leaf \in Seq(Names) /\ Len(leaf) = Len(b) + 2
  BY <1>1, EntryShape
<1>3. p \in Seq(Names) /\ Len(p) = i /\ p[i] = leaf[i]
  BY <1>1, <1>2 DEF Prefix
<1>4. leaf[i] \in ListIndexes \cup {"data", "attributes"}
  BY <1>1 DEF Entry, Names
<1>5. p \notin DOMAIN doc
  <2>1. p # leaf
    BY <1>1, <1>2, <1>3
  <2>2. Len(p) <= Len(leaf) /\ SubSeq(leaf, 1, Len(p)) = p
    BY <1>1, <1>2, <1>3 DEF Prefix
  <2> HIDE DEF leaf, p
  <2>3. leaf \in DOMAIN doc
    BY DEF leaf
  <2> QED
    BY <2>1, <2>2, <2>3 DEF IsTree
<1>6. Key(p) \in ListIndexes \cup {"data", "attributes"} /\ ValueAt(doc, p) = Container
  BY <1>3, <1>4, <1>5 DEF Key, ValueAt
<1> HIDE DEF p
<1>7. ASSUME Key(p) \notin ListIndexes
      PROVE  \A declared, hint : ~MatchKey(mode, Key(p), ValueAt(doc, p), declared, hint)
  <2>1. Key(p) \in {"data", "attributes"}
    BY <1>6, <1>7
  <2>2. Key(p) \notin KnownSecretFields \cup CapabilityURLFields \cup SensitiveNames
    BY <2>1, DocumentsAssumption
  <2>3. ~IsString(Container)
    BY DEF IsString
  <2> QED
    BY <1>6, <2>1, <2>2, <2>3 DEF MatchKey, MatchKnown, MatchName
<1> QED
  BY <1>7 DEF MatchAt, p

\* An attribute that the row shows is hidden by no key above it, and the names and the
\* flag beside it are those of the row: the document's mask shows it, too.
LEMMA FlatIsMaskedAlike ==
    ASSUME NEW doc, IsTree(doc), NEW mode, NEW cols, NEW leaf \in RowLeaves(mode, doc, cols),
           Flat(doc, leaf)
    PROVE  leaf \in Apply(mode, doc)
<1> DEFINE Of(b) == {RowOf(doc, b)[k] : k \in (cols \ {TypeKey}) \cap ApplyRow(mode, Row(doc, b))}
<1>1. RowLeaves(mode, doc, cols) = UNION {Of(b) : b \in Bases(doc)}
  BY Zenon DEF RowLeaves
<1>2. PICK b \in Bases(doc) : leaf \in Of(b)
  BY <1>1
<1>3. PICK key \in ApplyRow(mode, Row(doc, b)) : leaf = RowOf(doc, b)[key] /\ key # TypeKey
  BY <1>2
<1>4. PICK c \in Bases(doc) : /\ Len(leaf) = Len(c) + 2
                              /\ Prefix(leaf, Len(c) + 1) = Append(c, "attributes")
                              /\ Relationships(doc, c) \cap {"sensitive", "key", "name"} = {}
  BY DEF Flat
<1>5. b \in Seq(Names) /\ c \in Seq(Names) /\ Len(b) = Len(c)
  BY BaseShape, Zenon
<1>6. key \in DOMAIN Row(doc, b)
  BY <1>3 DEF ApplyRow
<1>7. PICK a \in Names \ Relationships(doc, b) :
         /\ key = <<a>> /\ RowOf(doc, b)[key] = Entry(b, a) /\ Entry(b, a) \in DOMAIN doc
         /\ AttributePaths(doc, b) # {}
  <2>1. key \in DOMAIN RowOf(doc, b)
    BY <1>6 DEF Row
  <2>2. Len(RowOf(doc, b)[key]) = Len(b) + 2
    BY <1>3, <1>4, <1>5, Zenon
  <2> QED
    BY <1>5, <2>1, <2>2, ShownEntry
<1>8. b = c
  <2>1. Append(b, "attributes") = Append(c, "attributes")
    BY <1>3, <1>4, <1>5, <1>7, EntryShape, Zenon DEF Prefix
  <2> QED
    BY <1>5, <2>1, AppendInjective DEF Names
<1> DEFINE row == Row(doc, b)
           object == Append(b, "attributes")
<1>9. \A x \in {"sensitive", "key", "name"} :
         /\ <<x>> \in DOMAIN row <=> Append(object, x) \in DOMAIN doc
         /\ <<x>> \in DOMAIN row => row[<<x>>] = doc[Append(object, x)]
  <2> SUFFICES ASSUME NEW x \in {"sensitive", "key", "name"}
               PROVE  /\ <<x>> \in DOMAIN row <=> Append(object, x) \in DOMAIN doc
                      /\ <<x>> \in DOMAIN row => row[<<x>>] = doc[Append(object, x)]
    OBVIOUS
  <2>1. x \in Names \ Relationships(doc, b) /\ x # "id" /\ <<x>> # TypeKey
    BY <1>4, <1>8 DEF Names, TypeKey
  <2> QED
    BY <1>5, <1>7, <2>1, RowEntry DEF Entry
<1>10. \A x : Append(<<>>, x) = <<x>>
  OBVIOUS
<1>11. DeclaresSensitive(row, <<>>) <=> DeclaresSensitive(doc, object)
  BY <1>9, <1>10 DEF DeclaresSensitive
<1>12. NameHint(row, <<>>) = NameHint(doc, object)
  <2>1. \A x \in {"key", "name"} : Reports(row, <<>>, x) <=> Reports(doc, object, x)
    BY <1>9, <1>10 DEF Reports
  <2>2. \A x \in {"key", "name"} : Reports(doc, object, x) => row[<<x>>] = doc[Append(object, x)]
    BY <1>9 DEF Reports
  <2> QED
    BY <1>10, <2>1, <2>2 DEF NameHint
<1>13. row[key] = doc[leaf] /\ Key(key) = a /\ ~RowHidden(mode, row, key)
  <2>1. row[key] = doc[leaf]
    BY <1>3, <1>6, <1>7, RowOfShape
  <2> QED
    BY <1>3, <1>7, <2>1 DEF Key, ApplyRow
<1>14. leaf \in Seq(Names) /\ Len(leaf) = Len(b) + 2 /\ leaf = Entry(b, a) /\ leaf \in DOMAIN doc
  BY <1>3, <1>5, <1>7, EntryShape
<1>15. Prefix(leaf, Len(leaf)) = leaf /\ Key(leaf) = a /\ Parent(leaf) = object
  <2>1. Prefix(leaf, Len(leaf)) = leaf
    BY <1>14, SubSeqFull DEF Prefix
  <2>2. Key(leaf) = a
    BY <1>5, <1>7, <1>14, EntryShape DEF Key
  <2>3. Len(leaf) - 1 = Len(b) + 1
    BY <1>5, <1>14
  <2>4. Parent(leaf) = object
    BY <1>5, <1>7, <1>14, <2>3, EntryShape, Zenon DEF Parent
  <2> QED
    BY <2>1, <2>2, <2>4
<1>16. EnclosingName(object) = "attributes"
  <2> DEFINE keys == {i \in DOMAIN object : object[i] \notin ListIndexes}
  <2>1. object \in Seq(Names) /\ Len(object) = Len(b) + 1 /\ object[Len(b) + 1] = "attributes"
    BY <1>5 DEF Names
  <2>2. Len(b) + 1 \in keys /\ \A j \in keys : j <= Len(b) + 1
    BY <2>1, DocumentsAssumption
  <2>3. \A i \in keys : (\A j \in keys : j <= i) => i = Len(b) + 1
    BY <1>5, <2>1, <2>2
  <2> QED
    BY <2>1, <2>2, <2>3 DEF EnclosingName
<1>17. ~MatchAt(mode, doc, leaf)
  <2> SUFFICES ASSUME MatchKey(mode, a, doc[leaf], DeclaresSensitive(doc, object), HintFor(doc, object))
               PROVE  FALSE
    BY <1>14, <1>15 DEF MatchAt, ValueAt
  <2>1. ~MatchKey(mode, a, doc[leaf], DeclaresSensitive(doc, object), NameHint(doc, object))
    BY <1>11, <1>12, <1>13 DEF RowHidden, MatchKey, MatchKnown
  <2>2. "attributes" \notin SensitiveNames
    BY DocumentsAssumption
  <2>3. HintFor(doc, object) \in SensitiveNames => NameHint(doc, object) \in SensitiveNames
    BY <1>16, <2>2 DEF HintFor
  <2> QED
    BY <2>1, <2>3 DEF MatchKey, MatchName
<1>18. \A i \in 1..Len(leaf) : ~MatchAt(mode, doc, Prefix(leaf, i))
  <2> SUFFICES ASSUME NEW i \in 1..Len(leaf) PROVE ~MatchAt(mode, doc, Prefix(leaf, i))
    OBVIOUS
  <2>1. i \in 1..(Len(b) + 1) \/ i = Len(leaf)
    BY <1>5, <1>14
  <2>2. CASE i \in 1..(Len(b) + 1)
    BY <1>7, <1>14, <2>2, AboveIsNotMasked
  <2>3. CASE i = Len(leaf)
    BY <1>15, <1>17, <2>3
  <2> QED
    BY <2>1, <2>2, <2>3
<1> QED
  BY <1>13, <1>14, <1>18 DEF Apply, Hidden, RowHidden

-----------------------------------------------------------------------------
\* A finite set that counts for nothing is empty, so a report is only left out when
\* there is nothing to report.
LEMMA NoneCounted ==
    ASSUME NEW T, IsFiniteSet(T), ~(Cardinality(T) > 0)
    PROVE  T = {}
BY FS_CardinalityType, FS_EmptySet

\* Until the command runs nothing is masked, shown or reported; then what is shown
\* and what is reported agree with what is hidden.
ViewInv ==
    /\ pc \in Before \cup {"run"} => reported = 0 /\ notice = NoNotice /\ shown = Nothing
    /\ pc \in {"telemetry", "auth", "arguments", "run"} => redactor.masked = {}
    /\ pc = "run" => outcome = "running"
    /\ Applied => redactor.mode \in Modes
    /\ HiddenIsReported /\ HiddenStaysHidden

\* What a notice says of the fields masked so far: it names or counts each of them, and
\* counts some only when it names as many as it may.
Told(said, masked) ==
    /\ said.named \subseteq masked
    /\ Cardinality(masked \ said.named) = said.more
    /\ said.more > 0 => Cardinality(said.named) = MaxReportedRedactions

LEMMA NamedOf ==
    ASSUME NEW masked, IsFiniteSet(masked), NEW named \in Named(masked)
    PROVE  Told([named |-> named, more |-> Cardinality(masked \ named)], masked)
<1>1. CASE Cardinality(masked) <= MaxReportedRedactions
  <2>1. named = masked
    BY <1>1 DEF Named
  <2>2. masked \ named = {}
    BY <2>1
  <2>3. Cardinality(masked \ named) = 0
    BY <2>2, FS_EmptySet
  <2> QED
    BY <2>1, <2>3 DEF Told
<1>2. CASE ~(Cardinality(masked) <= MaxReportedRedactions)
  <2>1. named \subseteq masked /\ Cardinality(named) = MaxReportedRedactions
    BY <1>2 DEF Named
  <2> QED
    BY <2>1 DEF Told
<1> QED
  BY <1>1, <1>2

LEMMA NoticeOf ==
    ASSUME NEW masked, IsFiniteSet(masked), reported = 0, Report(masked, quiet), ~quiet
    PROVE  redactor.mode = "off" \/ masked = {} \/ Told(notice', masked)
<1>1. CASE ~Enabled
  BY <1>1 DEF Enabled
<1>2. CASE Enabled /\ ~(Cardinality(masked) > 0)
  BY <1>2, NoneCounted
<1>3. CASE Enabled /\ Cardinality(masked) > 0
  <2>1. PICK named \in Named(masked) :
          notice' = [named |-> named, more |-> Cardinality(masked \ named)]
    BY <1>3 DEF Report
  <2> QED
    BY <2>1, NamedOf
<1> QED
  BY <1>1, <1>2, <1>3

LEMMA ReportStep ==
    ASSUME Inv, ViewInv, RunF
    PROVE  HiddenIsReported'
<1> DEFINE hidden == EnvelopeFields[redactor.mode][shown'.body]
<1>1. pc = "run" /\ reported = 0 /\ redactor.masked = {} /\ notice = NoNotice /\ shown = Nothing
      /\ redactor.mode \in Modes
  BY Runs DEF ViewInv, Applied
<1>2. redactor'.mode = redactor.mode /\ flags' = flags
  BY Runs
<1> SUFFICES ASSUME outcome' \in {"shown", "previewed"}, shown'.view \notin {"copied", "none"},
                    ~quiet', hidden # {}
             PROVE  hidden \subseteq redactor'.masked /\ Told(notice', redactor'.masked)
  BY <1>2 DEF HiddenIsReported, Told
<1>3. ~quiet
  BY DEF RunF, ShowResponse, ShowRawBody, RawBodyBreaks, ShowNothing, ShowDryRun,
         RequestFails, RunChild, RunLocal, RunVersion, Return
<1>4. ASSUME NEW masked, IsFiniteSet(masked), Report(masked, quiet), redactor'.masked = masked,
             hidden \subseteq masked, redactor.mode = "off" => hidden = {}
      PROVE  hidden \subseteq redactor'.masked /\ Told(notice', redactor'.masked)
  <2>1. redactor.mode = "off" \/ masked = {} \/ Told(notice', masked)
    BY <1>1, <1>3, <1>4, NoticeOf
  <2> QED
    BY <1>4, <2>1
<1>5. CASE ShowResponse
  <2>1. PICK body \in Envelopes : Display(body, quiet) /\ ~DisplayFails(body)
    BY <1>5 DEF ShowResponse, Return
  <2> DEFINE masked == MaskedFields[redactor.mode][body]
  <2>2. shown'.body = body /\ redactor'.masked = masked /\ Report(masked, quiet)
    BY <1>1, <2>1 DEF Display, DisplayFails
  <2>3. body \in Bodies /\ EnvelopeFields[redactor.mode][body] \subseteq masked
        /\ IsFiniteSet(masked)
    BY <1>1, RowViewsOf, MaskedFinite
  <2>4. redactor.mode = "off" => EnvelopeFields[redactor.mode][body] = {}
    BY <1>1, <2>3, ViewsOf, NothingOff
  <2> QED
    BY <1>4, <2>2, <2>3, <2>4
<1>6. CASE ShowRawBody
  <2>1. PICK body \in Bodies, kind \in BodyKinds, contentType \in ContentTypes :
          CopyRaw(body, kind, contentType, quiet)
    BY <1>6 DEF ShowRawBody
  <2> DEFINE fields == EnvelopeFields[redactor.mode][body]
  <2>2. shown'.body = body /\ Enabled /\ Examined(kind, contentType)
    BY <2>1 DEF CopyRaw
  <2>3. redactor'.masked = fields /\ Report(fields, quiet)
    BY <1>1, <2>1, <2>2 DEF CopyRaw
  <2>4. IsFiniteSet(fields)
    BY <1>1, ViewsOf, FieldsFinite
  <2> QED
    BY <1>4, <2>2, <2>3, <2>4 DEF Enabled
<1>7. CASE ShowDryRun
  <2>1. PICK body \in Bodies, headers \in SUBSET Headers : ShowRequest(headers, body, quiet)
    BY <1>7 DEF ShowDryRun
  <2> DEFINE fields == EnvelopeFields[redactor.mode][body]
  <2>2. (redactor.masked \cup MaskedHeaders(headers)) \cup fields = MaskedHeaders(headers) \cup fields
    BY <1>1
  <2>3. /\ shown'.body = body
        /\ redactor'.masked = (redactor.masked \cup MaskedHeaders(headers)) \cup fields
        /\ Report((redactor.masked \cup MaskedHeaders(headers)) \cup fields, quiet)
    <3>1. /\ redactor' = [redactor EXCEPT
                            !.masked = (redactor.masked \cup MaskedHeaders(headers)) \cup fields]
          /\ Report((redactor.masked \cup MaskedHeaders(headers)) \cup fields, quiet)
          /\ shown'.body = body
      BY <2>1 DEF ShowRequest
    <3>2. redactor = [mode |-> redactor.mode, masked |-> redactor.masked]
      BY DEF Inv, RedactorInv
    <3>3. ASSUME NEW r, NEW T, redactor = [mode |-> redactor.mode, masked |-> redactor.masked],
                 r = [redactor EXCEPT !.masked = T]
          PROVE  r.masked = T
      BY <3>3
    <3> QED
      BY <3>1, <3>2, <3>3
  <2>4. IsFiniteSet(MaskedHeaders(headers)) /\ IsFiniteSet(fields)
    BY <1>1, ViewsOf, FieldsFinite, HeadersFinite
  <2>5. IsFiniteSet(MaskedHeaders(headers) \cup fields)
    BY <2>4, FS_Union
  <2>6. redactor.mode = "off" => fields = {}
    BY <1>1, ViewsOf, NothingOff
  <2> QED
    BY <1>4, <2>2, <2>3, <2>5, <2>6
<1>8. CASE RawBodyBreaks \/ ShowNothing \/ RequestFails \/ RunChild \/ RunLocal \/ RunVersion
  <2>1. CASE shown' = Nothing
    BY <2>1 DEF Nothing
  <2>2. CASE outcome' = "broken"
    BY <2>2
  <2> QED
    BY <1>1, <1>8, <2>1, <2>2 DEF RawBodyBreaks, ShowNothing, RequestFails, RunChild, RunLocal,
       RunVersion, Return, outVars
<1> QED
  BY <1>5, <1>6, <1>7, <1>8 DEF RunF

\* Where no field is masked, everything is visible.
LEMMA NoFields ==
    ASSUME NEW mode \in Modes, NEW body \in Bodies, EnvelopeFields[mode][body] = {}
    PROVE  Visible[mode][body] = DOMAIN Docs[body]
<1>1. Fields(mode, Docs[body]) = {} /\ Visible[mode][body] = Apply(mode, Docs[body])
  BY ViewsOf
<1>2. DOMAIN Docs[body] \subseteq Apply(mode, Docs[body])
  BY <1>1 DEF Fields
<1> QED
  BY <1>1, <1>2 DEF Apply

LEMMA ShowStep ==
    ASSUME Inv, ViewInv, RunF
    PROVE  HiddenStaysHidden'
<1> SUFFICES ASSUME shown' # Nothing, NEW leaf \in shown'.leaves \ Visible[redactor'.mode][shown'.body]
             PROVE  \/ shown'.view = "copied"
                    \/ shown'.view = "rows" /\ ~Flat(Docs[shown'.body], leaf)
                    \/ shown'.view = "request after headers"
  BY DEF HiddenStaysHidden
<1>1. redactor.masked = {} /\ shown = Nothing /\ redactor.mode \in Modes
  BY Runs DEF ViewInv, Applied
<1>2. redactor'.mode = redactor.mode
  BY Runs
<1>3. CASE ShowResponse
  <2>1. PICK body \in Envelopes : Display(body, quiet)
    BY <1>3 DEF ShowResponse
  <2>2. body \in Bodies
    BY <1>1, <2>1, RowViewsOf
  <2>3. CASE FormatOf(Docs[body]) = "json"
    <3>1. shown'.body = body /\ shown'.leaves \in {{}, Visible[redactor.mode][body]}
      BY <2>1, <2>3 DEF Display
    <3> QED
      BY <1>2, <3>1
  <2>4. CASE FormatOf(Docs[body]) # "json"
    <3>1. shown'.body = body /\ shown'.view = "rows" /\ shown'.leaves \in RowViews[redactor.mode][body]
      BY <2>1, <2>4 DEF Display
    <3>2. PICK cols : shown'.leaves = RowLeaves(redactor.mode, Docs[body], cols)
      BY <1>1, <3>1, RowViewsOf
    <3> QED
      BY <1>1, <1>2, <2>2, <3>1, <3>2, ViewsOf, FlatIsMaskedAlike
  <2> QED
    BY <2>3, <2>4
<1>4. CASE ShowRawBody
  <2>1. PICK body \in Bodies, kind \in BodyKinds, contentType \in ContentTypes :
          CopyRaw(body, kind, contentType, quiet)
    BY <1>4 DEF ShowRawBody
  <2>2. CASE ~(Enabled /\ Examined(kind, contentType))
    BY <2>1, <2>2 DEF CopyRaw
  <2>3. CASE Enabled /\ Examined(kind, contentType)
    <3>1. shown'.body = body
          /\ shown'.leaves = IF EnvelopeFields[redactor.mode][body] # {} THEN Visible[redactor.mode][body]
                             ELSE DOMAIN Docs[body]
      BY <1>1, <2>1, <2>3 DEF CopyRaw
    <3> QED
      BY <1>1, <1>2, <3>1, NoFields
  <2> QED
    BY <2>2, <2>3
<1>5. CASE ShowDryRun
  <2>1. PICK body \in Bodies, headers \in SUBSET Headers : ShowRequest(headers, body, quiet)
    BY <1>5 DEF ShowDryRun
  <2>2. CASE MaskedHeaders(headers) # {}
    BY <2>1, <2>2 DEF ShowRequest
  <2>3. CASE MaskedHeaders(headers) = {}
    <3>1. shown'.body = body
          /\ shown'.leaves = IF EnvelopeFields[redactor.mode][body] # {} THEN Visible[redactor.mode][body]
                             ELSE DOMAIN Docs[body]
      BY <1>1, <2>1, <2>3 DEF ShowRequest
    <3> QED
      BY <1>1, <1>2, <3>1, NoFields
  <2> QED
    BY <2>2, <2>3
<1>6. CASE RawBodyBreaks
  BY <1>6 DEF RawBodyBreaks
<1>7. CASE ShowNothing \/ RequestFails \/ RunChild \/ RunLocal \/ RunVersion
  BY <1>1, <1>7 DEF ShowNothing, RequestFails, RunChild, RunLocal, RunVersion, outVars
<1> QED
  BY <1>3, <1>4, <1>5, <1>6, <1>7 DEF RunF

LEMMA ViewStep == Inv /\ ViewInv /\ [Next]_vars => ViewInv'
<1> SUFFICES ASSUME Inv, ViewInv, [Next]_vars PROVE ViewInv'
  OBVIOUS
<1>1. CASE RunF
  <2>1. pc' = "shutdown" /\ pc = "run" /\ redactor'.mode = redactor.mode
    BY <1>1, Runs
  <2> QED
    BY <1>1, <2>1, ReportStep, ShowStep DEF ViewInv, Applied, Before, Early
<1>2. CASE ApplyGlobalFlags
  <2>1. outcome' = "not run" /\ pc = "prerun" /\ pc' \in {"telemetry", "shutdown"}
    BY <1>2 DEF ApplyGlobalFlags, Inv, StageInv, Before, Early, Refuse
  <2>2. UNCHANGED <<reported, notice, shown>>
    BY <1>2 DEF ApplyGlobalFlags
  <2>3. pc' = "telemetry" => redactor'.masked = {}
    BY <1>2 DEF ApplyGlobalFlags, Refuse
  <2>4. Applied' => redactor'.mode \in Modes
    <3>1. ResolveMode(profile') \in Modes
      BY DEF ResolveMode, ParseMode, Modes
    <3>2. pc' = "telemetry" => redactor' = [mode |-> ResolveMode(profile'), masked |-> {}]
      BY <1>2 DEF ApplyGlobalFlags, Refuse
    <3>3. pc' = "telemetry" => redactor'.mode = ResolveMode(profile')
      BY <3>2
    <3>4. Applied' => pc' = "telemetry"
      BY <2>1 DEF Applied
    <3> QED
      BY <3>1, <3>3, <3>4
  <2> QED
    BY <2>1, <2>2, <2>3, <2>4 DEF ViewInv, HiddenIsReported, HiddenStaysHidden, Before, Early
<1>3. CASE Prescan \/ LoadFails \/ Load \/ Dispatch \/ ParseFlags \/ StartCommand
           \/ IsAuthenticated \/ ValidateArgs
  <2>1. UNCHANGED outVars /\ pc \in Before /\ outcome' \in {"not run", "running"}
    BY <1>3 DEF Prescan, LoadFails, Load, Dispatch, ParseFlags, StartCommand, IsAuthenticated,
       ValidateArgs, Inv, StageInv, Before, Early
  <2>2. /\ pc' \in {"telemetry", "auth", "arguments", "run"} => pc \in {"telemetry", "auth", "arguments"}
        /\ pc' = "run" => outcome' = "running"
        /\ Applied' => Applied
    BY <1>3, <2>1 DEF Prescan, LoadFails, Load, Dispatch, ParseFlags, StartCommand, IsAuthenticated,
       ValidateArgs, Refuse, Inv, StageInv, Before, Early, Applied
  <2> QED
    BY <2>1, <2>2 DEF ViewInv, HiddenIsReported, HiddenStaysHidden, outVars
<1>4. CASE WaitMigration \/ TelemetryShutdown \/ MigrationEnds \/ CheckpointEnds \/ Signal
           \/ UNCHANGED vars
  <2>1. UNCHANGED <<outVars, outcome, quiet>> /\ (pc' = pc \/ pc' \in {"end", "exited"})
    BY <1>4 DEF WaitMigration, TelemetryShutdown, MigrationEnds, CheckpointEnds, Signal, vars, own
  <2> QED
    BY <2>1 DEF ViewInv, HiddenIsReported, HiddenStaysHidden, outVars, Applied, Before, Early
<1> QED
  BY <1>1, <1>2, <1>3, <1>4 DEF Next, Main

LEMMA InitView == Init => ViewInv
BY DEF Init, OutInit, ViewInv, Before, Early, Applied, HiddenIsReported, HiddenStaysHidden

\* Every field that masking took out of a response or of a dry run's request is named
\* to the user or counted in the number of those that are not, which is none as long as
\* there is room for a name.
THEOREM NothingHiddenSilently == Spec => []HiddenIsReported
<1>1. ViewInv => HiddenIsReported
  BY DEF ViewInv
<1> QED
  BY <1>1, Invariance, InitView, ViewStep, PTL DEF Spec

\* No view of a response, and no filter over it, shows what the document's mode hides,
\* but for the exceptions that HiddenStaysHidden names.
THEOREM NothingHiddenIsShown == Spec => []HiddenStaysHidden
<1>1. ViewInv => HiddenStaysHidden
  BY DEF ViewInv
<1> QED
  BY <1>1, Invariance, InitView, ViewStep, PTL DEF Spec
=============================================================================

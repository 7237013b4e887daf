--------------------------- MODULE TerminalPrompt ---------------------------
(***************************************************************************)
(* The terminal prompts, as `tfctl auth login` strings them together: a    *)
(* confirmation (PromptConfirm), then a token read without echo            *)
(* (ReadSecret).  Each prompt reads in a goroutine of its own, so that a   *)
(* signal can end it while the read still blocks; ReadSecret has a second  *)
(* goroutine that puts the terminal back on a signal.  The goroutines of   *)
(* an abandoned prompt run on until the process exits.                     *)
(*                                                                         *)
(*   src/internal/pkg/iostreams/io.go, src/internal/commands/auth/login.go *)
(***************************************************************************)
EXTENDS Naturals, Sequences

CONSTANT Capacity   \* of ReadSecret's errorChannel

ASSUME CapacityAssumption == Capacity \in Nat \ {0}

VARIABLES
    main,       \* where the command's own goroutine is
    canceled,   \* ShutdownCtx has been canceled by a signal
    line,       \* the line waiting in the terminal's input queue
    echo,       \* the terminal echoes what is typed
    \* PromptConfirm: its reading goroutine and its named results
    asker, confirmed, err,
    \* ReadSecret: its two goroutines, what each of them keeps, its channels
    watcher, oldState,
    reader, termios, buf,
    errorChannel, doneClosed,
    \* history, read by no action:
    answered,   \* the last line the confirmation read
    returned,   \* what ReadSecret returned
    restoredAt  \* where the reader was when the watcher restored the terminal

confirmVars == <<asker, confirmed, err, answered>>
watcherVars == <<watcher, oldState, restoredAt>>
readerVars  == <<reader, termios, buf>>
chanVars    == <<errorChannel, doneClosed, returned>>
secretVars  == <<watcherVars, readerVars, chanVars>>
world       == <<canceled, line, echo>>
promptVars        == <<main, world, confirmVars, secretVars>>

Lines    == {"yes", "no", "text", "eof"}
MainPCs  == {"start", "select", "store", "load", "secret", "await", "tail", "exited"}
AskerPCs == {"none", "reading", "close", "done"}
WatchPCs == {"none", "select", "restore", "send", "done"}
ReadPCs  == {"none", "get", "set", "reading", "reset", "send", "done"}
Results  == {"canceled", "error"} \cup Lines

-----------------------------------------------------------------------------
PromptInit ==
    /\ main = "start"       /\ canceled = FALSE   /\ line = "none"  /\ echo = TRUE
    /\ asker = "none"       /\ confirmed = FALSE  /\ err = "none"
    /\ watcher = "none"     /\ oldState = TRUE
    /\ reader = "none"      /\ termios = TRUE     /\ buf = "none"
    /\ errorChannel = <<>>  /\ doneClosed = FALSE
    /\ answered = "none"    /\ returned = "none"     /\ restoredAt = "none"

Main(from, to)    == main = from /\ main' = to
Asker(from, to)   == main # "exited" /\ asker = from /\ asker' = to
Watcher(from, to) == main # "exited" /\ watcher = from /\ watcher' = to
Reader(from, to)  == main # "exited" /\ reader = from /\ reader' = to

\* Reading consumes a line; a hang-up is there for every later read.
Consume == line # "none" /\ line' = IF line = "eof" THEN "eof" ELSE "none"

\* errorChannel <- r
Send(r) ==
    /\ Len(errorChannel) < Capacity
    /\ errorChannel' = Append(errorChannel, r)
    /\ UNCHANGED <<doneClosed, returned>>

-----------------------------------------------------------------------------
(* The world: a human types lines or hangs up, a signal arrives.           *)

Type ==
    /\ main # "exited" /\ line = "none"
    /\ line' \in Lines
    /\ UNCHANGED <<main, canceled, echo, confirmVars, secretVars>>

Signal ==
    /\ main # "exited" /\ ~canceled
    /\ canceled' = TRUE
    /\ UNCHANGED <<main, line, echo, confirmVars, secretVars>>

-----------------------------------------------------------------------------
(* PromptConfirm.                                                          *)

CannotPrompt ==
    /\ Main("start", "tail")
    /\ UNCHANGED <<world, confirmVars, secretVars>>

Ask ==
    /\ Main("start", "select")
    /\ asker' = "reading"
    /\ UNCHANGED <<world, confirmed, err, answered, secretVars>>

\* The goroutine reads a line and writes the function's named results, with
\* no lock: the caller may be writing them too.
AskerReads ==
    /\ Consume
    /\ answered' = line
    /\ IF line = "text"
       THEN Asker("reading", "reading") /\ UNCHANGED <<confirmed, err>>
       ELSE /\ Asker("reading", "close")
            /\ confirmed' = IF line = "eof" THEN confirmed ELSE line = "yes"
            /\ err' = IF line = "eof" THEN "error" ELSE err
    /\ UNCHANGED <<main, canceled, echo, secretVars>>

\* defer close(doneCh)
AskerCloses ==
    /\ Asker("close", "done")
    /\ UNCHANGED <<main, world, confirmed, err, answered, secretVars>>

\* case <-doneCh
ConfirmAnswered ==
    /\ asker = "done"
    /\ Main("select", IF err # "none" THEN "store" ELSE "load")
    /\ UNCHANGED <<world, confirmVars, secretVars>>

\* Mutant of ConfirmCanceled: the cause is not kept, so the function goes on
\* to return whatever the goroutine has written by then.
ConfirmCanceledSilently ==
    /\ canceled
    /\ Main("select", "load")
    /\ UNCHANGED <<world, confirmVars, secretVars>>

\* Mutant of ConfirmCanceled: only the answer is waited for.
ConfirmCanceledUnheard ==
    /\ canceled /\ asker = "done"
    /\ Main("select", "store")
    /\ err' = "canceled"
    /\ UNCHANGED <<world, asker, confirmed, answered, secretVars>>

\* case <-ctx.Done(), which select may take when doneCh is closed as well.
ConfirmCanceled ==
    /\ canceled
    /\ Main("select", "store")
    /\ err' = "canceled"
    /\ UNCHANGED <<world, asker, confirmed, answered, secretVars>>

\* `return false, err` stores into the results the goroutine shares ...
StoreFalse ==
    /\ Main("store", "load")
    /\ confirmed' = FALSE
    /\ UNCHANGED <<world, asker, err, answered, secretVars>>

\* ... and the caller then receives them.  login goes on after a yes only.
ConfirmReturns ==
    /\ Main("load", IF err = "none" /\ confirmed THEN "secret" ELSE "tail")
    /\ UNCHANGED <<world, confirmVars, secretVars>>

-----------------------------------------------------------------------------
(* ReadSecret.                                                             *)

\* term.GetState fails.
StateUnknown ==
    /\ Main("secret", "tail")
    /\ returned' = "error"
    /\ UNCHANGED <<world, confirmVars, watcherVars, readerVars, errorChannel, doneClosed>>

\* term.GetState, then both goroutines start.
StartSecret ==
    /\ Main("secret", "await")
    /\ watcher' = "select" /\ oldState' = echo
    /\ reader' = "get"
    /\ UNCHANGED <<world, confirmVars, restoredAt, termios, buf, chanVars>>

\* The watcher's select: the caller has returned, or ...
WatcherLeaves ==
    /\ doneClosed
    /\ Watcher("select", "done")
    /\ UNCHANGED <<main, world, confirmVars, oldState, restoredAt, readerVars, chanVars>>

\* ... a signal arrived; select may choose this one even if both hold.
WatcherWakes ==
    /\ canceled
    /\ Watcher("select", "restore")
    /\ UNCHANGED <<main, world, confirmVars, oldState, restoredAt, readerVars, chanVars>>

\* Mutant of WatcherRestores: the signal only wakes the caller.
WatcherRestoresNothing ==
    /\ Watcher("restore", "send")
    /\ UNCHANGED <<main, world, confirmVars, oldState, restoredAt, readerVars, chanVars>>

\* term.Restore, whose error is ignored.
WatcherRestores ==
    /\ Watcher("restore", "send")
    /\ echo' = oldState
    /\ restoredAt' = reader
    /\ UNCHANGED <<main, canceled, line, confirmVars, oldState, readerVars, chanVars>>

WatcherSends ==
    /\ Watcher("send", "done")
    /\ Send("canceled")
    /\ UNCHANGED <<main, world, confirmVars, oldState, restoredAt, readerVars>>

\* term.ReadPassword keeps the state, turns the echo off, reads a line and
\* puts the kept state back.
ReaderGets ==
    /\ Reader("get", "set")
    /\ termios' = echo
    /\ UNCHANGED <<main, world, confirmVars, watcherVars, buf, chanVars>>

ReaderSets ==
    /\ Reader("set", "reading")
    /\ echo' = FALSE
    /\ UNCHANGED <<main, canceled, line, confirmVars, watcherVars, termios, buf, chanVars>>

\* Either of the two calls above fails; the terminal is as it was.
ReaderFails ==
    /\ \E from \in {"get", "set"} : Reader(from, "send")
    /\ buf' = "error"
    /\ UNCHANGED <<main, world, confirmVars, watcherVars, termios, chanVars>>

ReaderReads ==
    /\ Consume
    /\ Reader("reading", "reset")
    /\ buf' = IF line = "eof" THEN "error" ELSE line
    /\ UNCHANGED <<main, canceled, echo, confirmVars, watcherVars, termios, chanVars>>

ReaderResets ==
    /\ Reader("reset", "send")
    /\ echo' = termios
    /\ UNCHANGED <<main, canceled, line, confirmVars, watcherVars, termios, buf, chanVars>>

ReaderSends ==
    /\ Reader("send", "done")
    /\ Send(buf)
    /\ UNCHANGED <<main, world, confirmVars, watcherVars, termios, buf>>

\* buf := <-errorChannel, and the deferred close(doneChannel).
SecretReturns ==
    /\ errorChannel # <<>>
    /\ Main("await", "tail")
    /\ returned' = Head(errorChannel)
    /\ errorChannel' = Tail(errorChannel)
    /\ doneClosed' = TRUE
    /\ UNCHANGED <<world, confirmVars, watcherVars, readerVars>>

\* The rest of the command, and the end of the process with its goroutines.
Exit ==
    /\ Main("tail", "exited")
    /\ UNCHANGED <<world, confirmVars, secretVars>>

-----------------------------------------------------------------------------
MainStep ==
    \/ CannotPrompt \/ Ask \/ ConfirmAnswered \/ ConfirmCanceled \/ StoreFalse
    \/ ConfirmReturns \/ StateUnknown \/ StartSecret \/ SecretReturns

AskerStep   == AskerReads \/ AskerCloses
WatcherStep == WatcherLeaves \/ WatcherWakes \/ WatcherRestores \/ WatcherSends
ReaderStep  == ReaderGets \/ ReaderSets \/ ReaderFails \/ ReaderReads \/ ReaderResets \/ ReaderSends

PromptNext == Type \/ Signal \/ MainStep \/ AskerStep \/ WatcherStep \/ ReaderStep \/ Exit

PromptSpec == PromptInit /\ [][PromptNext]_promptVars

\* The Go scheduler runs every goroutine that can go on.  The human and the
\* signal promise nothing, nor how long the rest of the command takes.
PromptFairSpec ==
    /\ PromptSpec
    /\ WF_promptVars(MainStep) /\ WF_promptVars(AskerStep)
    /\ WF_promptVars(WatcherStep) /\ WF_promptVars(ReaderStep)

-----------------------------------------------------------------------------
PromptTypeOK ==
    /\ main \in MainPCs      /\ canceled \in BOOLEAN
    /\ line \in Lines \cup {"none"}
    /\ echo \in BOOLEAN      /\ oldState \in BOOLEAN   /\ termios \in BOOLEAN
    /\ asker \in AskerPCs    /\ confirmed \in BOOLEAN
    /\ err \in {"none", "error", "canceled"}
    /\ watcher \in WatchPCs
    /\ reader \in ReadPCs    /\ buf \in {"none"} \cup Results
    /\ errorChannel \in Seq(Results) /\ Len(errorChannel) <= Capacity
    /\ doneClosed \in BOOLEAN
    /\ answered \in Lines \cup {"none"}
    /\ returned \in {"none"} \cup Results
    /\ restoredAt \in {"none"} \cup ReadPCs

\* login goes past the confirmation only on a yes whose reader is finished: a
\* goroutine abandoned on a signal may write what it likes into the results.
ProceedsOnlyOnYes ==
    main \in {"secret", "await"} => answered = "yes" /\ asker = "done"

\* ReadSecret hands out a typed line only with the terminal's echo back on.  And
\* however the two prompts end, the echo can stay off for one reason only: the
\* signal came before the reader turned it off, so the watcher restored too early.
EchoComesBack ==
    /\ returned \in Lines => echo
    /\ main = "exited" /\ ~echo => returned = "canceled" /\ restoredAt \in {"get", "set"}

\* io.go: "Canceled context restores the terminal, otherwise the no-echo mode
\* would remain intact".
TerminalRestored == main = "exited" => echo

\* A signal ends both prompts, though the reads they wait for never return; a
\* line typed at the token prompt ends it too, signal or not.
PromptsEnd ==
    /\ canceled ~> main \in {"tail", "exited"}
    /\ main = "await" /\ line # "none" ~> main \in {"tail", "exited"}
=============================================================================

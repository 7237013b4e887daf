----------------------------- MODULE ExecSession -----------------------------
(***************************************************************************)
(* `tfctl harness exec` and the delete gate of `tfctl api`.                *)
(*                                                                         *)
(* A wrapper process issues a session: a file named after a fresh random   *)
(* token, on which it holds a shared flock while its child runs.  Every    *)
(* descendant `tfctl api -X DELETE` process (a client) inherits the token, *)
(* loads the file and probes the lock to learn whether the wrapper lives.  *)
(* Processes share nothing but the file system, so every system call is a  *)
(* step of its own.                                                        *)
(*                                                                         *)
(*   src/internal/pkg/execsession/{execsession,lock_unix,permissions}.go   *)
(*   src/internal/commands/harness/harness_exec.go                         *)
(*   src/internal/commands/api/api.go                                      *)
(***************************************************************************)
EXTENDS FiniteSets

CONSTANTS
    Wrappers,   \* processes running `tfctl harness exec`; each names its token
    Clients,    \* processes running `tfctl api -X DELETE`, one request each
    Classes,    \* resource types a delete may be about
    NoClass,    \* ClassFromPath could not tell the class ("")
    NoToken,    \* TFCTL_EXEC_SESSION is not set
    BadToken,   \* it is set to something tokenPattern rejects
    Nobody      \* no process holds the exclusive lock

ASSUME ConstantsAssumption ==
    /\ NoClass \notin Classes
    /\ NoToken \notin Wrappers /\ BadToken \notin Wrappers /\ NoToken # BadToken
    /\ Nobody \notin Clients

VARIABLES
    wpc,        \* where each wrapper is in runExec / Create / Close
    allow,      \* allow[w]: the normalized --allow-delete of w
    file,       \* the session file: "absent", "empty" (created) or "full"
    issued,     \* issued[w]: the token has been handed to a child
    shared,     \* shared[w]: w's open file holds LOCK_SH
    exclusive,  \* exclusive[w]: the client holding LOCK_EX on w's file
    cpc,        \* where each client is in RunAPI / AuthorizeDelete
    req,        \* what each client was asked to do
    reason,     \* Decision.Reason, or "error"
    outcome,    \* what became of the DELETE
    \* history, read by no action:
    began       \* the session as the client's check found it on entry

wrapperVars == <<wpc, allow, file, issued, shared>>
clientVars  == <<cpc, req, reason, outcome, began>>
vars        == <<wrapperVars, exclusive, clientVars>>

-----------------------------------------------------------------------------
Tokens   == Wrappers \cup {NoToken, BadToken}
Requests == [token : Tokens, class : Classes \cup {NoClass},
             canPrompt : BOOLEAN, dryRun : BOOLEAN]
NoRequest == [token |-> NoToken, class |-> NoClass,
              canPrompt |-> FALSE, dryRun |-> FALSE]

WrapperPCs == {"start", "lock", "write", "spawn", "running", "close",
               "remove", "done", "leaked", "crashed"}
WrapperEnd == {"done", "leaked", "crashed"}
ClientPCs  == {"idle", "stat", "decode", "open", "flock", "unlock",
               "gate", "confirm", "send", "done"}
Reasons    == {"none", "error", "no-session", "stale", "not-live",
               "class-not-granted", "granted"}
Outcomes   == {"none", "sent", "dry-run", "canceled", "denied", "failed",
               "killed"}

\* permissions.go AllowsDelete.  ByName finds a type under its own name only,
\* so its second loop can match nothing the first one did not.
AllowsDelete(granted, class) == class # NoClass /\ class \in granted

-----------------------------------------------------------------------------
Init ==
    /\ wpc       = [w \in Wrappers |-> "start"]
    /\ allow     \in [Wrappers -> SUBSET Classes]
    /\ file      = [w \in Wrappers |-> "absent"]
    /\ issued    = [w \in Wrappers |-> FALSE]
    /\ shared    = [w \in Wrappers |-> FALSE]
    /\ exclusive = [w \in Wrappers |-> Nobody]
    /\ cpc       = [c \in Clients |-> "idle"]
    /\ req       = [c \in Clients |-> NoRequest]
    /\ reason    = [c \in Clients |-> "none"]
    /\ outcome   = [c \in Clients |-> "none"]
    /\ began     = [c \in Clients |-> [present |-> FALSE, live |-> FALSE]]

-----------------------------------------------------------------------------
(* The wrapper.                                                            *)

Wrapper(w, from, to) == wpc[w] = from /\ wpc' = [wpc EXCEPT ![w] = to]

\* No command, a dry run, or a failure before the file exists.
RefuseExec(w) ==
    /\ Wrapper(w, "start", "done")
    /\ UNCHANGED <<allow, file, issued, shared, exclusive, clientVars>>

\* O_CREATE|O_EXCL on a path nobody else can guess.
CreateFile(w) ==
    /\ Wrapper(w, "start", "lock")
    /\ file' = [file EXCEPT ![w] = "empty"]
    /\ UNCHANGED <<allow, issued, shared, exclusive, clientVars>>

\* acquireLock: LOCK_SH|LOCK_NB, refused while a probe holds LOCK_EX.
TakeShared(w) ==
    /\ exclusive[w] = Nobody
    /\ Wrapper(w, "lock", "write")
    /\ shared' = [shared EXCEPT ![w] = TRUE]
    /\ UNCHANGED <<allow, file, issued, exclusive, clientVars>>

\* The lock is refused or not supported: close and remove.
TakeSharedFails(w) ==
    /\ Wrapper(w, "lock", "remove")
    /\ UNCHANGED <<allow, file, issued, shared, exclusive, clientVars>>

\* Mutant of WriteSession: the lock is dropped when Create returns.
WriteSessionUnlocks(w) ==
    /\ Wrapper(w, "write", "spawn")
    /\ file' = [file EXCEPT ![w] = "full"]
    /\ shared' = [shared EXCEPT ![w] = FALSE]
    /\ UNCHANGED <<allow, issued, exclusive, clientVars>>

WriteSession(w) ==
    /\ Wrapper(w, "write", "spawn")
    /\ file' = [file EXCEPT ![w] = "full"]
    /\ UNCHANGED <<allow, issued, shared, exclusive, clientVars>>

\* Mutant of WriteSessionFails: returns without removing the file.
WriteSessionFailsDirty(w) ==
    /\ Wrapper(w, "write", "done")
    /\ shared' = [shared EXCEPT ![w] = FALSE]
    /\ UNCHANGED <<allow, file, issued, exclusive, clientVars>>

\* A short or failed write leaves a file that does not decode.
WriteSessionFails(w) ==
    /\ Wrapper(w, "write", "remove")
    /\ shared' = [shared EXCEPT ![w] = FALSE]
    /\ UNCHANGED <<allow, file, issued, exclusive, clientVars>>

\* realRunner: the child starts with the token in its environment.
Spawn(w) ==
    /\ Wrapper(w, "spawn", "running")
    /\ issued' = [issued EXCEPT ![w] = TRUE]
    /\ UNCHANGED <<allow, file, shared, exclusive, clientVars>>

SpawnFails(w) ==
    /\ Wrapper(w, "spawn", "close")
    /\ UNCHANGED <<allow, file, issued, shared, exclusive, clientVars>>

\* The child exits, or ShutdownCtx is canceled and CommandContext kills it.
\* What the child itself started in the background may live on.
ChildExits(w) ==
    /\ Wrapper(w, "running", "close")
    /\ UNCHANGED <<allow, file, issued, shared, exclusive, clientVars>>

\* Mutant of ReleaseShared: Close forgets the file.
ReleaseSharedOnly(w) ==
    /\ Wrapper(w, "close", "done")
    /\ shared' = [shared EXCEPT ![w] = FALSE]
    /\ UNCHANGED <<allow, file, issued, exclusive, clientVars>>

\* Handle.Close, first half: unlock and close.  Closing the descriptor drops
\* the lock even when the unlock fails.
ReleaseShared(w) ==
    /\ Wrapper(w, "close", "remove")
    /\ shared' = [shared EXCEPT ![w] = FALSE]
    /\ UNCHANGED <<allow, file, issued, exclusive, clientVars>>

\* Handle.Close, second half, and the clean-up of a failed Create.
RemoveFile(w) ==
    /\ Wrapper(w, "remove", "done")
    /\ file' = [file EXCEPT ![w] = "absent"]
    /\ UNCHANGED <<allow, issued, shared, exclusive, clientVars>>

RemoveFileFails(w) ==
    /\ Wrapper(w, "remove", "leaked")
    /\ UNCHANGED <<allow, file, issued, shared, exclusive, clientVars>>

\* SIGKILL or power loss: the kernel closes the descriptor, the file stays.
CrashWrapper(w) ==
    /\ wpc[w] \notin WrapperEnd
    /\ wpc' = [wpc EXCEPT ![w] = "crashed"]
    /\ shared' = [shared EXCEPT ![w] = FALSE]
    /\ UNCHANGED <<allow, file, issued, exclusive, clientVars>>

-----------------------------------------------------------------------------
(* The client.                                                             *)

Token(c)     == req[c].token
Watched(c)   == Token(c) \in Wrappers
Goto(c, to)  == cpc' = [cpc EXCEPT ![c] = to]
Answer(c, r) == Goto(c, "gate") /\ reason' = [reason EXCEPT ![c] = r]
Finish(c, o) == Goto(c, "done") /\ outcome' = [outcome EXCEPT ![c] = o]

\* RunAPI reaches the DELETE gate and enters AuthorizeDelete.  A token is
\* known to a client only once its wrapper has handed it to a child.
BeginDelete(c) ==
    /\ cpc[c] = "idle"
    /\ \E r \in Requests :
        /\ r.token \in Wrappers => issued[r.token]
        /\ req' = [req EXCEPT ![c] = r]
        /\ began' = [began EXCEPT ![c] =
                [present |-> r.token \in Wrappers /\ file[r.token] # "absent",
                 live    |-> r.token \in Wrappers /\ shared[r.token]]]
        /\ Goto(c, "stat")
    /\ UNCHANGED <<wrapperVars, exclusive, reason, outcome>>

\* No token at all; or Store.Load, where a malformed token counts as a
\* missing file, and its os.Stat.
StatSession(c) ==
    /\ cpc[c] = "stat"
    /\ \/ Token(c) = NoToken /\ Answer(c, "no-session")
       \/ Token(c) = BadToken /\ Answer(c, "stale")
       \/ Watched(c) /\ file[Token(c)] = "absent" /\ Answer(c, "stale")
       \/ Watched(c) /\ file[Token(c)] # "absent" /\ Goto(c, "decode") /\ UNCHANGED reason
    /\ UNCHANGED <<wrapperVars, exclusive, req, outcome, began>>

\* AuthorizeDelete returns an error and RunAPI gives up.
CheckFails(c) ==
    /\ Finish(c, "failed")
    /\ reason' = [reason EXCEPT ![c] = "error"]

\* Store.Load, hclsimple.DecodeFile: a file removed since the stat is an
\* error here, not a missing session.
DecodeSession(c) ==
    /\ cpc[c] = "decode"
    /\ IF file[Token(c)] = "full"
       THEN Goto(c, "open") /\ UNCHANGED <<reason, outcome>>
       ELSE CheckFails(c)
    /\ UNCHANGED <<wrapperVars, exclusive, req, began>>

\* probeLiveness, os.Open.  From here on the client has the inode, whether
\* or not the name is removed.
OpenSession(c) ==
    /\ cpc[c] = "open"
    /\ IF file[Token(c)] = "absent"
       THEN Answer(c, "not-live")
       ELSE Goto(c, "flock") /\ UNCHANGED reason
    /\ UNCHANGED <<wrapperVars, exclusive, req, outcome, began>>

\* Mutant of Locked: the probe asks for a shared lock.
LockedForShared(w) == exclusive[w] # Nobody

\* flock(LOCK_EX|LOCK_NB) would block: "holder still alive".
Locked(w) == shared[w] \/ exclusive[w] # Nobody

\* Mutant of ProbeBlocked: the probe waits for the lock (no LOCK_NB).
ProbeBlockedWaits(c) ==
    /\ cpc[c] = "flock"
    /\ ~Locked(Token(c))
    /\ UNCHANGED vars

ProbeBlocked(c) ==
    /\ cpc[c] = "flock"
    /\ Locked(Token(c))
    /\ Answer(c, IF AllowsDelete(allow[Token(c)], req[c].class)
                 THEN "granted" ELSE "class-not-granted")
    /\ UNCHANGED <<wrapperVars, exclusive, req, outcome, began>>

ProbeAcquires(c) ==
    /\ cpc[c] = "flock"
    /\ ~Locked(Token(c))
    /\ exclusive' = [exclusive EXCEPT ![Token(c)] = c]
    /\ Goto(c, "unlock")
    /\ UNCHANGED <<wrapperVars, req, reason, outcome, began>>

\* "Release immediately so we do not falsely signal liveness".
ProbeReleases(c) ==
    /\ cpc[c] = "unlock"
    /\ exclusive' = [exclusive EXCEPT ![Token(c)] = Nobody]
    /\ Answer(c, "not-live")
    /\ UNCHANGED <<wrapperVars, req, outcome, began>>

\* Any other I/O error of stat, decode, open or flock.
CheckError(c) ==
    /\ Watched(c)
    /\ cpc[c] \in {"stat", "decode", "open", "flock"}
    /\ CheckFails(c)
    /\ UNCHANGED <<wrapperVars, exclusive, req, began>>

\* Mutant of Gate: no default case, so a refusal falls through to the request.
GateFallsThrough(c) ==
    /\ cpc[c] = "gate"
    /\ \/ /\ reason[c] = "granted" \/ ~req[c].canPrompt
          /\ Goto(c, "send") /\ UNCHANGED outcome
       \/ /\ reason[c] # "granted" /\ req[c].canPrompt
          /\ Goto(c, "confirm") /\ UNCHANGED outcome
    /\ UNCHANGED <<wrapperVars, exclusive, req, reason, began>>

\* RunAPI's switch on the decision.
Gate(c) ==
    /\ cpc[c] = "gate"
    /\ \/ /\ reason[c] = "granted"
          /\ Goto(c, "send") /\ UNCHANGED outcome
       \/ /\ reason[c] # "granted" /\ req[c].canPrompt
          /\ Goto(c, "confirm") /\ UNCHANGED outcome
       \/ /\ reason[c] # "granted" /\ ~req[c].canPrompt
          /\ Finish(c, "denied")
    /\ UNCHANGED <<wrapperVars, exclusive, req, reason, began>>

\* PromptConfirm, asked in a dry run too.
Confirm(c) ==
    /\ cpc[c] = "confirm"
    /\ \/ Goto(c, "send") /\ UNCHANGED outcome
       \/ Finish(c, "canceled")
    /\ UNCHANGED <<wrapperVars, exclusive, req, reason, began>>

SendDelete(c) ==
    /\ cpc[c] = "send"
    /\ Finish(c, IF req[c].dryRun THEN "dry-run" ELSE "sent")
    /\ UNCHANGED <<wrapperVars, exclusive, req, reason, began>>

\* The process is killed; the kernel drops any lock it holds.
KillClient(c) ==
    /\ cpc[c] \notin {"idle", "done"}
    /\ Finish(c, "killed")
    /\ exclusive' = [w \in Wrappers |->
                        IF exclusive[w] = c THEN Nobody ELSE exclusive[w]]
    /\ UNCHANGED <<wrapperVars, req, reason, began>>

-----------------------------------------------------------------------------
WrapperStep(w) ==
    \/ RefuseExec(w)    \/ CreateFile(w)
    \/ TakeShared(w)    \/ TakeSharedFails(w)
    \/ WriteSession(w)  \/ WriteSessionFails(w)
    \/ Spawn(w)         \/ SpawnFails(w)
    \/ ReleaseShared(w)
    \/ RemoveFile(w)    \/ RemoveFileFails(w)

CheckStep(c) ==
    \/ StatSession(c)   \/ DecodeSession(c)  \/ OpenSession(c)
    \/ ProbeBlocked(c)  \/ ProbeAcquires(c)  \/ ProbeReleases(c)

ClientStep(c) == CheckStep(c) \/ Gate(c) \/ SendDelete(c)

Next ==
    \/ \E w \in Wrappers : WrapperStep(w) \/ ChildExits(w) \/ CrashWrapper(w)
    \/ \E c \in Clients  : BeginDelete(c) \/ ClientStep(c) \/ Confirm(c)
                           \/ CheckError(c) \/ KillClient(c)

Spec == Init /\ [][Next]_vars

\* A process that is not killed is scheduled: its system calls return.  How
\* long a child runs, whether a client is started, what a human answers and
\* whether a system call fails are not the program's to promise, so those
\* steps carry no fairness.
Fairness ==
    /\ \A w \in Wrappers : WF_vars(WrapperStep(w))
    /\ \A c \in Clients  : WF_vars(ClientStep(c))

FairSpec == Spec /\ Fairness

-----------------------------------------------------------------------------
TypeOK ==
    /\ wpc       \in [Wrappers -> WrapperPCs]
    /\ allow     \in [Wrappers -> SUBSET Classes]
    /\ file      \in [Wrappers -> {"absent", "empty", "full"}]
    /\ issued    \in [Wrappers -> BOOLEAN]
    /\ shared    \in [Wrappers -> BOOLEAN]
    /\ exclusive \in [Wrappers -> Clients \cup {Nobody}]
    /\ cpc       \in [Clients -> ClientPCs]
    /\ req       \in [Clients -> Requests]
    /\ reason    \in [Clients -> Reasons]
    /\ outcome   \in [Clients -> Outcomes]
    /\ began     \in [Clients -> [present : BOOLEAN, live : BOOLEAN]]

-----------------------------------------------------------------------------
(* What the session promises.                                              *)

\* d's probe of session w found the wrapper gone, or was killed on the way.
FoundDead(d, w) ==
    /\ Token(d) = w
    /\ cpc[d] = "unlock" \/ reason[d] = "not-live" \/ outcome[d] = "killed"

\* A delete sent with nobody to ask names a granted class, and its check began
\* while the session file was there.  If the wrapper was already gone by then,
\* a second probe of the same dead session was holding the exclusive lock:
\* that is the one way probeLiveness takes a dead wrapper for a live one.
UnattendedDeletesAreBacked ==
    \A c \in Clients :
        outcome[c] = "sent" /\ ~req[c].canPrompt =>
            /\ Watched(c)
            /\ req[c].class \in allow[Token(c)]
            /\ began[c].present
            /\ \/ began[c].live
               \/ \E d \in Clients \ {c} : FoundDead(d, Token(c))

\* AuthorizeDelete never turns a live session away as stale, dead or
\* undecodable: its wrapper has already released the lock, for good.
DenialsAreFinal ==
    \A c \in Clients :
        Watched(c) /\ reason[c] \in {"stale", "not-live"} =>
            /\ issued[Token(c)]
            /\ ~shared[Token(c)]

\* A wrapper that ends on its own, on whatever path through Create, the child
\* and Close, leaves neither a session file nor a lock behind.
NothingLeftBehind ==
    \A w \in Wrappers : wpc[w] = "done" => file[w] = "absent" /\ ~shared[w]

\* Until the child exits every check of an issued session finds a complete,
\* locked file, whatever the probes of other clients do to the lock.
IssuedSessionIsUsable ==
    \A w \in Wrappers :
        wpc[w] = "running" =>
            issued[w] /\ file[w] = "full" /\ shared[w] /\ exclusive[w] = Nobody

\* execsession.go, LivenessFn: "alive=false once that lock has been released
\* (the process exited or was killed)".
AliveMeansHeld ==
    [][\A c \in Clients :
        cpc[c] = "flock" /\ cpc'[c] = "gate" => shared[Token(c)]]_vars

\* AuthorizeDelete never waits on another process: it always answers.
ChecksTerminate ==
    \A c \in Clients :
        cpc[c] = "stat" ~> cpc[c] \in {"gate", "done"}

\* The grant reverts once the child is gone, unless the wrapper is killed
\* before it is done or the removal fails.
SessionReverts ==
    \A w \in Wrappers :
        wpc[w] = "close" ~> file[w] = "absent" \/ wpc[w] \in {"leaked", "crashed"}

-----------------------------------------------------------------------------
(* The session implements DeleteGrant: a grant is open while its file is   *)
(* there to be found.                                                      *)

grantStatus == [w \in Wrappers |->
    IF ~issued[w] THEN "unissued"
    ELSE IF file[w] = "absent" THEN "reverted" ELSE "open"]

grantPhase == [c \in Clients |->
    IF cpc[c] = "done" THEN IF outcome[c] \in {"sent", "dry-run"} THEN "deleted" ELSE "over"
    ELSE IF cpc[c] = "idle" THEN "idle"
    ELSE IF reason[c] = "none" THEN "checking"
    ELSE IF reason[c] = "granted" \/ cpc[c] = "send" THEN "approved"
    ELSE "refused"]

grantAsked == [c \in Clients |->
    IF began[c].present THEN Token(c) ELSE NoToken]

grantAttended == [c \in Clients |-> req[c].canPrompt]

Grant == INSTANCE DeleteGrant WITH
    Sessions <- Wrappers, Askers <- Clients, NoSession <- NoToken,
    status <- grantStatus, phase <- grantPhase, asked <- grantAsked,
    attended <- grantAttended

ImplementsDeleteGrant == Grant!Spec
=============================================================================

-------------------------- MODULE ExecSessionProofs --------------------------
(***************************************************************************)
(* Proofs about ExecSession, for any number of wrappers, clients and       *)
(* resource types, and about the prompts of TerminalPrompt, one of which   *)
(* ExecSession's gate opens where no session answers for the deletion.     *)
(***************************************************************************)
EXTENDS ExecSession, TerminalPrompt, TLAPS

-----------------------------------------------------------------------------
(* The inductive invariant.                                                *)

\* How a wrapper's position determines its lock and its file.
WrapperInv ==
    \A w \in Wrappers :
        /\ shared[w] <=> wpc[w] \in {"write", "spawn", "running", "close"}
        /\ wpc[w] = "start" => file[w] = "absent"
        /\ wpc[w] \in {"spawn", "running", "close"} => file[w] = "full"
        /\ wpc[w] = "running" => issued[w]
        /\ wpc[w] = "done" => file[w] = "absent"
        /\ issued[w] =>
            /\ wpc[w] \notin {"start", "lock", "write", "spawn"}
            /\ file[w] # "empty"
            /\ file[w] = "absent" => wpc[w] = "done"

\* The exclusive lock belongs to the one client between flock and unlock, and
\* never coexists with the wrapper's shared lock.
LockInv ==
    /\ \A w \in Wrappers :
        exclusive[w] # Nobody =>
            /\ ~shared[w]
            /\ cpc[exclusive[w]] = "unlock"
            /\ Token(exclusive[w]) = w
    /\ \A c \in Clients :
        cpc[c] = "unlock" => Watched(c) /\ exclusive[Token(c)] = c

\* What a client knows of the session it was handed.
CheckInv ==
    \A c \in Clients :
        /\ Watched(c) =>
            /\ issued[Token(c)]
            /\ ~began[c].present => file[Token(c)] = "absent"
            /\ ~began[c].live => ~shared[Token(c)]
        /\ cpc[c] \in {"decode", "open", "flock", "unlock"} =>
            Watched(c) /\ began[c].present
        /\ cpc[c] \in {"idle", "stat", "decode", "open", "flock", "unlock"} =>
            reason[c] = "none"
        /\ outcome[c] # "none" <=> cpc[c] = "done"

\* The gate: a delete is approved by a grant or by a human.
GateInv ==
    \A c \in Clients :
        /\ cpc[c] \in {"gate", "confirm", "send"} => reason[c] # "none"
        /\ cpc[c] = "confirm" => req[c].canPrompt
        /\ cpc[c] = "send" \/ outcome[c] = "sent" =>
            reason[c] = "granted" \/ req[c].canPrompt

\* A grant is backed by a live wrapper or by another probe's lock.
GrantInv ==
    \A c \in Clients :
        reason[c] = "granted" =>
            /\ Watched(c)
            /\ req[c].class \in allow[Token(c)]
            /\ began[c].present
            /\ \/ began[c].live
               \/ \E d \in Clients \ {c} : FoundDead(d, Token(c))

Inv == TypeOK /\ WrapperInv /\ LockInv /\ CheckInv /\ GateInv /\ GrantInv /\ DenialsAreFinal
-----------------------------------------------------------------------------
(* The steps.                                                              *)

\* A check that answers.
LEMMA AnswerTyped ==
    ASSUME TypeOK, NEW c \in Clients, NEW r \in Reasons, Answer(c, r),
           UNCHANGED <<wrapperVars, exclusive, req, outcome, began>>
    PROVE  TypeOK'
<1>1. cpc' \in [Clients -> ClientPCs] /\ reason' \in [Clients -> Reasons]
  BY DEF TypeOK, Answer, Goto, ClientPCs
<1>. QED
  BY <1>1 DEF TypeOK, wrapperVars

\* Every step keeps the types.
LEMMA TypeOKStep == TypeOK /\ [Next]_vars => TypeOK'
<1>. SUFFICES ASSUME TypeOK, [Next]_vars PROVE TypeOK'
  OBVIOUS
<1>. USE DEF TypeOK
<1>1. ASSUME NEW w \in Wrappers, RefuseExec(w) PROVE  TypeOK'
  BY <1>1 DEF RefuseExec, Wrapper, wrapperVars, clientVars, WrapperPCs, ClientPCs,
     Reasons, Outcomes
<1>2. ASSUME NEW w \in Wrappers, CreateFile(w) PROVE  TypeOK'
  BY <1>2 DEF CreateFile, Wrapper, wrapperVars, clientVars, WrapperPCs, ClientPCs,
     Reasons, Outcomes
<1>3. ASSUME NEW w \in Wrappers, TakeShared(w) PROVE  TypeOK'
  BY <1>3 DEF TakeShared, Wrapper, wrapperVars, clientVars, WrapperPCs, ClientPCs,
     Reasons, Outcomes
<1>4. ASSUME NEW w \in Wrappers, TakeSharedFails(w) PROVE  TypeOK'
  BY <1>4 DEF TakeSharedFails, Wrapper, wrapperVars, clientVars, WrapperPCs,
     ClientPCs, Reasons, Outcomes
<1>5. ASSUME NEW w \in Wrappers, WriteSession(w) PROVE  TypeOK'
  BY <1>5 DEF WriteSession, Wrapper, wrapperVars, clientVars, WrapperPCs,
     ClientPCs, Reasons, Outcomes
<1>6. ASSUME NEW w \in Wrappers, WriteSessionFails(w) PROVE  TypeOK'
  BY <1>6 DEF WriteSessionFails, Wrapper, wrapperVars, clientVars, WrapperPCs,
     ClientPCs, Reasons, Outcomes
<1>7. ASSUME NEW w \in Wrappers, Spawn(w) PROVE  TypeOK'
  BY <1>7 DEF Spawn, Wrapper, wrapperVars, clientVars, WrapperPCs, ClientPCs,
     Reasons, Outcomes
<1>8. ASSUME NEW w \in Wrappers, SpawnFails(w) PROVE  TypeOK'
  BY <1>8 DEF SpawnFails, Wrapper, wrapperVars, clientVars, WrapperPCs, ClientPCs,
     Reasons, Outcomes
<1>9. ASSUME NEW w \in Wrappers, ReleaseShared(w) PROVE  TypeOK'
  BY <1>9 DEF ReleaseShared, Wrapper, wrapperVars, clientVars, WrapperPCs,
     ClientPCs, Reasons, Outcomes
<1>10. ASSUME NEW w \in Wrappers, RemoveFile(w) PROVE  TypeOK'
  BY <1>10 DEF RemoveFile, Wrapper, wrapperVars, clientVars, WrapperPCs,
     ClientPCs, Reasons, Outcomes
<1>11. ASSUME NEW w \in Wrappers, RemoveFileFails(w) PROVE  TypeOK'
  BY <1>11 DEF RemoveFileFails, Wrapper, wrapperVars, clientVars, WrapperPCs,
     ClientPCs, Reasons, Outcomes
<1>12. ASSUME NEW w \in Wrappers, ChildExits(w) PROVE  TypeOK'
  BY <1>12 DEF ChildExits, Wrapper, wrapperVars, clientVars, WrapperPCs,
     ClientPCs, Reasons, Outcomes
<1>13. ASSUME NEW w \in Wrappers, CrashWrapper(w) PROVE  TypeOK'
  BY <1>13 DEF CrashWrapper, WrapperEnd, wrapperVars, clientVars, WrapperPCs,
     ClientPCs, Reasons, Outcomes
<1>14. ASSUME NEW c \in Clients, BeginDelete(c) PROVE  TypeOK'
  BY <1>14 DEF BeginDelete, Goto, wrapperVars, clientVars, WrapperPCs, ClientPCs,
     Reasons, Outcomes
<1>15. ASSUME NEW c \in Clients, StatSession(c) PROVE  TypeOK'
  BY <1>15 DEF StatSession, Goto, Answer, Token, Watched, wrapperVars, clientVars,
     WrapperPCs, ClientPCs, Reasons, Outcomes
<1>16. ASSUME NEW c \in Clients, DecodeSession(c) PROVE  TypeOK'
  <2>1. CASE file[Token(c)] = "full"
    BY <1>16, <2>1 DEF DecodeSession, Goto, wrapperVars, ClientPCs
  <2>2. CASE file[Token(c)] # "full"
    <3>1. /\ cpc' = [cpc EXCEPT ![c] = "done"] /\ outcome' = [outcome EXCEPT ![c] = "failed"]
          /\ reason' = [reason EXCEPT ![c] = "error"]
          /\ UNCHANGED <<wrapperVars, exclusive, req, began>>
      BY <1>16, <2>2 DEF DecodeSession, Goto, CheckFails, Finish
    <3>2. /\ cpc' \in [Clients -> ClientPCs] /\ reason' \in [Clients -> Reasons]
          /\ outcome' \in [Clients -> Outcomes]
      BY <3>1 DEF TypeOK, ClientPCs, Reasons, Outcomes
    <3>3. UNCHANGED <<wpc, allow, file, issued, shared, exclusive, req, began>>
      BY <3>1 DEF wrapperVars
    <3>. QED
      BY <3>2, <3>3 DEF TypeOK
  <2>. QED
    BY <2>1, <2>2
<1>17. ASSUME NEW c \in Clients, OpenSession(c) PROVE  TypeOK'
  <2>1. CASE file[Token(c)] = "absent"
    BY <1>17, <2>1, AnswerTyped DEF OpenSession, Reasons
  <2>2. CASE file[Token(c)] # "absent"
    BY <1>17, <2>2 DEF OpenSession, Goto, wrapperVars, ClientPCs
  <2>. QED
    BY <2>1, <2>2
<1>18. ASSUME NEW c \in Clients, ProbeBlocked(c) PROVE  TypeOK'
  BY <1>18, AnswerTyped DEF ProbeBlocked, Reasons
<1>19. ASSUME NEW c \in Clients, ProbeAcquires(c) PROVE  TypeOK'
  BY <1>19 DEF ProbeAcquires, Goto, Token, Locked, wrapperVars, clientVars,
     WrapperPCs, ClientPCs, Reasons, Outcomes
<1>20. ASSUME NEW c \in Clients, ProbeReleases(c) PROVE  TypeOK'
  BY <1>20 DEF ProbeReleases, Goto, Answer, Token, wrapperVars, clientVars,
     WrapperPCs, ClientPCs, Reasons, Outcomes
<1>21. ASSUME NEW c \in Clients, CheckError(c) PROVE  TypeOK'
  BY <1>21 DEF CheckError, Goto, CheckFails, Finish, Watched, wrapperVars,
     clientVars, WrapperPCs, ClientPCs, Reasons, Outcomes
<1>22. ASSUME NEW c \in Clients, Gate(c) PROVE  TypeOK'
  BY <1>22 DEF Gate, Goto, Finish, wrapperVars, clientVars, WrapperPCs, ClientPCs,
     Reasons, Outcomes
<1>23. ASSUME NEW c \in Clients, SendDelete(c) PROVE  TypeOK'
  BY <1>23 DEF SendDelete, Goto, Finish, wrapperVars, clientVars, WrapperPCs,
     ClientPCs, Reasons, Outcomes
<1>24. ASSUME NEW c \in Clients, Confirm(c) PROVE  TypeOK'
  BY <1>24 DEF Confirm, Goto, Finish, wrapperVars, clientVars, WrapperPCs,
     ClientPCs, Reasons, Outcomes
<1>25. ASSUME NEW c \in Clients, KillClient(c) PROVE  TypeOK'
  BY <1>25 DEF KillClient, Goto, Finish, wrapperVars, clientVars, WrapperPCs,
     ClientPCs, Reasons, Outcomes
<1>26. ASSUME UNCHANGED vars PROVE  TypeOK'
  BY <1>26 DEF vars, wrapperVars, clientVars, WrapperPCs, ClientPCs, Reasons, Outcomes
<1>. QED
  BY <1>1, <1>2, <1>3, <1>4, <1>5, <1>6, <1>7, <1>8, <1>9, <1>10, <1>11, <1>12,
     <1>13, <1>14, <1>15, <1>16, <1>17, <1>18, <1>19, <1>20, <1>21, <1>22, <1>23,
     <1>24, <1>25, <1>26 DEF Next, WrapperStep, ClientStep, CheckStep

\* A wrapper's lock and file follow its position in Create, runExec and Close.
LEMMA WrapperInvStep == TypeOK /\ WrapperInv /\ [Next]_vars => WrapperInv'
<1>. SUFFICES ASSUME TypeOK, WrapperInv, [Next]_vars PROVE WrapperInv'
  OBVIOUS
<1>. USE DEF TypeOK, WrapperInv
<1>1. ASSUME NEW w \in Wrappers, RefuseExec(w) PROVE WrapperInv'
  BY <1>1 DEF RefuseExec, Wrapper, clientVars
<1>2. ASSUME NEW w \in Wrappers, CreateFile(w) PROVE WrapperInv'
  BY <1>2 DEF CreateFile, Wrapper, clientVars
<1>3. ASSUME NEW w \in Wrappers, TakeShared(w) PROVE WrapperInv'
  BY <1>3 DEF TakeShared, Wrapper, clientVars
<1>4. ASSUME NEW w \in Wrappers, TakeSharedFails(w) PROVE WrapperInv'
  BY <1>4 DEF TakeSharedFails, Wrapper, clientVars
<1>5. ASSUME NEW w \in Wrappers, WriteSession(w) PROVE WrapperInv'
  BY <1>5 DEF WriteSession, Wrapper, clientVars
<1>6. ASSUME NEW w \in Wrappers, WriteSessionFails(w) PROVE WrapperInv'
  BY <1>6 DEF WriteSessionFails, Wrapper, clientVars
<1>7. ASSUME NEW w \in Wrappers, Spawn(w) PROVE WrapperInv'
  BY <1>7 DEF Spawn, Wrapper, clientVars
<1>8. ASSUME NEW w \in Wrappers, SpawnFails(w) PROVE WrapperInv'
  BY <1>8 DEF SpawnFails, Wrapper, clientVars
<1>9. ASSUME NEW w \in Wrappers, ReleaseShared(w) PROVE WrapperInv'
  BY <1>9 DEF ReleaseShared, Wrapper, clientVars
<1>10. ASSUME NEW w \in Wrappers, RemoveFile(w) PROVE WrapperInv'
  BY <1>10 DEF RemoveFile, Wrapper, clientVars
<1>11. ASSUME NEW w \in Wrappers, RemoveFileFails(w) PROVE WrapperInv'
  BY <1>11 DEF RemoveFileFails, Wrapper, clientVars
<1>12. ASSUME NEW w \in Wrappers, ChildExits(w) PROVE WrapperInv'
  BY <1>12 DEF ChildExits, Wrapper, clientVars
<1>13. ASSUME NEW w \in Wrappers, CrashWrapper(w) PROVE WrapperInv'
  BY <1>13 DEF CrashWrapper, WrapperEnd, clientVars
<1>14. ASSUME NEW c \in Clients, BeginDelete(c) PROVE WrapperInv'
  BY <1>14 DEF BeginDelete, Goto, wrapperVars
<1>15. ASSUME NEW c \in Clients, StatSession(c) PROVE WrapperInv'
  BY <1>15 DEF StatSession, Goto, Answer, Watched, wrapperVars
<1>16. ASSUME NEW c \in Clients, DecodeSession(c) PROVE WrapperInv'
  BY <1>16 DEF DecodeSession, Goto, CheckFails, Finish, wrapperVars
<1>17. ASSUME NEW c \in Clients, OpenSession(c) PROVE WrapperInv'
  BY <1>17 DEF OpenSession, Goto, Answer, wrapperVars
<1>18. ASSUME NEW c \in Clients, ProbeBlocked(c) PROVE WrapperInv'
  BY <1>18 DEF ProbeBlocked, Goto, Answer, Locked, AllowsDelete, wrapperVars
<1>19. ASSUME NEW c \in Clients, ProbeAcquires(c) PROVE WrapperInv'
  BY <1>19 DEF ProbeAcquires, Goto, Locked, wrapperVars
<1>20. ASSUME NEW c \in Clients, ProbeReleases(c) PROVE WrapperInv'
  BY <1>20 DEF ProbeReleases, Goto, Answer, wrapperVars
<1>21. ASSUME NEW c \in Clients, CheckError(c) PROVE WrapperInv'
  BY <1>21 DEF CheckError, Goto, CheckFails, Finish, Watched, wrapperVars
<1>22. ASSUME NEW c \in Clients, Gate(c) PROVE WrapperInv'
  BY <1>22 DEF Gate, Goto, Finish, wrapperVars
<1>23. ASSUME NEW c \in Clients, SendDelete(c) PROVE WrapperInv'
  BY <1>23 DEF SendDelete, Goto, Finish, wrapperVars
<1>24. ASSUME NEW c \in Clients, Confirm(c) PROVE WrapperInv'
  BY <1>24 DEF Confirm, Goto, Finish, wrapperVars
<1>25. ASSUME NEW c \in Clients, KillClient(c) PROVE WrapperInv'
  BY <1>25 DEF KillClient, Goto, Finish, wrapperVars
<1>26. CASE UNCHANGED vars
  BY <1>26 DEF vars, wrapperVars, clientVars
<1>. QED
  BY <1>1, <1>2, <1>3, <1>4, <1>5, <1>6, <1>7, <1>8, <1>9, <1>10, <1>11, <1>12,
     <1>13, <1>14, <1>15, <1>16, <1>17, <1>18, <1>19, <1>20, <1>21, <1>22, <1>23,
     <1>24, <1>25, <1>26
  DEF Next, WrapperStep, ClientStep, CheckStep

\* The exclusive lock is taken and dropped by one client, never beside the shared one.
LEMMA LockInvStep == TypeOK /\ WrapperInv /\ LockInv /\ CheckInv /\ [Next]_vars => LockInv'
<1>. SUFFICES ASSUME TypeOK, WrapperInv, LockInv, CheckInv, [Next]_vars PROVE LockInv'
  OBVIOUS
<1>. USE ConstantsAssumption DEF TypeOK, WrapperInv, LockInv, CheckInv, Token, Watched
<1>1. ASSUME NEW w \in Wrappers, RefuseExec(w) PROVE LockInv'
  BY <1>1 DEF RefuseExec, Wrapper, clientVars
<1>2. ASSUME NEW w \in Wrappers, CreateFile(w) PROVE LockInv'
  BY <1>2 DEF CreateFile, Wrapper, clientVars
<1>3. ASSUME NEW w \in Wrappers, TakeShared(w) PROVE LockInv'
  BY <1>3 DEF TakeShared, Wrapper, clientVars
<1>4. ASSUME NEW w \in Wrappers, TakeSharedFails(w) PROVE LockInv'
  BY <1>4 DEF TakeSharedFails, Wrapper, clientVars
<1>5. ASSUME NEW w \in Wrappers, WriteSession(w) PROVE LockInv'
  BY <1>5 DEF WriteSession, Wrapper, clientVars
<1>6. ASSUME NEW w \in Wrappers, WriteSessionFails(w) PROVE LockInv'
  BY <1>6 DEF WriteSessionFails, Wrapper, clientVars
<1>7. ASSUME NEW w \in Wrappers, Spawn(w) PROVE LockInv'
  BY <1>7 DEF Spawn, Wrapper, clientVars
<1>8. ASSUME NEW w \in Wrappers, SpawnFails(w) PROVE LockInv'
  BY <1>8 DEF SpawnFails, Wrapper, clientVars
<1>9. ASSUME NEW w \in Wrappers, ReleaseShared(w) PROVE LockInv'
  BY <1>9 DEF ReleaseShared, Wrapper, clientVars
<1>10. ASSUME NEW w \in Wrappers, RemoveFile(w) PROVE LockInv'
  BY <1>10 DEF RemoveFile, Wrapper, clientVars
<1>11. ASSUME NEW w \in Wrappers, RemoveFileFails(w) PROVE LockInv'
  BY <1>11 DEF RemoveFileFails, Wrapper, clientVars
<1>12. ASSUME NEW w \in Wrappers, ChildExits(w) PROVE LockInv'
  BY <1>12 DEF ChildExits, Wrapper, clientVars
<1>13. ASSUME NEW w \in Wrappers, CrashWrapper(w) PROVE LockInv'
  BY <1>13 DEF CrashWrapper, WrapperEnd, clientVars
<1>14. ASSUME NEW c \in Clients, BeginDelete(c) PROVE LockInv'
  BY <1>14 DEF BeginDelete, Goto, wrapperVars
<1>15. ASSUME NEW c \in Clients, StatSession(c) PROVE LockInv'
  BY <1>15 DEF StatSession, Goto, Answer, Watched, wrapperVars
<1>16. ASSUME NEW c \in Clients, DecodeSession(c) PROVE LockInv'
  BY <1>16 DEF DecodeSession, Goto, CheckFails, Finish, wrapperVars
<1>17. ASSUME NEW c \in Clients, OpenSession(c) PROVE LockInv'
  BY <1>17 DEF OpenSession, Goto, Answer, wrapperVars
<1>18. ASSUME NEW c \in Clients, ProbeBlocked(c) PROVE LockInv'
  BY <1>18 DEF ProbeBlocked, Goto, Answer, Locked, AllowsDelete, wrapperVars
<1>19. ASSUME NEW c \in Clients, ProbeAcquires(c) PROVE LockInv'
  BY <1>19 DEF ProbeAcquires, Goto, Locked, wrapperVars
<1>20. ASSUME NEW c \in Clients, ProbeReleases(c) PROVE LockInv'
  BY <1>20 DEF ProbeReleases, Goto, Answer, wrapperVars
<1>21. ASSUME NEW c \in Clients, CheckError(c) PROVE LockInv'
  BY <1>21 DEF CheckError, Goto, CheckFails, Finish, Watched, wrapperVars
<1>22. ASSUME NEW c \in Clients, Gate(c) PROVE LockInv'
  BY <1>22 DEF Gate, Goto, Finish, wrapperVars
<1>23. ASSUME NEW c \in Clients, SendDelete(c) PROVE LockInv'
  BY <1>23 DEF SendDelete, Goto, Finish, wrapperVars
<1>24. ASSUME NEW c \in Clients, Confirm(c) PROVE LockInv'
  BY <1>24 DEF Confirm, Goto, Finish, wrapperVars
<1>25. ASSUME NEW c \in Clients, KillClient(c) PROVE LockInv'
  BY <1>25 DEF KillClient, Goto, Finish, wrapperVars
<1>26. CASE UNCHANGED vars
  BY <1>26 DEF vars, wrapperVars, clientVars
<1>. QED
  BY <1>1, <1>2, <1>3, <1>4, <1>5, <1>6, <1>7, <1>8, <1>9, <1>10, <1>11, <1>12,
     <1>13, <1>14, <1>15, <1>16, <1>17, <1>18, <1>19, <1>20, <1>21, <1>22, <1>23,
     <1>24, <1>25, <1>26
  DEF Next, WrapperStep, ClientStep, CheckStep

\* What a client found on entry stays true of its session: files and locks only go.
LEMMA CheckInvStep == TypeOK /\ WrapperInv /\ LockInv /\ CheckInv /\ [Next]_vars => CheckInv'
<1>. SUFFICES ASSUME TypeOK, WrapperInv, LockInv, CheckInv, [Next]_vars PROVE CheckInv'
  OBVIOUS
<1>. USE ConstantsAssumption DEF TypeOK, WrapperInv, LockInv, CheckInv, Token, Watched
<1>1. ASSUME NEW w \in Wrappers, RefuseExec(w) PROVE CheckInv'
  BY <1>1 DEF RefuseExec, Wrapper, clientVars
<1>2. ASSUME NEW w \in Wrappers, CreateFile(w) PROVE CheckInv'
  BY <1>2 DEF CreateFile, Wrapper, clientVars
<1>3. ASSUME NEW w \in Wrappers, TakeShared(w) PROVE CheckInv'
  BY <1>3 DEF TakeShared, Wrapper, clientVars
<1>4. ASSUME NEW w \in Wrappers, TakeSharedFails(w) PROVE CheckInv'
  BY <1>4 DEF TakeSharedFails, Wrapper, clientVars
<1>5. ASSUME NEW w \in Wrappers, WriteSession(w) PROVE CheckInv'
  BY <1>5 DEF WriteSession, Wrapper, clientVars
<1>6. ASSUME NEW w \in Wrappers, WriteSessionFails(w) PROVE CheckInv'
  BY <1>6 DEF WriteSessionFails, Wrapper, clientVars
<1>7. ASSUME NEW w \in Wrappers, Spawn(w) PROVE CheckInv'
  BY <1>7 DEF Spawn, Wrapper, clientVars
<1>8. ASSUME NEW w \in Wrappers, SpawnFails(w) PROVE CheckInv'
  BY <1>8 DEF SpawnFails, Wrapper, clientVars
<1>9. ASSUME NEW w \in Wrappers, ReleaseShared(w) PROVE CheckInv'
  BY <1>9 DEF ReleaseShared, Wrapper, clientVars
<1>10. ASSUME NEW w \in Wrappers, RemoveFile(w) PROVE CheckInv'
  BY <1>10 DEF RemoveFile, Wrapper, clientVars
<1>11. ASSUME NEW w \in Wrappers, RemoveFileFails(w) PROVE CheckInv'
  BY <1>11 DEF RemoveFileFails, Wrapper, clientVars
<1>12. ASSUME NEW w \in Wrappers, ChildExits(w) PROVE CheckInv'
  BY <1>12 DEF ChildExits, Wrapper, clientVars
<1>13. ASSUME NEW w \in Wrappers, CrashWrapper(w) PROVE CheckInv'
  BY <1>13 DEF CrashWrapper, WrapperEnd, clientVars
<1>14. ASSUME NEW c \in Clients, BeginDelete(c) PROVE CheckInv'
  BY <1>14 DEF BeginDelete, Goto, wrapperVars
<1>15. ASSUME NEW c \in Clients, StatSession(c) PROVE CheckInv'
  BY <1>15 DEF StatSession, Goto, Answer, Watched, wrapperVars
<1>16. ASSUME NEW c \in Clients, DecodeSession(c) PROVE CheckInv'
  BY <1>16 DEF DecodeSession, Goto, CheckFails, Finish, wrapperVars
<1>17. ASSUME NEW c \in Clients, OpenSession(c) PROVE CheckInv'
  BY <1>17 DEF OpenSession, Goto, Answer, wrapperVars
<1>18. ASSUME NEW c \in Clients, ProbeBlocked(c) PROVE CheckInv'
  BY <1>18 DEF ProbeBlocked, Goto, Answer, Locked, AllowsDelete, wrapperVars
<1>19. ASSUME NEW c \in Clients, ProbeAcquires(c) PROVE CheckInv'
  BY <1>19 DEF ProbeAcquires, Goto, Locked, wrapperVars
<1>20. ASSUME NEW c \in Clients, ProbeReleases(c) PROVE CheckInv'
  BY <1>20 DEF ProbeReleases, Goto, Answer, wrapperVars
<1>21. ASSUME NEW c \in Clients, CheckError(c) PROVE CheckInv'
  BY <1>21 DEF CheckError, Goto, CheckFails, Finish, Watched, wrapperVars
<1>22. ASSUME NEW c \in Clients, Gate(c) PROVE CheckInv'
  BY <1>22 DEF Gate, Goto, Finish, wrapperVars
<1>23. ASSUME NEW c \in Clients, SendDelete(c) PROVE CheckInv'
  BY <1>23 DEF SendDelete, Goto, Finish, wrapperVars
<1>24. ASSUME NEW c \in Clients, Confirm(c) PROVE CheckInv'
  BY <1>24 DEF Confirm, Goto, Finish, wrapperVars
<1>25. ASSUME NEW c \in Clients, KillClient(c) PROVE CheckInv'
  BY <1>25 DEF KillClient, Goto, Finish, wrapperVars
<1>26. CASE UNCHANGED vars
  BY <1>26 DEF vars, wrapperVars, clientVars
<1>. QED
  BY <1>1, <1>2, <1>3, <1>4, <1>5, <1>6, <1>7, <1>8, <1>9, <1>10, <1>11, <1>12,
     <1>13, <1>14, <1>15, <1>16, <1>17, <1>18, <1>19, <1>20, <1>21, <1>22, <1>23,
     <1>24, <1>25, <1>26
  DEF Next, WrapperStep, ClientStep, CheckStep

\* RunAPI's switch lets nothing through to the request but a grant or a human's yes.
LEMMA GateInvStep == TypeOK /\ CheckInv /\ GateInv /\ [Next]_vars => GateInv'
<1>. SUFFICES ASSUME TypeOK, CheckInv, GateInv, [Next]_vars PROVE GateInv'
  OBVIOUS
<1>. USE DEF TypeOK, CheckInv, GateInv, Token, Watched
<1>1. ASSUME NEW w \in Wrappers, RefuseExec(w) PROVE GateInv'
  BY <1>1 DEF RefuseExec, Wrapper, clientVars
<1>2. ASSUME NEW w \in Wrappers, CreateFile(w) PROVE GateInv'
  BY <1>2 DEF CreateFile, Wrapper, clientVars
<1>3. ASSUME NEW w \in Wrappers, TakeShared(w) PROVE GateInv'
  BY <1>3 DEF TakeShared, Wrapper, clientVars
<1>4. ASSUME NEW w \in Wrappers, TakeSharedFails(w) PROVE GateInv'
  BY <1>4 DEF TakeSharedFails, Wrapper, clientVars
<1>5. ASSUME NEW w \in Wrappers, WriteSession(w) PROVE GateInv'
  BY <1>5 DEF WriteSession, Wrapper, clientVars
<1>6. ASSUME NEW w \in Wrappers, WriteSessionFails(w) PROVE GateInv'
  BY <1>6 DEF WriteSessionFails, Wrapper, clientVars
<1>7. ASSUME NEW w \in Wrappers, Spawn(w) PROVE GateInv'
  BY <1>7 DEF Spawn, Wrapper, clientVars
<1>8. ASSUME NEW w \in Wrappers, SpawnFails(w) PROVE GateInv'
  BY <1>8 DEF SpawnFails, Wrapper, clientVars
<1>9. ASSUME NEW w \in Wrappers, ReleaseShared(w) PROVE GateInv'
  BY <1>9 DEF ReleaseShared, Wrapper, clientVars
<1>10. ASSUME NEW w \in Wrappers, RemoveFile(w) PROVE GateInv'
  BY <1>10 DEF RemoveFile, Wrapper, clientVars
<1>11. ASSUME NEW w \in Wrappers, RemoveFileFails(w) PROVE GateInv'
  BY <1>11 DEF RemoveFileFails, Wrapper, clientVars
<1>12. ASSUME NEW w \in Wrappers, ChildExits(w) PROVE GateInv'
  BY <1>12 DEF ChildExits, Wrapper, clientVars
<1>13. ASSUME NEW w \in Wrappers, CrashWrapper(w) PROVE GateInv'
  BY <1>13 DEF CrashWrapper, WrapperEnd, clientVars
<1>14. ASSUME NEW c \in Clients, BeginDelete(c) PROVE GateInv'
  BY <1>14 DEF BeginDelete, Goto, wrapperVars
<1>15. ASSUME NEW c \in Clients, StatSession(c) PROVE GateInv'
  BY <1>15 DEF StatSession, Goto, Answer, Watched, wrapperVars
<1>16. ASSUME NEW c \in Clients, DecodeSession(c) PROVE GateInv'
  BY <1>16 DEF DecodeSession, Goto, CheckFails, Finish, wrapperVars
<1>17. ASSUME NEW c \in Clients, OpenSession(c) PROVE GateInv'
  BY <1>17 DEF OpenSession, Goto, Answer, wrapperVars
<1>18. ASSUME NEW c \in Clients, ProbeBlocked(c) PROVE GateInv'
  BY <1>18 DEF ProbeBlocked, Goto, Answer, Locked, AllowsDelete, wrapperVars
<1>19. ASSUME NEW c \in Clients, ProbeAcquires(c) PROVE GateInv'
  BY <1>19 DEF ProbeAcquires, Goto, Locked, wrapperVars
<1>20. ASSUME NEW c \in Clients, ProbeReleases(c) PROVE GateInv'
  BY <1>20 DEF ProbeReleases, Goto, Answer, wrapperVars
<1>21. ASSUME NEW c \in Clients, CheckError(c) PROVE GateInv'
  BY <1>21 DEF CheckError, Goto, CheckFails, Finish, Watched, wrapperVars
<1>22. ASSUME NEW c \in Clients, Gate(c) PROVE GateInv'
  BY <1>22 DEF Gate, Goto, Finish, wrapperVars
<1>23. ASSUME NEW c \in Clients, SendDelete(c) PROVE GateInv'
  BY <1>23 DEF SendDelete, Goto, Finish, wrapperVars
<1>24. ASSUME NEW c \in Clients, Confirm(c) PROVE GateInv'
  BY <1>24 DEF Confirm, Goto, Finish, wrapperVars
<1>25. ASSUME NEW c \in Clients, KillClient(c) PROVE GateInv'
  BY <1>25 DEF KillClient, Goto, Finish, wrapperVars
<1>26. CASE UNCHANGED vars
  BY <1>26 DEF vars, wrapperVars, clientVars
<1>. QED
  BY <1>1, <1>2, <1>3, <1>4, <1>5, <1>6, <1>7, <1>8, <1>9, <1>10, <1>11, <1>12,
     <1>13, <1>14, <1>15, <1>16, <1>17, <1>18, <1>19, <1>20, <1>21, <1>22, <1>23,
     <1>24, <1>25, <1>26
  DEF Next, WrapperStep, ClientStep, CheckStep

\* What a probe found out about a dead session is never forgotten.
LEMMA FoundDeadStable ==
    ASSUME TypeOK, CheckInv, [Next]_vars,
           NEW d \in Clients, NEW s \in Wrappers, FoundDead(d, s)
    PROVE  FoundDead(d, s)'
<1>. USE DEF TypeOK, CheckInv, FoundDead, Token
<1>1. ASSUME NEW w \in Wrappers, RefuseExec(w) PROVE FoundDead(d, s)'
  BY <1>1 DEF RefuseExec, Wrapper, clientVars
<1>2. ASSUME NEW w \in Wrappers, CreateFile(w) PROVE FoundDead(d, s)'
  BY <1>2 DEF CreateFile, Wrapper, clientVars
<1>3. ASSUME NEW w \in Wrappers, TakeShared(w) PROVE FoundDead(d, s)'
  BY <1>3 DEF TakeShared, Wrapper, clientVars
<1>4. ASSUME NEW w \in Wrappers, TakeSharedFails(w) PROVE FoundDead(d, s)'
  BY <1>4 DEF TakeSharedFails, Wrapper, clientVars
<1>5. ASSUME NEW w \in Wrappers, WriteSession(w) PROVE FoundDead(d, s)'
  BY <1>5 DEF WriteSession, Wrapper, clientVars
<1>6. ASSUME NEW w \in Wrappers, WriteSessionFails(w) PROVE FoundDead(d, s)'
  BY <1>6 DEF WriteSessionFails, Wrapper, clientVars
<1>7. ASSUME NEW w \in Wrappers, Spawn(w) PROVE FoundDead(d, s)'
  BY <1>7 DEF Spawn, Wrapper, clientVars
<1>8. ASSUME NEW w \in Wrappers, SpawnFails(w) PROVE FoundDead(d, s)'
  BY <1>8 DEF SpawnFails, Wrapper, clientVars
<1>9. ASSUME NEW w \in Wrappers, ReleaseShared(w) PROVE FoundDead(d, s)'
  BY <1>9 DEF ReleaseShared, Wrapper, clientVars
<1>10. ASSUME NEW w \in Wrappers, RemoveFile(w) PROVE FoundDead(d, s)'
  BY <1>10 DEF RemoveFile, Wrapper, clientVars
<1>11. ASSUME NEW w \in Wrappers, RemoveFileFails(w) PROVE FoundDead(d, s)'
  BY <1>11 DEF RemoveFileFails, Wrapper, clientVars
<1>12. ASSUME NEW w \in Wrappers, ChildExits(w) PROVE FoundDead(d, s)'
  BY <1>12 DEF ChildExits, Wrapper, clientVars
<1>13. ASSUME NEW w \in Wrappers, CrashWrapper(w) PROVE FoundDead(d, s)'
  BY <1>13 DEF CrashWrapper, WrapperEnd, clientVars
<1>14. ASSUME NEW c \in Clients, BeginDelete(c) PROVE FoundDead(d, s)'
  BY <1>14 DEF BeginDelete, Goto, wrapperVars
<1>15. ASSUME NEW c \in Clients, StatSession(c) PROVE FoundDead(d, s)'
  BY <1>15 DEF StatSession, Goto, Answer, Watched, wrapperVars
<1>16. ASSUME NEW c \in Clients, DecodeSession(c) PROVE FoundDead(d, s)'
  BY <1>16 DEF DecodeSession, Goto, CheckFails, Finish, wrapperVars
<1>17. ASSUME NEW c \in Clients, OpenSession(c) PROVE FoundDead(d, s)'
  BY <1>17 DEF OpenSession, Goto, Answer, wrapperVars
<1>18. ASSUME NEW c \in Clients, ProbeBlocked(c) PROVE FoundDead(d, s)'
  BY <1>18 DEF ProbeBlocked, Goto, Answer, Locked, AllowsDelete, wrapperVars
<1>19. ASSUME NEW c \in Clients, ProbeAcquires(c) PROVE FoundDead(d, s)'
  BY <1>19 DEF ProbeAcquires, Goto, Locked, wrapperVars
<1>20. ASSUME NEW c \in Clients, ProbeReleases(c) PROVE FoundDead(d, s)'
  BY <1>20 DEF ProbeReleases, Goto, Answer, wrapperVars
<1>21. ASSUME NEW c \in Clients, CheckError(c) PROVE FoundDead(d, s)'
  BY <1>21 DEF CheckError, Goto, CheckFails, Finish, Watched, wrapperVars
<1>22. ASSUME NEW c \in Clients, Gate(c) PROVE FoundDead(d, s)'
  BY <1>22 DEF Gate, Goto, Finish, wrapperVars
<1>23. ASSUME NEW c \in Clients, SendDelete(c) PROVE FoundDead(d, s)'
  BY <1>23 DEF SendDelete, Goto, Finish, wrapperVars
<1>24. ASSUME NEW c \in Clients, Confirm(c) PROVE FoundDead(d, s)'
  BY <1>24 DEF Confirm, Goto, Finish, wrapperVars
<1>25. ASSUME NEW c \in Clients, KillClient(c) PROVE FoundDead(d, s)'
  BY <1>25 DEF KillClient, Goto, Finish, wrapperVars
<1>26. CASE UNCHANGED vars
  BY <1>26 DEF vars, wrapperVars, clientVars
<1>. QED
  BY <1>1, <1>2, <1>3, <1>4, <1>5, <1>6, <1>7, <1>8, <1>9, <1>10, <1>11, <1>12,
     <1>13, <1>14, <1>15, <1>16, <1>17, <1>18, <1>19, <1>20, <1>21, <1>22, <1>23,
     <1>24, <1>25, <1>26
  DEF Next, WrapperStep, ClientStep, CheckStep

\* Only a blocked probe grants, and a grant keeps its request.
LEMMA GrantOrigin ==
    ASSUME TypeOK, CheckInv, [Next]_vars, NEW e \in Clients, reason'[e] = "granted"
    PROVE  /\ UNCHANGED <<req[e], began[e], allow>>
           /\ reason[e] = "granted" \/ ProbeBlocked(e)
<1>. DEFINE Goal == /\ UNCHANGED <<req[e], began[e], allow>>
                    /\ reason[e] = "granted" \/ ProbeBlocked(e)
<1>. USE DEF TypeOK, CheckInv
<1>1. ASSUME NEW w \in Wrappers, RefuseExec(w) PROVE Goal
  BY <1>1 DEF RefuseExec, Wrapper, clientVars
<1>2. ASSUME NEW w \in Wrappers, CreateFile(w) PROVE Goal
  BY <1>2 DEF CreateFile, Wrapper, clientVars
<1>3. ASSUME NEW w \in Wrappers, TakeShared(w) PROVE Goal
  BY <1>3 DEF TakeShared, Wrapper, clientVars
<1>4. ASSUME NEW w \in Wrappers, TakeSharedFails(w) PROVE Goal
  BY <1>4 DEF TakeSharedFails, Wrapper, clientVars
<1>5. ASSUME NEW w \in Wrappers, WriteSession(w) PROVE Goal
  BY <1>5 DEF WriteSession, Wrapper, clientVars
<1>6. ASSUME NEW w \in Wrappers, WriteSessionFails(w) PROVE Goal
  BY <1>6 DEF WriteSessionFails, Wrapper, clientVars
<1>7. ASSUME NEW w \in Wrappers, Spawn(w) PROVE Goal
  BY <1>7 DEF Spawn, Wrapper, clientVars
<1>8. ASSUME NEW w \in Wrappers, SpawnFails(w) PROVE Goal
  BY <1>8 DEF SpawnFails, Wrapper, clientVars
<1>9. ASSUME NEW w \in Wrappers, ReleaseShared(w) PROVE Goal
  BY <1>9 DEF ReleaseShared, Wrapper, clientVars
<1>10. ASSUME NEW w \in Wrappers, RemoveFile(w) PROVE Goal
  BY <1>10 DEF RemoveFile, Wrapper, clientVars
<1>11. ASSUME NEW w \in Wrappers, RemoveFileFails(w) PROVE Goal
  BY <1>11 DEF RemoveFileFails, Wrapper, clientVars
<1>12. ASSUME NEW w \in Wrappers, ChildExits(w) PROVE Goal
  BY <1>12 DEF ChildExits, Wrapper, clientVars
<1>13. ASSUME NEW w \in Wrappers, CrashWrapper(w) PROVE Goal
  BY <1>13 DEF CrashWrapper, WrapperEnd, clientVars
<1>14. ASSUME NEW c \in Clients, BeginDelete(c) PROVE Goal
  BY <1>14 DEF BeginDelete, Goto, wrapperVars
<1>15. ASSUME NEW c \in Clients, StatSession(c) PROVE Goal
  BY <1>15 DEF StatSession, Goto, Answer, Watched, wrapperVars
<1>16. ASSUME NEW c \in Clients, DecodeSession(c) PROVE Goal
  BY <1>16 DEF DecodeSession, Goto, CheckFails, Finish, wrapperVars
<1>17. ASSUME NEW c \in Clients, OpenSession(c) PROVE Goal
  BY <1>17 DEF OpenSession, Goto, Answer, wrapperVars
<1>18. ASSUME NEW c \in Clients, ProbeBlocked(c) PROVE Goal
  BY <1>18 DEF ProbeBlocked, Goto, Answer, Locked, AllowsDelete, wrapperVars
<1>19. ASSUME NEW c \in Clients, ProbeAcquires(c) PROVE Goal
  BY <1>19 DEF ProbeAcquires, Goto, Locked, wrapperVars
<1>20. ASSUME NEW c \in Clients, ProbeReleases(c) PROVE Goal
  BY <1>20 DEF ProbeReleases, Goto, Answer, wrapperVars
<1>21. ASSUME NEW c \in Clients, CheckError(c) PROVE Goal
  BY <1>21 DEF CheckError, Goto, CheckFails, Finish, Watched, wrapperVars
<1>22. ASSUME NEW c \in Clients, Gate(c) PROVE Goal
  BY <1>22 DEF Gate, Goto, Finish, wrapperVars
<1>23. ASSUME NEW c \in Clients, SendDelete(c) PROVE Goal
  BY <1>23 DEF SendDelete, Goto, Finish, wrapperVars
<1>24. ASSUME NEW c \in Clients, Confirm(c) PROVE Goal
  BY <1>24 DEF Confirm, Goto, Finish, wrapperVars
<1>25. ASSUME NEW c \in Clients, KillClient(c) PROVE Goal
  BY <1>25 DEF KillClient, Goto, Finish, wrapperVars
<1>26. CASE UNCHANGED vars
  BY <1>26 DEF vars, wrapperVars, clientVars
<1>. QED
  BY <1>1, <1>2, <1>3, <1>4, <1>5, <1>6, <1>7, <1>8, <1>9, <1>10, <1>11, <1>12,
     <1>13, <1>14, <1>15, <1>16, <1>17, <1>18, <1>19, <1>20, <1>21, <1>22, <1>23,
     <1>24, <1>25, <1>26
  DEF Next, WrapperStep, ClientStep, CheckStep

\* A grant is backed when it is given, and stays backed.
LEMMA GrantInvStep ==
    TypeOK /\ LockInv /\ CheckInv /\ GrantInv /\ [Next]_vars => GrantInv'
<1>. SUFFICES ASSUME TypeOK, LockInv, CheckInv, GrantInv, [Next]_vars,
                     NEW e \in Clients, reason'[e] = "granted"
              PROVE  /\ Watched(e)'
                     /\ (req[e].class \in allow[Token(e)])'
                     /\ began'[e].present
                     /\ \/ began'[e].live
                        \/ \E d \in Clients \ {e} : FoundDead(d, Token(e))'
  BY DEF GrantInv
<1>1. UNCHANGED <<req[e], began[e], allow>> /\ (reason[e] = "granted" \/ ProbeBlocked(e))
  BY GrantOrigin
<1>2. UNCHANGED Token(e)
  BY <1>1 DEF Token
<1>3. ASSUME NEW d \in Clients \ {e}, Token(e) \in Wrappers, FoundDead(d, Token(e))
      PROVE  FoundDead(d, Token(e))'
  BY <1>2, <1>3, FoundDeadStable DEF FoundDead
<1>4. CASE reason[e] = "granted"
  BY <1>1, <1>2, <1>3, <1>4 DEF GrantInv, Watched
<1>5. CASE reason[e] # "granted" /\ ProbeBlocked(e)
  <2>1. Watched(e) /\ began[e].present /\ cpc[e] = "flock" /\ Locked(Token(e))
    BY <1>5 DEF ProbeBlocked, CheckInv
  <2>2. req[e].class \in allow[Token(e)]
    BY <1>5 DEF ProbeBlocked, Answer, Goto, AllowsDelete, TypeOK
  <2>3. ASSUME ~began[e].live
        PROVE  \E d \in Clients \ {e} : FoundDead(d, Token(e))
    <3>1. ~shared[Token(e)] /\ exclusive[Token(e)] # Nobody
      BY <2>1, <2>3 DEF CheckInv, Locked
    <3>2. exclusive[Token(e)] \in Clients
      BY <2>1, <3>1 DEF TypeOK, Watched
    <3>. QED
      BY <2>1, <3>1, <3>2 DEF LockInv, FoundDead, Watched
  <2>. QED
    BY <1>1, <1>2, <1>3, <2>1, <2>2, <2>3 DEF Watched
<1>. QED
  BY <1>1, <1>4, <1>5

\* A stale or not-live answer stays right.
LEMMA DenialStep == TypeOK /\ WrapperInv /\ LockInv /\ CheckInv /\ DenialsAreFinal /\ [Next]_vars => DenialsAreFinal'
<1>. SUFFICES ASSUME TypeOK, WrapperInv, LockInv, CheckInv, DenialsAreFinal, [Next]_vars PROVE DenialsAreFinal'
  OBVIOUS
<1>. USE ConstantsAssumption DEF TypeOK, WrapperInv, LockInv, CheckInv, DenialsAreFinal, Token, Watched
<1>1. ASSUME NEW w \in Wrappers, RefuseExec(w) PROVE DenialsAreFinal'
  BY <1>1 DEF RefuseExec, Wrapper, clientVars
<1>2. ASSUME NEW w \in Wrappers, CreateFile(w) PROVE DenialsAreFinal'
  BY <1>2 DEF CreateFile, Wrapper, clientVars
<1>3. ASSUME NEW w \in Wrappers, TakeShared(w) PROVE DenialsAreFinal'
  BY <1>3 DEF TakeShared, Wrapper, clientVars
<1>4. ASSUME NEW w \in Wrappers, TakeSharedFails(w) PROVE DenialsAreFinal'
  BY <1>4 DEF TakeSharedFails, Wrapper, clientVars
<1>5. ASSUME NEW w \in Wrappers, WriteSession(w) PROVE DenialsAreFinal'
  BY <1>5 DEF WriteSession, Wrapper, clientVars
<1>6. ASSUME NEW w \in Wrappers, WriteSessionFails(w) PROVE DenialsAreFinal'
  BY <1>6 DEF WriteSessionFails, Wrapper, clientVars
<1>7. ASSUME NEW w \in Wrappers, Spawn(w) PROVE DenialsAreFinal'
  BY <1>7 DEF Spawn, Wrapper, clientVars
<1>8. ASSUME NEW w \in Wrappers, SpawnFails(w) PROVE DenialsAreFinal'
  BY <1>8 DEF SpawnFails, Wrapper, clientVars
<1>9. ASSUME NEW w \in Wrappers, ReleaseShared(w) PROVE DenialsAreFinal'
  BY <1>9 DEF ReleaseShared, Wrapper, clientVars
<1>10. ASSUME NEW w \in Wrappers, RemoveFile(w) PROVE DenialsAreFinal'
  BY <1>10 DEF RemoveFile, Wrapper, clientVars
<1>11. ASSUME NEW w \in Wrappers, RemoveFileFails(w) PROVE DenialsAreFinal'
  BY <1>11 DEF RemoveFileFails, Wrapper, clientVars
<1>12. ASSUME NEW w \in Wrappers, ChildExits(w) PROVE DenialsAreFinal'
  BY <1>12 DEF ChildExits, Wrapper, clientVars
<1>13. ASSUME NEW w \in Wrappers, CrashWrapper(w) PROVE DenialsAreFinal'
  BY <1>13 DEF CrashWrapper, WrapperEnd, clientVars
<1>14. ASSUME NEW c \in Clients, BeginDelete(c) PROVE DenialsAreFinal'
  BY <1>14 DEF BeginDelete, Goto, wrapperVars
<1>15. ASSUME NEW c \in Clients, StatSession(c) PROVE DenialsAreFinal'
  <2>. SUFFICES ASSUME NEW e \in Clients, req'[e].token \in Wrappers,
                       reason'[e] \in {"stale", "not-live"}
                PROVE  issued'[req'[e].token] /\ ~shared'[req'[e].token]
    OBVIOUS
  <2>1. UNCHANGED <<req, wpc, file, issued, shared>> /\ cpc[c] = "stat"
    BY <1>15 DEF StatSession, wrapperVars
  <2>2. CASE e = c /\ file[Token(c)] = "absent"
    BY <2>1, <2>2
  <2>3. CASE e # c \/ file[Token(c)] # "absent"
    <3>1. reason'[e] = reason[e] \/ (e = c /\ Token(c) \notin Wrappers)
      BY <1>15, <2>3 DEF StatSession, Answer
    <3> QED
      BY <2>1, <2>3, <3>1
  <2>. QED
    BY <2>2, <2>3
<1>16. ASSUME NEW c \in Clients, DecodeSession(c) PROVE DenialsAreFinal'
  BY <1>16 DEF DecodeSession, Goto, CheckFails, Finish, wrapperVars
<1>17. ASSUME NEW c \in Clients, OpenSession(c) PROVE DenialsAreFinal'
  <2>. SUFFICES ASSUME NEW e \in Clients, req'[e].token \in Wrappers,
                       reason'[e] \in {"stale", "not-live"}
                PROVE  issued'[req'[e].token] /\ ~shared'[req'[e].token]
    OBVIOUS
  <2>1. UNCHANGED <<req, wpc, file, issued, shared>>
    BY <1>17 DEF OpenSession, wrapperVars
  <2>2. CASE e = c /\ file[Token(c)] = "absent"
    BY <2>1, <2>2, <1>17 DEF OpenSession
  <2>3. CASE e # c \/ file[Token(c)] # "absent"
    BY <2>1, <2>3, <1>17 DEF OpenSession, Goto, Answer
  <2>. QED
    BY <2>2, <2>3
<1>18. ASSUME NEW c \in Clients, ProbeBlocked(c) PROVE DenialsAreFinal'
  BY <1>18 DEF ProbeBlocked, Goto, Answer, Locked, AllowsDelete, wrapperVars
<1>19. ASSUME NEW c \in Clients, ProbeAcquires(c) PROVE DenialsAreFinal'
  BY <1>19 DEF ProbeAcquires, Goto, Locked, wrapperVars
<1>20. ASSUME NEW c \in Clients, ProbeReleases(c) PROVE DenialsAreFinal'
  BY <1>20 DEF ProbeReleases, Goto, Answer, wrapperVars
<1>21. ASSUME NEW c \in Clients, CheckError(c) PROVE DenialsAreFinal'
  BY <1>21 DEF CheckError, Goto, CheckFails, Finish, Watched, wrapperVars
<1>22. ASSUME NEW c \in Clients, Gate(c) PROVE DenialsAreFinal'
  BY <1>22 DEF Gate, Goto, Finish, wrapperVars
<1>23. ASSUME NEW c \in Clients, SendDelete(c) PROVE DenialsAreFinal'
  BY <1>23 DEF SendDelete, Goto, Finish, wrapperVars
<1>24. ASSUME NEW c \in Clients, Confirm(c) PROVE DenialsAreFinal'
  BY <1>24 DEF Confirm, Goto, Finish, wrapperVars
<1>25. ASSUME NEW c \in Clients, KillClient(c) PROVE DenialsAreFinal'
  BY <1>25 DEF KillClient, Goto, Finish, wrapperVars
<1>26. CASE UNCHANGED vars
  BY <1>26 DEF vars, wrapperVars, clientVars
<1>. QED
  BY <1>1, <1>2, <1>3, <1>4, <1>5, <1>6, <1>7, <1>8, <1>9, <1>10, <1>11, <1>12,
     <1>13, <1>14, <1>15, <1>16, <1>17, <1>18, <1>19, <1>20, <1>21, <1>22, <1>23,
     <1>24, <1>25, <1>26
  DEF Next, WrapperStep, ClientStep, CheckStep
-----------------------------------------------------------------------------
(* The theorems.                                                           *)

\* The initial states satisfy the inductive invariant.
LEMMA InvInit == Init => Inv
<1>. SUFFICES ASSUME Init PROVE Inv
  OBVIOUS
<1>1. TypeOK
  BY ConstantsAssumption DEF Init, TypeOK, WrapperPCs, ClientPCs, Reasons, Outcomes,
     Requests, NoRequest, Tokens
<1>2. \A c \in Clients : ~Watched(c)
  BY ConstantsAssumption DEF Init, NoRequest, Watched, Token
<1>. QED
  BY <1>1, <1>2 DEF Init, Inv, WrapperInv, LockInv, CheckInv, GateInv, GrantInv,
     DenialsAreFinal

\* Every variable keeps its type: the processes only ever move between the
\* program points, reasons and outcomes of runExec, Create, Close and RunAPI.
THEOREM TypeCorrect == Spec => []TypeOK
<1>. QED
  BY InvInit, TypeOKStep, PTL DEF Spec, Inv

\* Inv is inductive: positions, locks, files, checks, the gate and the
\* grounds of every grant hold together through every step of every process.
THEOREM Invariance == Spec => []Inv
<1>1. Inv /\ [Next]_vars => Inv'
  BY TypeOKStep, WrapperInvStep, LockInvStep, CheckInvStep, GateInvStep, GrantInvStep,
     DenialStep DEF Inv
<1>. QED
  BY InvInit, <1>1, PTL DEF Spec

\* A delete sent with nobody to ask was granted by class, to a check begun
\* while the session file existed, and either the wrapper lived then or two
\* probes of the dead session met (RunAPI, AuthorizeDelete, probeLiveness).
THEOREM UnattendedDeletes == Spec => []UnattendedDeletesAreBacked
<1>1. Inv => UnattendedDeletesAreBacked
  BY DEF Inv, GateInv, GrantInv, UnattendedDeletesAreBacked
<1>. QED
  BY Invariance, <1>1, PTL

\* AuthorizeDelete answers stale or not-live only once the wrapper has let go.
THEOREM Denials == Spec => []DenialsAreFinal
<1>1. Inv => DenialsAreFinal
  BY DEF Inv
<1>. QED
  BY Invariance, <1>1, PTL

\* Create's error paths and Close remove the file and drop the lock.
THEOREM Residue == Spec => []NothingLeftBehind
<1>1. Inv => NothingLeftBehind
  BY DEF Inv, WrapperInv, NothingLeftBehind
<1>. QED
  BY Invariance, <1>1, PTL

\* While the child runs its session is complete, locked, and free of probes.
THEOREM Usable == Spec => []IssuedSessionIsUsable
<1>1. Inv => IssuedSessionIsUsable
  BY DEF Inv, WrapperInv, LockInv, IssuedSessionIsUsable
<1>. QED
  BY Invariance, <1>1, PTL

\* With a single client nobody's probe can be mistaken for a live wrapper:
\* an unattended delete then needs a wrapper that lived when its check began.
THEOREM LoneClient ==
    ASSUME NEW only, Clients = {only}
    PROVE  Spec => [](outcome[only] = "sent" /\ ~req[only].canPrompt => began[only].live)
<1>1. UnattendedDeletesAreBacked =>
        (outcome[only] = "sent" /\ ~req[only].canPrompt => began[only].live)
  BY DEF UnattendedDeletesAreBacked
<1>. QED
  BY UnattendedDeletes, <1>1, PTL
-----------------------------------------------------------------------------
(* The session implements DeleteGrant.                                     *)

\* Two functions that differ at most at c.
LEMMA OneChange ==
    ASSUME NEW S, NEW f, NEW g, f = [x \in S |-> f[x]], g = [x \in S |-> g[x]],
           NEW c \in S, \A x \in S \ {c} : g[x] = f[x]
    PROVE  g = [f EXCEPT ![c] = g[c]]
OBVIOUS

\* A wrapper does not touch what DeleteGrant sees of the clients.
LEMMA ClientFrame ==
    ASSUME UNCHANGED clientVars
    PROVE  UNCHANGED <<grantPhase, grantAsked, grantAttended>>
BY DEF clientVars, grantPhase, grantAsked, grantAttended, Token

\* A grant's status moves only with its token's issue and its file's removal.
LEMMA StatusFrame ==
    ASSUME \A w \in Wrappers :
              /\ issued'[w] = issued[w]
              /\ issued[w] => (file'[w] = "absent" <=> file[w] = "absent")
    PROVE  UNCHANGED grantStatus
BY DEF grantStatus

\* A client step touches nothing but its own phase.
OwnStep(c) ==
    /\ UNCHANGED <<wrapperVars, req, began>>
    /\ \A x \in Clients \ {c} :
        cpc'[x] = cpc[x] /\ reason'[x] = reason[x] /\ outcome'[x] = outcome[x]

LEMMA OwnStepFrame ==
    ASSUME NEW c \in Clients, OwnStep(c)
    PROVE  /\ UNCHANGED <<grantStatus, grantAsked, grantAttended>>
           /\ grantPhase' = [grantPhase EXCEPT ![c] = grantPhase'[c]]
           /\ grantPhase = [grantPhase EXCEPT ![c] = grantPhase[c]]
<1>1. UNCHANGED grantStatus
  BY StatusFrame DEF OwnStep, wrapperVars
<1>2. UNCHANGED <<grantAsked, grantAttended>>
  BY DEF OwnStep, grantAsked, grantAttended, Token
<1>3. grantPhase = [x \in Clients |-> grantPhase[x]]
  BY DEF grantPhase
<1>4. grantPhase' = [x \in Clients |-> grantPhase'[x]]
  BY DEF grantPhase
<1>5. \A x \in Clients \ {c} : grantPhase'[x] = grantPhase[x]
  BY DEF OwnStep, grantPhase
<1>. QED
  BY <1>1, <1>2, <1>3, <1>4, <1>5, OneChange

\* A wrapper step issues a grant, reverts it, or is invisible.
LEMMA WrapperSim ==
    ASSUME Inv, NEW w \in Wrappers, WrapperStep(w) \/ ChildExits(w) \/ CrashWrapper(w)
    PROVE  Grant!Issue(w) \/ Grant!Revert(w) \/ UNCHANGED Grant!vars
<1>1. UNCHANGED clientVars
  BY DEF WrapperStep, RefuseExec, CreateFile, TakeShared, TakeSharedFails,
     WriteSession, WriteSessionFails, Spawn, SpawnFails, ReleaseShared,
     RemoveFile, RemoveFileFails, ChildExits, CrashWrapper
<1>2. UNCHANGED <<grantPhase, grantAsked, grantAttended>>
  BY <1>1, ClientFrame
<1>. USE DEF Inv, TypeOK
<1>3. CASE Spawn(w)
  <2>1. ~issued[w] /\ file[w] = "full" /\ file' = file /\ issued' = [issued EXCEPT ![w] = TRUE]
    BY <1>3 DEF Spawn, Wrapper, WrapperInv
  <2>2. grantStatus[w] = "unissued" /\ grantStatus' = [grantStatus EXCEPT ![w] = "open"]
    BY <2>1 DEF grantStatus
  <2>. QED
    BY <1>2, <2>2 DEF Grant!Issue
<1>4. CASE RemoveFile(w)
  <2>1. issued' = issued /\ file' = [file EXCEPT ![w] = "absent"]
    BY <1>4 DEF RemoveFile
  <2>2. CASE issued[w]
    <3>1. file[w] # "absent"
      BY <1>4, <2>2 DEF RemoveFile, Wrapper, WrapperInv
    <3>2. grantStatus[w] = "open" /\ grantStatus' = [grantStatus EXCEPT ![w] = "reverted"]
      BY <2>1, <2>2, <3>1 DEF grantStatus
    <3>. QED
      BY <1>2, <3>2 DEF Grant!Revert
  <2>3. CASE ~issued[w]
    BY <1>2, <2>1, <2>3, StatusFrame DEF Grant!vars
  <2>. QED
    BY <2>2, <2>3
<1>5. CASE ~Spawn(w) /\ ~RemoveFile(w)
  <2>1. issued' = issued /\ (issued[w] => file'[w] = file[w])
          /\ \A x \in Wrappers \ {w} : file'[x] = file[x]
    BY <1>5 DEF WrapperStep, Wrapper, WrapperInv, RefuseExec, CreateFile,
       TakeShared, TakeSharedFails, WriteSession, WriteSessionFails, SpawnFails,
       ReleaseShared, RemoveFileFails, ChildExits, CrashWrapper
  <2>. QED
    BY <1>2, <2>1, StatusFrame DEF Grant!vars
<1>. QED
  BY <1>3, <1>4, <1>5

\* What each client step is to DeleteGrant.
LEMMA ClientSim ==
    ASSUME Inv, NEW c \in Clients,
           ClientStep(c) \/ Confirm(c) \/ CheckError(c) \/ KillClient(c)
    PROVE  \/ Grant!Allow(c) \/ Grant!Refuse(c) \/ Grant!Agree(c)
           \/ Grant!Delete(c) \/ Grant!GiveUp(c) \/ UNCHANGED Grant!vars
<1>. USE DEF Inv, TypeOK, CheckInv
<1>1. OwnStep(c)
  BY DEF OwnStep, ClientStep, CheckStep, Goto, Answer, Finish, CheckFails,
     StatSession, DecodeSession, OpenSession, ProbeBlocked, ProbeAcquires, ProbeReleases, CheckError, Gate, SendDelete, Confirm, KillClient
<1>. DEFINE from == grantPhase[c]
            to   == grantPhase'[c]
<1>2. /\ UNCHANGED <<grantStatus, grantAsked, grantAttended>>
      /\ grantPhase' = [grantPhase EXCEPT ![c] = to]
      /\ grantPhase = [grantPhase EXCEPT ![c] = from]
  BY <1>1, OwnStepFrame
<1>3. from = to => UNCHANGED Grant!vars
  BY <1>2 DEF Grant!vars
<1>4. from = "checking" /\ to = "refused" => Grant!Refuse(c)
  BY <1>2 DEF Grant!Refuse, Grant!Move
<1>5. from \in {"checking", "refused", "approved"} /\ to = "over" => Grant!GiveUp(c)
  BY <1>2 DEF Grant!GiveUp, Grant!Move
<1>6. from = "approved" /\ to = "deleted" => Grant!Delete(c)
  BY <1>2 DEF Grant!Delete, Grant!Move
<1>7. from = "checking" /\ to = "approved" /\ grantAsked[c] # NoToken => Grant!Allow(c)
  BY <1>2 DEF Grant!Allow, Grant!Move
<1>8. from = "refused" /\ to = "approved" /\ grantAttended[c] => Grant!Agree(c)
  BY <1>2 DEF Grant!Agree, Grant!Move
<1>9. CASE StatSession(c)
  <2>1. from = "checking" /\ to \in {"checking", "refused"}
    BY <1>9 DEF StatSession, Goto, Answer, Watched, grantPhase
  <2>. QED
    BY <2>1, <1>3, <1>4
<1>10. CASE DecodeSession(c)
  <2>1. from = "checking" /\ to \in {"checking", "over"}
    BY <1>10 DEF DecodeSession, Goto, CheckFails, Finish, grantPhase
  <2>. QED
    BY <2>1, <1>3, <1>5
<1>11. CASE OpenSession(c)
  <2>1. from = "checking" /\ to \in {"checking", "refused"}
    BY <1>11 DEF OpenSession, Goto, Answer, grantPhase
  <2>. QED
    BY <2>1, <1>3, <1>4
<1>12. CASE ProbeBlocked(c)
  <2>1. from = "checking" /\ grantAsked[c] # NoToken
          /\ to \in {"approved", "refused"}
    BY ConstantsAssumption, <1>12 DEF ProbeBlocked, Goto, Answer, Locked,
       AllowsDelete, grantPhase, grantAsked, Watched
  <2>. QED
    BY <2>1, <1>4, <1>7
<1>13. CASE ProbeAcquires(c)
  <2>1. from = "checking" /\ to = "checking"
    BY <1>13 DEF ProbeAcquires, Goto, Locked, grantPhase
  <2>. QED
    BY <2>1, <1>3
<1>14. CASE ProbeReleases(c)
  <2>1. from = "checking" /\ to = "refused"
    BY <1>14 DEF ProbeReleases, Goto, Answer, grantPhase
  <2>. QED
    BY <2>1, <1>4
<1>15. CASE CheckError(c)
  <2>1. from = "checking" /\ to = "over"
    BY <1>15 DEF CheckError, Goto, CheckFails, Finish, Watched, grantPhase
  <2>. QED
    BY <2>1, <1>5
<1>16. CASE Gate(c)
  <2>1. from \in {"approved", "refused"} /\ to \in {from, "over"}
    BY <1>16 DEF Gate, Goto, Finish, grantPhase, GateInv
  <2>. QED
    BY <2>1, <1>3, <1>5
<1>17. CASE Confirm(c)
  <2>1. from \in {"approved", "refused"} /\ to \in {"approved", "over"}
          /\ grantAttended[c]
    BY <1>17 DEF Confirm, Goto, Finish, grantPhase, GateInv, grantAttended
  <2>. QED
    BY <2>1, <1>3, <1>5, <1>8
<1>18. CASE SendDelete(c)
  <2>1. from = "approved" /\ to = "deleted"
    BY <1>18 DEF SendDelete, Goto, Finish, grantPhase, GateInv
  <2>. QED
    BY <2>1, <1>6
<1>19. CASE KillClient(c)
  <2>1. from \in {"checking", "refused", "approved"} /\ to = "over"
    BY <1>19 DEF KillClient, Goto, Finish, grantPhase
  <2>. QED
    BY <2>1, <1>5
<1>. QED
  BY <1>9, <1>10, <1>11, <1>12, <1>13, <1>14, <1>15, <1>16, <1>17, <1>18, <1>19
     DEF ClientStep, CheckStep

\* BeginDelete is DeleteGrant's Ask.
LEMMA BeginSim ==
    ASSUME Inv, NEW c \in Clients, BeginDelete(c)
    PROVE  Grant!Ask(c)
<1>. USE DEF Inv, TypeOK, CheckInv
<1>1. PICK r \in Requests :
        /\ r.token \in Wrappers => issued[r.token]
        /\ req' = [req EXCEPT ![c] = r]
        /\ began' = [began EXCEPT ![c] =
                [present |-> r.token \in Wrappers /\ file[r.token] # "absent",
                 live    |-> r.token \in Wrappers /\ shared[r.token]]]
  BY DEF BeginDelete
<1>2. cpc[c] = "idle" /\ cpc' = [cpc EXCEPT ![c] = "stat"] /\ UNCHANGED <<wrapperVars, reason, outcome>>
  BY DEF BeginDelete, Goto
<1>. DEFINE s == IF began'[c].present THEN r.token ELSE NoToken
<1>3. s \in Wrappers \cup {NoToken} /\ (s # NoToken => grantStatus[s] = "open")
  BY <1>1, ConstantsAssumption DEF grantStatus
<1>4. UNCHANGED grantStatus
  BY <1>2, StatusFrame DEF wrapperVars
<1>5. grantPhase[c] = "idle" /\ grantPhase' = [grantPhase EXCEPT ![c] = "checking"]
  <2>1. grantPhase[c] = "idle" /\ grantPhase'[c] = "checking"
    BY <1>2 DEF grantPhase
  <2>2. \A x \in Clients \ {c} : grantPhase'[x] = grantPhase[x]
    BY <1>2 DEF grantPhase
  <2>3. grantPhase = [x \in Clients |-> grantPhase[x]]
    BY DEF grantPhase
  <2>4. grantPhase' = [x \in Clients |-> grantPhase'[x]]
    BY DEF grantPhase
  <2>. QED
    BY <2>1, <2>2, <2>3, <2>4, OneChange
<1>6. grantAsked' = [grantAsked EXCEPT ![c] = s]
  <2>1. grantAsked'[c] = s
    BY <1>1 DEF grantAsked, Token
  <2>2. \A x \in Clients \ {c} : grantAsked'[x] = grantAsked[x]
    BY <1>1 DEF grantAsked, Token
  <2>3. grantAsked = [x \in Clients |-> grantAsked[x]]
    BY DEF grantAsked
  <2>4. grantAsked' = [x \in Clients |-> grantAsked'[x]]
    BY DEF grantAsked
  <2>. QED
    BY <2>1, <2>2, <2>3, <2>4, OneChange
<1>7. grantAttended' = [grantAttended EXCEPT ![c] = r.canPrompt] /\ r.canPrompt \in BOOLEAN
  BY <1>1 DEF grantAttended, Requests
<1>. QED
  BY <1>3, <1>4, <1>5, <1>6, <1>7 DEF Grant!Ask, Grant!Move

\* Every behavior of the wrappers and clients is one DeleteGrant allows: what
\* the files and locks do amounts to granting a delete only to checks begun
\* while their grant was open, and asking a human for the rest.
THEOREM Refinement == Spec => ImplementsDeleteGrant
<1>1. Init => Grant!Init
  BY ConstantsAssumption DEF Init, Grant!Init, grantStatus, grantPhase,
     grantAsked, grantAttended, NoRequest
<1>2. Inv /\ [Next]_vars => [Grant!Next]_(Grant!vars)
  <2>. SUFFICES ASSUME Inv, [Next]_vars PROVE Grant!Next \/ UNCHANGED Grant!vars
    OBVIOUS
  <2>1. CASE UNCHANGED vars
    <3>1. UNCHANGED clientVars /\ UNCHANGED wrapperVars
      BY <2>1 DEF vars
    <3>2. UNCHANGED grantStatus
      BY <3>1, StatusFrame DEF wrapperVars
    <3>. QED
      BY <3>1, <3>2, ClientFrame DEF Grant!vars
  <2>2. ASSUME NEW w \in Wrappers, WrapperStep(w) \/ ChildExits(w) \/ CrashWrapper(w)
        PROVE  Grant!Next \/ UNCHANGED Grant!vars
    BY <2>2, WrapperSim DEF Grant!Next
  <2>3. ASSUME NEW c \in Clients,
               ClientStep(c) \/ Confirm(c) \/ CheckError(c) \/ KillClient(c)
        PROVE  Grant!Next \/ UNCHANGED Grant!vars
    BY <2>3, ClientSim DEF Grant!Next
  <2>4. ASSUME NEW c \in Clients, BeginDelete(c) PROVE Grant!Next
    BY <2>4, BeginSim DEF Grant!Next
  <2>. QED
    BY <2>1, <2>2, <2>3, <2>4 DEF Next
<1>. QED
  BY <1>1, <1>2, Invariance, PTL DEF Spec, Grant!Spec, ImplementsDeleteGrant

-----------------------------------------------------------------------------
(***************************************************************************)
(* TerminalPrompt: the confirmation that the gate asks for and ReadSecret, *)
(* for every capacity of ReadSecret's channel.                             *)
(***************************************************************************)
\* The confirmation: a yes is the last thing its goroutine reads, and its caller
\* gets past the select without an error only after the goroutine is done.
ConfirmInv ==
    /\ main = "start" => asker = "none"
    /\ asker \in {"none", "reading"} => ~confirmed
    /\ confirmed => answered = "yes"
    /\ main \in {"store", "load"} => err # "none" \/ (main = "load" /\ asker = "done")
    /\ main \in {"secret", "await"} => answered = "yes" /\ asker = "done"

\* Only the reader turns the echo off, in between it is the watcher's business
\* alone: what both of them keep to put back is the echo turned on.
EchoInv ==
    /\ oldState /\ termios
    /\ ~echo => reader \in {"reading", "reset"}
    /\ reader = "none" <=> watcher = "none"
    /\ main \in {"start", "select", "store", "load", "secret"} =>
          reader = "none" /\ returned = "none" /\ errorChannel = <<>>
    /\ reader = "none" => restoredAt = "none" /\ returned \in {"none", "error"}
    /\ reader \in {"reset", "send"} => buf \in {"error"} \cup Lines
    /\ restoredAt \in {"reading", "reset", "send", "done"} =>
          echo /\ reader \in {"reading", "reset", "send", "done"}
    /\ watcher = "send" => restoredAt # "none"

\* Where what is in the channel, or has been taken out of it, comes from.
Origin(r) ==
    IF r = "canceled" THEN restoredAt # "none" ELSE reader = "done"

ChannelInv ==
    /\ \A i \in 1..Len(errorChannel) : Origin(errorChannel[i])
    /\ returned # "none" /\ reader # "none" => Origin(returned)
    /\ main \in {"tail", "exited"} /\ reader # "none" => returned # "none"

PromptInv == PromptTypeOK /\ ConfirmInv /\ EchoInv /\ ChannelInv

-----------------------------------------------------------------------------
LEMMA InitPromptInv == PromptInit => PromptInv
<1>1. <<>> \in Seq(Results) /\ Len(<<>>) = 0
  OBVIOUS
<1>2. 0 <= Capacity
  BY CapacityAssumption
<1> SUFFICES ASSUME PromptInit PROVE PromptInv
  OBVIOUS
<1>3. PromptTypeOK
  BY <1>1, <1>2 DEF PromptInit, PromptTypeOK, MainPCs, AskerPCs, WatchPCs, ReadPCs
<1>4. ConfirmInv /\ EchoInv /\ ChannelInv
  BY <1>1 DEF PromptInit, ConfirmInv, EchoInv, ChannelInv
<1> QED
  BY <1>3, <1>4 DEF PromptInv

\* A result that is sent leaves those already in the channel in their places.
LEMMA Sending ==
    ASSUME PromptInv, NEW r \in Results, Send(r)
    PROVE  /\ errorChannel' \in Seq(Results) /\ Len(errorChannel') <= Capacity
           /\ \A i \in 1..Len(errorChannel') :
                 errorChannel'[i] = r \/
                 \E j \in 1..Len(errorChannel) : errorChannel'[i] = errorChannel[j]
  BY CapacityAssumption DEF PromptInv, PromptTypeOK, Send

\* One that is received was in it.
LEMMA Receiving ==
    ASSUME PromptInv, errorChannel # <<>>
    PROVE  /\ Tail(errorChannel) \in Seq(Results)
           /\ Len(Tail(errorChannel)) <= Capacity
           /\ Head(errorChannel) = errorChannel[1] /\ 1 \in 1..Len(errorChannel)
           /\ Head(errorChannel) \in Results
           /\ \A i \in 1..Len(Tail(errorChannel)) :
                 \E j \in 1..Len(errorChannel) : Tail(errorChannel)[i] = errorChannel[j]
  BY CapacityAssumption DEF PromptInv, PromptTypeOK

-----------------------------------------------------------------------------
\* A step of the confirmation, or of the world, leaves ReadSecret alone.
LEMMA ConfirmStep ==
    ASSUME PromptInv,
           \/ Type \/ Signal \/ CannotPrompt \/ Ask \/ AskerReads \/ AskerCloses
           \/ ConfirmAnswered \/ ConfirmCanceled \/ StoreFalse \/ ConfirmReturns
    PROVE  PromptInv'
<1> USE DEF PromptInv, PromptTypeOK, ConfirmInv, EchoInv, ChannelInv, Origin, Main, Asker,
            world, confirmVars, secretVars, watcherVars, readerVars, chanVars,
            MainPCs, AskerPCs, Lines
<1>1. CASE Type
  BY <1>1 DEF Type
<1>2. CASE Signal
  BY <1>2 DEF Signal
<1>3. CASE CannotPrompt
  BY <1>3 DEF CannotPrompt
<1>4. CASE Ask
  <2> USE <1>4 DEF Ask
  <2>1. PromptTypeOK'
    OBVIOUS
  <2>2. ConfirmInv'
    OBVIOUS
  <2>3. EchoInv'
    OBVIOUS
  <2>4. ChannelInv'
    OBVIOUS
  <2> QED
    BY <2>1, <2>2, <2>3, <2>4 DEF PromptInv
<1>5. CASE AskerReads
  <2> USE <1>5 DEF AskerReads, Consume
  <2>1. PromptTypeOK'
    OBVIOUS
  <2>2. ConfirmInv'
    OBVIOUS
  <2>3. EchoInv'
    OBVIOUS
  <2>4. ChannelInv'
    OBVIOUS
  <2> QED
    BY <2>1, <2>2, <2>3, <2>4 DEF PromptInv
<1>6. CASE AskerCloses
  BY <1>6 DEF AskerCloses
<1>7. CASE ConfirmAnswered
  BY <1>7 DEF ConfirmAnswered
<1>8. CASE ConfirmCanceled
  BY <1>8 DEF ConfirmCanceled
<1>9. CASE StoreFalse
  <2> USE <1>9 DEF StoreFalse
  <2>1. PromptTypeOK'
    <3>1. confirmed' \in BOOLEAN
      OBVIOUS
    <3> QED
      BY <3>1
  <2>2. ConfirmInv'
    OBVIOUS
  <2>3. EchoInv'
    OBVIOUS
  <2>4. ChannelInv'
    OBVIOUS
  <2> QED
    BY <2>1, <2>2, <2>3, <2>4 DEF PromptInv
<1>10. CASE ConfirmReturns
  BY <1>10 DEF ConfirmReturns
<1> QED
  BY <1>1, <1>2, <1>3, <1>4, <1>5, <1>6, <1>7, <1>8, <1>9, <1>10

\* A step of ReadSecret, or the end of the process.
LEMMA SecretStep ==
    ASSUME PromptInv,
           \/ StateUnknown \/ StartSecret \/ WatcherStep \/ ReaderStep
           \/ SecretReturns \/ Exit
    PROVE  PromptInv'
<1> USE DEF PromptInv, PromptTypeOK, ConfirmInv, EchoInv, ChannelInv, Origin,
            Main, Watcher, Reader, MainPCs, WatchPCs, ReadPCs, Lines, Results,
            world, confirmVars, secretVars, watcherVars, readerVars, chanVars
<1>1. CASE StateUnknown
  BY <1>1 DEF StateUnknown
<1>2. CASE StartSecret
  BY <1>2 DEF StartSecret
<1>3. CASE WatcherLeaves
  BY <1>3 DEF WatcherLeaves
<1>4. CASE WatcherWakes
  BY <1>4 DEF WatcherWakes
<1>5. CASE WatcherRestores
  BY <1>5 DEF WatcherRestores
<1>6. CASE WatcherSends
  <2>1. Send("canceled") /\ restoredAt # "none"
    BY <1>6 DEF WatcherSends
  <2>2. /\ errorChannel' \in Seq(Results) /\ Len(errorChannel') <= Capacity
        /\ \A i \in 1..Len(errorChannel') :
              errorChannel'[i] = "canceled" \/
              \E j \in 1..Len(errorChannel) : errorChannel'[i] = errorChannel[j]
    BY <2>1, Sending
  <2> QED
    BY <1>6, <2>1, <2>2 DEF WatcherSends, Send
<1>7. CASE ReaderGets
  BY <1>7 DEF ReaderGets
<1>8. CASE ReaderSets
  <2> USE <1>8 DEF ReaderSets
  <2>1. PromptTypeOK'
    <3>1. echo' \in BOOLEAN
      OBVIOUS
    <3> QED
      BY <3>1
  <2>2. ConfirmInv'
    OBVIOUS
  <2>3. EchoInv'
    OBVIOUS
  <2>4. ChannelInv'
    OBVIOUS
  <2> QED
    BY <2>1, <2>2, <2>3, <2>4 DEF PromptInv
<1>9. CASE ReaderFails
  BY <1>9 DEF ReaderFails
<1>10. CASE ReaderReads
  BY <1>10 DEF ReaderReads, Consume
<1>11. CASE ReaderResets
  BY <1>11 DEF ReaderResets
<1>12. CASE ReaderSends
  <2>1. Send(buf) /\ buf \in Results /\ buf # "canceled"
    BY <1>12 DEF ReaderSends
  <2>2. /\ errorChannel' \in Seq(Results) /\ Len(errorChannel') <= Capacity
        /\ \A i \in 1..Len(errorChannel') :
              errorChannel'[i] = buf \/
              \E j \in 1..Len(errorChannel) : errorChannel'[i] = errorChannel[j]
    BY <2>1, Sending
  <2> QED
    BY <1>12, <2>1, <2>2 DEF ReaderSends, Send
<1>13. CASE SecretReturns
  BY <1>13, Receiving DEF SecretReturns
<1>14. CASE Exit
  BY <1>14 DEF Exit
<1> QED
  BY <1>1, <1>2, <1>3, <1>4, <1>5, <1>6, <1>7, <1>8, <1>9, <1>10, <1>11, <1>12,
     <1>13, <1>14 DEF WatcherStep, ReaderStep

LEMMA PromptInvariance == PromptSpec => []PromptInv
<1>1. PromptInv /\ [PromptNext]_promptVars => PromptInv'
  <2> SUFFICES ASSUME PromptInv, [PromptNext]_promptVars PROVE PromptInv'
    OBVIOUS
  <2>1. CASE PromptNext
    BY <2>1, ConfirmStep, SecretStep DEF PromptNext, MainStep, AskerStep
  <2>2. CASE UNCHANGED promptVars
    BY <2>2
    DEF PromptInv, PromptTypeOK, ConfirmInv, EchoInv, ChannelInv, Origin,
        promptVars, world, confirmVars, secretVars, watcherVars, readerVars, chanVars
  <2> QED
    BY <2>1, <2>2
<1> QED
  BY <1>1, InitPromptInv, PTL DEF PromptSpec

-----------------------------------------------------------------------------
\* The channel never holds more than its capacity, and everything else its type.
THEOREM PromptTypeCorrect == PromptSpec => []PromptTypeOK
<1>1. PromptInv => PromptTypeOK
  BY DEF PromptInv
<1> QED
  BY <1>1, PromptInvariance, PTL

\* The token prompt is reached only past a yes whose goroutine has ended, even if
\* a signal has left that goroutine behind with the caller's results in its hands.
THEOREM OnlyYesProceeds == PromptSpec => []ProceedsOnlyOnYes
<1>1. PromptInv => ProceedsOnlyOnYes
  BY DEF PromptInv, ConfirmInv, ProceedsOnlyOnYes
<1> QED
  BY <1>1, PromptInvariance, PTL

\* A typed secret is handed out with the echo back on, and the echo can stay off
\* only if the signal's watcher has restored it before the reader turned it off.
THEOREM EchoReturns == PromptSpec => []EchoComesBack
<1>1. PromptInv => EchoComesBack
  BY DEF PromptInv, PromptTypeOK, EchoInv, ChannelInv, Origin, EchoComesBack, ReadPCs, Lines, Results
<1> QED
  BY <1>1, PromptInvariance, PTL
=============================================================================

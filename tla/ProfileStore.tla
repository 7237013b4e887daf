---------------------------- MODULE ProfileStore ----------------------------
(***************************************************************************)
(* The configuration directory: active_profile.hcl, which names a profile, *)
(* and one file per profile.  Every tfctl process first loads the active   *)
(* profile (creating both files on a first run) and may then run one of    *)
(* the commands that change them.  Nothing is locked, and os.WriteFile     *)
(* truncates a file before it fills it: processes interleave between any   *)
(* two file operations and may be killed there.                            *)
(*                                                                         *)
(*   src/internal/pkg/profile/{loader,profile}.go, src/cmd/tfctl/main.go   *)
(*   src/internal/commands/profile/..., src/internal/commands/auth/login.go*)
(***************************************************************************)
CONSTANTS
    Procs,        \* tfctl processes, each running one command after another
    Names,        \* profile names
    Default,      \* ProfileNameDefault
    Hosts,        \* hostnames
    DefaultHost,  \* DefaultHostname
    None,         \* an attribute that is not set
    Typed,        \* a token that no login has had checked
    Commands      \* the commands that are given

AllCommands == {"set-hostname", "set", "unset-hostname", "unset-token", "login",
                "create", "activate", "delete", "rename"}

ASSUME ConstantsAssumption ==
    /\ Default \in Names /\ DefaultHost \in Hosts
    /\ None \notin Hosts /\ None \notin Names
    /\ Typed \notin Hosts \cup {None}
    /\ Commands \subseteq AllCommands

VARIABLES
    active,   \* active_profile.hcl: "absent", a damaged state, or a name
    profile,  \* profiles/<name>.hcl: its state and, if it is whole, its body
    pc,       \* where each process is
    op,       \* the command it runs
    mem,      \* the profile it has in memory: its name and body
    arg,      \* the name it was given, or the one active_profile.hcl is to get
    harmed,   \* history: a kill has hit a process where it does harm
    overlap   \* history: two commands have been at work at once

files  == <<active, profile>>
locals == <<pc, op, mem, arg>>
vars   == <<active, profile, pc, op, mem, arg, harmed, overlap>>

\* A body keeps the hostname and the token; a token is told apart by the host
\* that has accepted it for a login, if any has.
Bodies    == [host : Hosts \cup {None}, token : Hosts \cup {None, Typed}]
Damaged   == {"empty", "mixed"}
Files     == [state : Damaged \cup {"absent", "whole"}, body : Bodies]
Body(h, t) == [host |-> h, token |-> t]
Blank     == Body(None, None)
GetHostname(b) == IF b.host = None THEN DefaultHost ELSE b.host

Without(state) == [state |-> state, body |-> Blank]
File(b)        == [state |-> "whole", body |-> b]
Whole(n)       == profile[n].state = "whole"
Listed         == {n \in Names : profile[n].state # "absent"}

PCs == {"idle", "active", "load", "run", "truncate", "fill", "point", "pointed",
        "list", "reread", "prompt", "remove"}
Ops == {"none", "first", "update", "create", "activate", "delete", "rename",
        "rename-active"}

-----------------------------------------------------------------------------
Init ==
    /\ active  = "absent"
    /\ profile = [n \in Names |-> Without("absent")]
    /\ pc   = [p \in Procs |-> "idle"]
    /\ op   = [p \in Procs |-> "none"]
    /\ mem  = [p \in Procs |-> [name |-> Default, body |-> Blank]]
    /\ arg  = [p \in Procs |-> Default]
    /\ harmed = FALSE /\ overlap = FALSE

Goto(p, to)    == pc' = [pc EXCEPT ![p] = to]
Holds(p, n, b) == mem' = [mem EXCEPT ![p] = [name |-> n, body |-> b]]
Takes(p, n)    == arg' = [arg EXCEPT ![p] = n]
Runs(p, c)     == op' = [op EXCEPT ![p] = c]

\* The process exits; what it had in memory is gone.
Finish(p) ==
    /\ Goto(p, "idle") /\ Runs(p, "none")
    /\ Holds(p, Default, Blank) /\ Takes(p, Default)

-----------------------------------------------------------------------------
(* Every command: loadActiveProfile.                                       *)

Start(p) ==
    /\ pc[p] = "idle"
    /\ Goto(p, "active")
    /\ UNCHANGED <<files, op, mem, arg, harmed>>

\* GetActiveProfile.  An empty file does not decode: only a file that says
\* name = "" would count as unset, and no code writes one.
ReadActive(p) ==
    /\ pc[p] = "active"
    /\ \/ /\ active \in Names
          /\ Goto(p, "load") /\ Takes(p, active) /\ UNCHANGED <<op, mem>>
       \/ /\ active \in Damaged \/ (active = "absent" /\ op[p] = "first")
          /\ Finish(p)
       \/ /\ active = "absent" /\ op[p] = "none"
          /\ Goto(p, "point") /\ Runs(p, "first") /\ UNCHANGED <<mem, arg>>
    /\ UNCHANGED <<files, harmed>>

\* LoadProfile of the active profile; a missing or damaged one is an error.
LoadProfile(p) ==
    /\ pc[p] = "load"
    /\ IF Whole(arg[p])
       THEN /\ Goto(p, "run") /\ Holds(p, arg[p], profile[arg[p]].body)
            /\ Runs(p, "none") /\ Takes(p, Default)
       ELSE Finish(p)
    /\ UNCHANGED <<files, harmed>>

\* --profile: applyGlobalFlags loads another one instead.
LoadFlagged(p) ==
    /\ pc[p] = "run"
    /\ \E n \in Names :
        IF Whole(n)
        THEN Holds(p, n, profile[n].body) /\ UNCHANGED <<pc, op, arg>>
        ELSE Finish(p)
    /\ UNCHANGED <<files, harmed>>

\* Any command that changes nothing, or a dry run.
Leave(p) ==
    /\ pc[p] = "run"
    /\ Finish(p)
    /\ UNCHANGED <<files, harmed>>

-----------------------------------------------------------------------------
(* os.WriteFile: O_TRUNC, then the bytes.  If another process has filled   *)
(* the file in between, the longer of the two leaves its tail behind.      *)

Filled(old, new, blank, mixed) == IF old \in {new, blank} THEN {new} ELSE {new, mixed}

Truncate(p) ==
    /\ pc[p] = "truncate"
    /\ profile' = [profile EXCEPT ![mem[p].name] = Without("empty")]
    /\ Goto(p, "fill")
    /\ UNCHANGED <<active, op, mem, arg, harmed>>

\* Profile.Write done, and on with the command.
Fill(p) ==
    /\ pc[p] = "fill"
    /\ \E f \in Filled(profile[mem[p].name], File(mem[p].body),
                      Without("empty"), Without("mixed")) :
        profile' = [profile EXCEPT ![mem[p].name] = f]
    /\ \/ op[p] \in {"update", "create"} /\ Finish(p)
       \/ op[p] = "first"  /\ Goto(p, "active") /\ UNCHANGED <<op, mem, arg>>
       \/ op[p] = "create" /\ Goto(p, "reread") /\ UNCHANGED <<op, mem, arg>>
       \/ op[p] \in {"rename", "rename-active"}
          /\ Goto(p, "remove") /\ UNCHANGED <<op, mem, arg>>
    /\ UNCHANGED <<active, harmed>>

\* ActiveProfile.Write.
Point(p) ==
    /\ pc[p] = "point"
    /\ active' = "empty"
    /\ Goto(p, "pointed")
    /\ UNCHANGED <<profile, op, mem, arg, harmed>>

Pointed(p) ==
    /\ pc[p] = "pointed"
    /\ active' \in Filled(active, arg[p], "empty", "mixed")
    /\ IF op[p] = "first"
       THEN \E h \in Hosts : /\ Goto(p, "truncate")
                             /\ Holds(p, Default, Body(h, None))
                             /\ UNCHANGED <<op, arg>>
       ELSE Finish(p)
    /\ UNCHANGED <<profile, harmed>>
-----------------------------------------------------------------------------
(* set, unset, login: change the profile in memory and write it back.      *)

Update(p, command, body) ==
    /\ pc[p] = "run" /\ command \in Commands
    /\ Goto(p, "truncate") /\ Runs(p, "update")
    /\ Holds(p, mem[p].name, body)
    /\ UNCHANGED <<files, arg, harmed>>

\* Mutant of SetHostname: the token of the old host is kept.
SetHostnameOnly(p) ==
    \E h \in Hosts : Update(p, "set-hostname", Body(h, mem[p].body.token))

\* "Clear default_organization and token to force re-initialization".
SetHostname(p) ==
    \E h \in Hosts : Update(p, "set-hostname", Body(h, None))

\* Another property: the token, which is stored or cleared without a look at it, or
\* one that this model does not tell apart.
SetProperty(p) ==
    \E t \in {mem[p].body.token, Typed, None} : Update(p, "set", Body(mem[p].body.host, t))

\* The token is the only thing that goes.
UnsetHostname(p) == Update(p, "unset-hostname", Body(None, mem[p].body.token))

UnsetToken(p) == Update(p, "unset-token", Body(mem[p].body.host, None))

\* saveToken, after the profile's host has accepted the token.
Login(p) ==
    Update(p, "login", Body(mem[p].body.host, GetHostname(mem[p].body)))

-----------------------------------------------------------------------------
(* profiles create, activate, delete, rename.                              *)

Refuse(p) == Finish(p) /\ UNCHANGED <<files, harmed>>

\* createRun: ListProfiles, then write the new profile, with or without a host.
Create(p) ==
    /\ pc[p] = "run" /\ "create" \in Commands
    /\ \E n \in Names, h \in Hosts \cup {None} :
        IF n \in Listed
        THEN Refuse(p)
        ELSE /\ Goto(p, "truncate") /\ Runs(p, "create")
             /\ Holds(p, n, Body(h, None))
             /\ UNCHANGED <<files, arg, harmed>>

\* activateRun and deleteRun: GetActiveProfile, which must not be the one.  The
\* profile that was loaded plays no further part.
OnInactive(p, command) ==
    /\ pc[p] = "run" /\ command \in Commands
    /\ \E n \in Names :
        IF active \in Names \ {n}
        THEN /\ Goto(p, "list") /\ Runs(p, command)
             /\ Takes(p, n) /\ Holds(p, Default, Blank)
             /\ UNCHANGED <<files, harmed>>
        ELSE Refuse(p)

Activate(p) == OnInactive(p, "activate")

\* Mutant of Delete: any profile may be named.
DeleteAny(p) ==
    /\ pc[p] = "run" /\ "delete" \in Commands
    /\ \E n \in Names : Takes(p, n)
    /\ Goto(p, "list") /\ Runs(p, "delete") /\ Holds(p, Default, Blank)
    /\ UNCHANGED <<files, harmed>>

Delete(p) == OnInactive(p, "delete")

\* renameRun: LoadProfile of the old name.
Rename(p) ==
    /\ pc[p] = "run" /\ "rename" \in Commands
    /\ \E old, new \in Names :
        IF old # new /\ Whole(old)
        THEN /\ Goto(p, "list") /\ Runs(p, "rename")
             /\ Takes(p, old) /\ Holds(p, new, profile[old].body)
             /\ UNCHANGED <<files, harmed>>
        ELSE Refuse(p)

\* ListProfiles: the name must be there, or for a rename must not.
List(p) ==
    /\ pc[p] = "list"
    /\ LET found == (IF op[p] = "rename" THEN mem[p].name ELSE arg[p]) \in Listed
       IN  IF found = (op[p] = "rename")
           THEN Refuse(p)
           ELSE /\ Goto(p, IF op[p] = "activate" THEN "point"
                           ELSE IF op[p] = "delete" THEN "prompt" ELSE "reread")
                /\ UNCHANGED <<files, op, mem, arg, harmed>>

\* GetActiveProfile again: create is about to activate what it has written,
\* rename notes whether it renames the active profile.
Reread(p) ==
    /\ pc[p] = "reread"
    /\ \/ /\ active \notin Names
          /\ Refuse(p)
       \/ /\ active \in Names /\ op[p] = "create"
          /\ Goto(p, "point") /\ Takes(p, mem[p].name)
          /\ UNCHANGED <<files, op, mem, harmed>>
       \/ /\ active \in Names /\ op[p] = "rename"
          /\ Goto(p, "truncate")
          /\ Runs(p, IF active = arg[p] THEN "rename-active" ELSE "rename")
          /\ UNCHANGED <<files, mem, arg, harmed>>

\* The confirmation, if there is a terminal; it takes as long as it takes.
Prompt(p) ==
    /\ pc[p] = "prompt"
    /\ \/ Goto(p, "remove") /\ UNCHANGED <<files, op, mem, arg, harmed>>
       \/ Refuse(p)

\* Mutant of Remove: the active pointer is left at the old name.
RemoveOnly(p) ==
    /\ pc[p] = "remove"
    /\ profile' = [profile EXCEPT ![arg[p]] = Without("absent")]
    /\ Finish(p)
    /\ UNCHANGED <<active, harmed>>

\* DeleteProfile; a rename of the active profile then activates the new name.
Remove(p) ==
    /\ pc[p] = "remove"
    /\ \/ /\ arg[p] \notin Listed
          /\ Refuse(p)
       \/ /\ arg[p] \in Listed
          /\ profile' = [profile EXCEPT ![arg[p]] = Without("absent")]
          /\ IF op[p] = "rename-active"
             THEN Goto(p, "point") /\ Takes(p, mem[p].name) /\ UNCHANGED <<op, mem>>
             ELSE Finish(p)
          /\ UNCHANGED <<active, harmed>>

-----------------------------------------------------------------------------
\* A kill, or a write that fails.
Kill(p) ==
    /\ pc[p] # "idle"
    /\ Finish(p)
    /\ harmed' = \/ harmed
                 \/ pc[p] \in {"pointed", "fill"}
                 \/ pc[p] = "truncate" /\ op[p] = "first"
                 \/ pc[p] = "point" /\ op[p] = "rename-active"
    /\ UNCHANGED files

Step(p) ==
    \/ Start(p)  \/ ReadActive(p)  \/ LoadProfile(p)  \/ LoadFlagged(p)  \/ Leave(p)
    \/ Truncate(p)  \/ Fill(p)  \/ Point(p)  \/ Pointed(p)
    \/ SetHostname(p)  \/ SetProperty(p)  \/ UnsetHostname(p)  \/ UnsetToken(p)  \/ Login(p)
    \/ Create(p)  \/ Activate(p)  \/ Delete(p)  \/ Rename(p)
    \/ List(p)  \/ Reread(p)  \/ Prompt(p)  \/ Remove(p)

Working(p) == pc[p] \notin {"idle", "active", "load", "run"}

\* Two first runs do not count, unless they write different profiles.
Overlap ==
    \E p, q \in Procs :
        /\ p # q /\ Working(p) /\ Working(q)
        /\ op[p] = "first" /\ op[q] = "first" => pc[p] = "fill" /\ mem[p] # mem[q]

Next ==
    /\ \E p \in Procs : Step(p) \/ Kill(p)
    /\ overlap' = (overlap \/ Overlap')

Spec == Init /\ [][Next]_vars

-----------------------------------------------------------------------------
TypeOK ==
    /\ active  \in Names \cup Damaged \cup {"absent"}
    /\ profile \in [Names -> Files]
    /\ pc  \in [Procs -> PCs]
    /\ op  \in [Procs -> Ops]
    /\ mem \in [Procs -> [name : Names, body : Bodies]]
    /\ arg \in [Procs -> Names]
    /\ harmed \in BOOLEAN /\ overlap \in BOOLEAN

\* A token in a profile is sent to the profile's host.  One that a login has stored
\* is always one that this host has accepted, whatever other processes write
\* meanwhile.  Nothing is claimed of a token typed in with profile set, which the
\* code takes as it is.
TokenMatchesHost ==
    \A n \in Names : Whole(n) /\ profile[n].body.host # None =>
        profile[n].body.token \in {None, Typed, profile[n].body.host}

\* set.go:163, of a hostname that changes: "clear default_organization/token
\* ... to force re-initialization".  A profile without a hostname is for the
\* default one; so the token a login has stored stays with the host that accepted it.
TokenMatchesDefault ==
    \A n \in Names : Whole(n) =>
        profile[n].body.token \in {None, Typed, GetHostname(profile[n].body)}

\* Once every process has exited the next one can start, unless two commands
\* were at work at once, or a kill has hit one of four places: the pointer
\* truncated, a profile truncated (activate takes an empty file for a profile),
\* the pointer written before the first profile is, or an active profile removed
\* before the pointer moves.
NextRunStarts ==
    (\A p \in Procs : pc[p] = "idle") /\ ~harmed /\ ~overlap =>
        active = "absent" \/ (active \in Names /\ Whole(active))

\* A rename removes the old profile only when the new one is a whole copy, and
\* profiles delete says of its arguments: "May not be the active profile."  Both
\* hold unless two commands are at work at once: another one may activate the
\* profile while the prompt waits.
RemovalIsSafe ==
    [][\A p \in Procs :
        /\ pc[p] = "remove" /\ pc'[p] # "remove" /\ ~overlap
        /\ profile'[arg[p]] # profile[arg[p]]
        => /\ op[p] \in {"rename", "rename-active"} =>
                profile[mem[p].name] = profile[arg[p]]
           /\ op[p] = "delete" => active # arg[p]]_vars
=============================================================================

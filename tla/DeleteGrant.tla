----------------------------- MODULE DeleteGrant -----------------------------
(***************************************************************************)
(* What `tfctl harness exec` promises, without files or locks: a grant is  *)
(* open from the moment its token is handed out until it reverts, and a    *)
(* delete nobody is asked about needs a check that began while the grant   *)
(* was open.  (harness_exec.go: the permission "auto-reverts to the safe   *)
(* default ... as soon as the child exits".)                               *)
(***************************************************************************)
CONSTANTS Sessions, Askers, NoSession

VARIABLES
    status,   \* of each grant: "unissued", "open" or "reverted"
    phase,    \* of each delete
    asked,    \* the grant the delete's check began under, if it was open
    attended  \* whether a human sits at the terminal of the delete

vars == <<status, phase, asked, attended>>

Init ==
    /\ status \in [Sessions -> {"unissued"}]
    /\ phase  \in [Askers -> {"idle"}]
    /\ asked  \in [Askers -> {NoSession}]
    /\ attended \in [Askers -> {FALSE}]

Issue(s) ==
    /\ status[s] = "unissued"
    /\ status' = [status EXCEPT ![s] = "open"]
    /\ UNCHANGED <<phase, asked, attended>>

Revert(s) ==
    /\ status[s] = "open"
    /\ status' = [status EXCEPT ![s] = "reverted"]
    /\ UNCHANGED <<phase, asked, attended>>

Move(a, from, to) == phase[a] = from /\ phase' = [phase EXCEPT ![a] = to]

\* The check notes which open grant it runs under, if any.
Ask(a) ==
    /\ Move(a, "idle", "checking")
    /\ \E s \in Sessions \cup {NoSession} :
        /\ s # NoSession => status[s] = "open"
        /\ asked' = [asked EXCEPT ![a] = s]
    /\ \E b \in BOOLEAN : attended' = [attended EXCEPT ![a] = b]
    /\ UNCHANGED status

Allow(a) ==
    /\ asked[a] # NoSession
    /\ Move(a, "checking", "approved")
    /\ UNCHANGED <<status, asked, attended>>

Refuse(a) ==
    /\ Move(a, "checking", "refused")
    /\ UNCHANGED <<status, asked, attended>>

\* Without a grant a human has to agree, and has to be there to be asked.
Agree(a) ==
    /\ attended[a]
    /\ Move(a, "refused", "approved")
    /\ UNCHANGED <<status, asked, attended>>

Delete(a) ==
    /\ Move(a, "approved", "deleted")
    /\ UNCHANGED <<status, asked, attended>>

GiveUp(a) ==
    /\ \E from \in {"checking", "refused", "approved"} : Move(a, from, "over")
    /\ UNCHANGED <<status, asked, attended>>

Next ==
    \/ \E s \in Sessions : Issue(s) \/ Revert(s)
    \/ \E a \in Askers : Ask(a) \/ Allow(a) \/ Refuse(a) \/ Agree(a)
                        \/ Delete(a) \/ GiveUp(a)

Spec == Init /\ [][Next]_vars
=============================================================================

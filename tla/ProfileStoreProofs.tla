------------------------- MODULE ProfileStoreProofs -------------------------
(***************************************************************************)
(* Proofs about ProfileStore, for any processes, names and hosts.          *)
(***************************************************************************)
EXTENDS ProfileStore, TLAPS

\* A body whose token, if a login stored it, was accepted by the host it will be sent
\* to; only a hostname that is unset on its own leaves another one.
Matched(b) ==
    b.host # None \/ "unset-hostname" \notin Commands => b.token \in {None, Typed, GetHostname(b)}

\* What a process writes it has loaded and changed before, so the files keep
\* matched bodies only if the processes do.
MatchInv ==
    /\ \A n \in Names : Matched(profile[n].body)
    /\ \A p \in Procs : Matched(mem[p].body)

Inv == TypeOK /\ MatchInv

-----------------------------------------------------------------------------
LEMMA BlankFits ==
    /\ Blank \in Bodies /\ Matched(Blank)
    /\ \A h \in Hosts \cup {None} : Body(h, None) \in Bodies /\ Matched(Body(h, None))
    /\ \A s \in Damaged \cup {"absent", "whole"} : Without(s) \in Files
    /\ \A b \in Bodies : File(b) \in Files
BY ConstantsAssumption DEF Blank, Body, Bodies, Matched, GetHostname, Without, File, Files

\* The process that exits forgets what it held.
LEMMA FinishFits ==
    ASSUME Inv, NEW p \in Procs, Finish(p)
    PROVE  /\ pc' \in [Procs -> PCs] /\ op' \in [Procs -> Ops]
           /\ mem' \in [Procs -> [name : Names, body : Bodies]]
           /\ arg' \in [Procs -> Names]
           /\ \A q \in Procs : Matched(mem'[q].body)
BY BlankFits, ConstantsAssumption
   DEF Inv, TypeOK, MatchInv, Finish, Goto, Runs, Holds, Takes, PCs, Ops, AllCommands

\* A process that takes a matched body into memory.
LEMMA HoldsFits ==
    ASSUME Inv, NEW p \in Procs, NEW n \in Names, NEW b \in Bodies, Matched(b), Holds(p, n, b)
    PROVE  /\ mem' \in [Procs -> [name : Names, body : Bodies]]
           /\ \A q \in Procs : Matched(mem'[q].body)
BY DEF Inv, TypeOK, MatchInv, Holds

LEMMA LoadedFits ==
    ASSUME Inv, NEW n \in Names
    PROVE  profile[n].body \in Bodies /\ Matched(profile[n].body)
BY DEF Inv, TypeOK, MatchInv, Files

\* What a write may leave is a name or a damaged file, and a matched body.
LEMMA FilledFits ==
    ASSUME Inv, NEW p \in Procs
    PROVE  /\ \A f \in Filled(profile[mem[p].name], File(mem[p].body),
                              Without("empty"), Without("mixed")) :
                  f \in Files /\ Matched(f.body)
           /\ \A a \in Filled(active, arg[p], "empty", "mixed") :
                  a \in Names \cup Damaged \cup {"absent"}
BY BlankFits DEF Inv, TypeOK, MatchInv, Filled, File, Without, Damaged

LEMMA OnInactiveFits ==
    ASSUME Inv, overlap' \in BOOLEAN, NEW p \in Procs, NEW command \in {"activate", "delete"},
           OnInactive(p, command)
    PROVE  Inv'
<1> USE DEF Inv, TypeOK, MatchInv, files
<1>1. PICK n \in Names :
        IF active \in Names \ {n}
        THEN /\ Goto(p, "list") /\ Runs(p, command)
             /\ Takes(p, n) /\ Holds(p, Default, Blank)
             /\ UNCHANGED <<files, harmed>>
        ELSE Refuse(p)
  BY DEF OnInactive
<1>2. CASE active \in Names \ {n}
  <2>1. /\ mem' \in [Procs -> [name : Names, body : Bodies]]
        /\ \A q \in Procs : Matched(mem'[q].body)
    BY <1>1, <1>2, HoldsFits, BlankFits, ConstantsAssumption
  <2> QED
    BY <1>1, <1>2, <2>1 DEF Goto, Runs, Takes, PCs, Ops
<1>3. CASE active \notin Names \ {n}
  BY <1>1, <1>3, FinishFits DEF Refuse
<1> QED
  BY <1>2, <1>3

\* Every command keeps the bodies matched.
LEMMA InvStep == Inv /\ [Next]_vars => Inv'
<1> SUFFICES ASSUME Inv, [Next]_vars PROVE Inv'
  OBVIOUS
<1> USE BlankFits, ConstantsAssumption
<1>1. CASE UNCHANGED vars
  BY <1>1 DEF Inv, TypeOK, MatchInv, vars
<1>2. ASSUME NEW p \in Procs, Step(p) \/ Kill(p), overlap' \in BOOLEAN PROVE Inv'
  <2>0. overlap' \in BOOLEAN
    BY <1>2
  <2> USE <2>0
  <2> USE FinishFits DEF Inv, TypeOK, MatchInv, files, PCs, Ops, AllCommands, Goto, Holds, Takes, Runs
  <2>1. CASE Start(p)
    BY <2>1 DEF Start
  <2>2. CASE ReadActive(p)
    <3>1. CASE Finish(p) /\ UNCHANGED <<files, harmed>>
      BY <3>1
    <3>2. CASE active \in Names /\ Goto(p, "load") /\ Takes(p, active)
               /\ UNCHANGED <<op, mem, files, harmed>>
      BY <3>2
    <3>3. CASE Goto(p, "point") /\ Runs(p, "first") /\ UNCHANGED <<mem, arg, files, harmed>>
      BY <3>3
    <3> QED
      BY <2>2, <3>1, <3>2, <3>3 DEF ReadActive
  <2>3. CASE LoadProfile(p)
    <3>1. CASE Whole(arg[p])
      <4>1. arg[p] \in Names
        OBVIOUS
      <4>2. profile[arg[p]].body \in Bodies /\ Matched(profile[arg[p]].body)
        BY <4>1, LoadedFits
      <4>3. Holds(p, arg[p], profile[arg[p]].body)
        BY <2>3, <3>1 DEF LoadProfile
      <4>4. /\ mem' \in [Procs -> [name : Names, body : Bodies]]
            /\ \A q \in Procs : Matched(mem'[q].body)
        BY <4>1, <4>2, <4>3
      <4>5. /\ pc' = [pc EXCEPT ![p] = "run"] /\ op' = [op EXCEPT ![p] = "none"]
            /\ arg' = [arg EXCEPT ![p] = Default] /\ UNCHANGED <<files, harmed>>
        BY <2>3, <3>1 DEF LoadProfile
      <4>6. pc' \in [Procs -> PCs] /\ op' \in [Procs -> Ops] /\ arg' \in [Procs -> Names]
        BY <4>5
      <4> QED
        BY <4>4, <4>5, <4>6
    <3>2. CASE ~Whole(arg[p])
      BY <2>3, <3>2 DEF LoadProfile
    <3> QED
      BY <3>1, <3>2
  <2>4. CASE LoadFlagged(p)
    <3>1. PICK n \in Names : IF Whole(n)
                             THEN Holds(p, n, profile[n].body) /\ UNCHANGED <<pc, op, arg>>
                             ELSE Finish(p)
      BY <2>4 DEF LoadFlagged
    <3>2. CASE Whole(n)
      BY <2>4, <3>1, <3>2, HoldsFits, LoadedFits DEF LoadFlagged
    <3>3. CASE ~Whole(n)
      BY <2>4, <3>1, <3>3 DEF LoadFlagged
    <3> QED
      BY <3>2, <3>3
  <2>5. CASE Leave(p)
    BY <2>5 DEF Leave
  <2>6. CASE Truncate(p)
    BY <2>6 DEF Truncate, Without, Damaged
  <2>7. CASE Fill(p)
    <3>1. /\ profile' \in [Names -> Files]
          /\ \A n \in Names : Matched(profile'[n].body)
      BY <2>7, FilledFits DEF Fill
    <3>2. CASE Finish(p)
      BY <2>7, <3>1, <3>2 DEF Fill
    <3>3. CASE \E to \in PCs : Goto(p, to) /\ UNCHANGED <<op, mem, arg>>
      BY <2>7, <3>1, <3>3 DEF Fill
    <3> QED
      BY <2>7, <3>2, <3>3 DEF Fill
  <2>8. CASE Point(p)
    BY <2>8 DEF Point, Damaged
  <2>9. CASE Pointed(p)
    <3>1. active' \in Names \cup Damaged \cup {"absent"}
      BY <2>9, FilledFits DEF Pointed
    <3>2. CASE op[p] = "first"
      <4>1. PICK h \in Hosts : Holds(p, Default, Body(h, None))
        BY <2>9, <3>2 DEF Pointed
      <4> QED
        BY <2>9, <3>1, <3>2, <4>1, HoldsFits DEF Pointed
    <3>3. CASE op[p] # "first"
      BY <2>9, <3>1, <3>3 DEF Pointed
    <3> QED
      BY <3>2, <3>3
  <2>10. CASE SetHostname(p)
    BY <2>10 DEF SetHostname, Update, Body, Bodies, Matched
  <2>11. CASE SetProperty(p)
    <3>1. PICK t \in {mem[p].body.token, Typed, None} : Update(p, "set", Body(mem[p].body.host, t))
      BY <2>11 DEF SetProperty
    <3>2. Body(mem[p].body.host, t) \in Bodies /\ Matched(Body(mem[p].body.host, t))
      BY DEF Matched, Body, Bodies, GetHostname
    <3> QED
      BY <3>1, <3>2, HoldsFits DEF Update
  <2>12. CASE UnsetHostname(p)
    <3>1. Body(None, mem[p].body.token) \in Bodies /\ Matched(Body(None, mem[p].body.token))
      BY <2>12 DEF UnsetHostname, Update, Matched, Body, Bodies
    <3> QED
      BY <2>12, <3>1, HoldsFits DEF UnsetHostname, Update
  <2>13. CASE UnsetToken(p)
    BY <2>13 DEF UnsetToken, Update, Body, Bodies, Matched
  <2>14. CASE Login(p)
    BY <2>14 DEF Login, Update, Body, Bodies, Matched, GetHostname
  <2>15. CASE Create(p)
    <3>1. PICK n \in Names, h \in Hosts \cup {None} :
             IF n \in Listed
             THEN Refuse(p)
             ELSE /\ Goto(p, "truncate") /\ Runs(p, "create")
                  /\ Holds(p, n, Body(h, None))
                  /\ UNCHANGED <<files, arg, harmed>>
      BY <2>15 DEF Create
    <3>2. CASE n \in Listed
      BY <3>1, <3>2 DEF Refuse
    <3>3. CASE n \notin Listed
      BY <3>1, <3>3, HoldsFits
    <3> QED
      BY <3>2, <3>3
  <2>16. CASE Activate(p)
    BY <2>16, OnInactiveFits DEF Activate
  <2>17. CASE Delete(p)
    BY <2>17, OnInactiveFits DEF Delete
  <2>18. CASE Rename(p)
    <3>1. PICK old \in Names, new \in Names :
             IF old # new /\ Whole(old)
             THEN /\ Goto(p, "list") /\ Runs(p, "rename")
                  /\ Takes(p, old) /\ Holds(p, new, profile[old].body)
                  /\ UNCHANGED <<files, harmed>>
             ELSE Refuse(p)
      BY <2>18 DEF Rename
    <3>2. CASE old # new /\ Whole(old)
      <4>1. profile[old].body \in Bodies /\ Matched(profile[old].body)
        BY LoadedFits
      <4>2. Holds(p, new, profile[old].body)
        BY <3>1, <3>2
      <4>3. /\ mem' \in [Procs -> [name : Names, body : Bodies]]
            /\ \A q \in Procs : Matched(mem'[q].body)
        BY <4>1, <4>2
      <4>4. Goto(p, "list") /\ Runs(p, "rename") /\ Takes(p, old) /\ UNCHANGED <<files, harmed>>
        BY <3>1, <3>2
      <4> QED
        BY <4>3, <4>4
    <3>3. CASE ~(old # new /\ Whole(old))
      BY <3>1, <3>3 DEF Refuse
    <3> QED
      BY <3>2, <3>3
  <2>19. CASE List(p)
    <3>1. CASE Refuse(p)
      BY <3>1 DEF Refuse
    <3>2. CASE \E to \in PCs : Goto(p, to) /\ UNCHANGED <<files, op, mem, arg, harmed>>
      BY <3>2
    <3> QED
      BY <2>19, <3>1, <3>2 DEF List
  <2>20. CASE Reread(p)
    BY <2>20 DEF Reread, Refuse
  <2>21. CASE Prompt(p)
    BY <2>21 DEF Prompt, Refuse
  <2>22. CASE Remove(p)
    <3>1. CASE arg[p] \notin Listed
      BY <2>22, <3>1 DEF Remove, Refuse
    <3>2. CASE arg[p] \in Listed
      <4>0. profile' = [profile EXCEPT ![arg[p]] = Without("absent")]
        BY <2>22, <3>2 DEF Remove
      <4>1. /\ profile' \in [Names -> Files]
            /\ \A n \in Names : Matched(profile'[n].body)
        BY <4>0 DEF Without
      <4>2. CASE op[p] = "rename-active"
        <5>1. mem[p].name \in Names
          OBVIOUS
        <5>2. UNCHANGED <<active, op, mem, harmed>> /\ Goto(p, "point") /\ Takes(p, mem[p].name)
          BY <2>22, <3>2, <4>2 DEF Remove
        <5> QED
          BY <4>1, <5>1, <5>2
      <4>3. CASE op[p] # "rename-active"
        BY <2>22, <3>2, <4>1, <4>3 DEF Remove
      <4> QED
        BY <4>2, <4>3
    <3> QED
      BY <3>1, <3>2
  <2>23. CASE Kill(p)
    BY <2>23 DEF Kill
  <2> QED
    BY <1>2, <2>1, <2>2, <2>3, <2>4, <2>5, <2>6, <2>7, <2>8, <2>9, <2>10, <2>11, <2>12,
       <2>13, <2>14, <2>15, <2>16, <2>17, <2>18, <2>19, <2>20, <2>21, <2>22, <2>23
       DEF Step
<1>3. CASE Next
  <2>1. overlap' \in BOOLEAN
    BY <1>3 DEF Next
  <2> QED
    BY <1>2, <1>3, <2>1 DEF Next
<1> QED
  BY <1>1, <1>3

LEMMA InitInv == Init => Inv
<1> SUFFICES ASSUME Init PROVE Inv
  OBVIOUS
<1> USE BlankFits, ConstantsAssumption DEF Init
<1>1. TypeOK
  BY DEF TypeOK, PCs, Ops, Damaged
<1>2. MatchInv
  BY DEF MatchInv, Without
<1> QED
  BY <1>1, <1>2 DEF Inv

LEMMA Invariance == Spec => []Inv
BY InitInv, InvStep, PTL DEF Spec

\* However many processes load, change and write back profiles at once, and
\* wherever they are killed, no profile pairs a hostname with a token that a login
\* has stored for another host.  A token typed in with profile set is granted.
THEOREM TokensStayHome == Spec => []TokenMatchesHost
<1>1. Inv => TokenMatchesHost
  BY DEF Inv, TypeOK, Files, Bodies, MatchInv, TokenMatchesHost, Matched, GetHostname
<1> QED
  BY <1>1, Invariance, PTL

\* The same for the host a profile has by default, as long as the command that
\* unsets a hostname alone is not given.
THEOREM TokensStayHomeByDefault ==
    ASSUME "unset-hostname" \notin Commands
    PROVE  Spec => []TokenMatchesDefault
<1>1. Inv => TokenMatchesDefault
  BY DEF Inv, MatchInv, TokenMatchesDefault, Matched
<1> QED
  BY <1>1, Invariance, PTL
-----------------------------------------------------------------------------
(* What a kill and a removal leave behind.                                  *)

\* Which command is where, whoever else is at work; a first run is about the default.
Place(p) ==
    /\ pc[p] \in {"truncate", "fill"} =>
          op[p] \in {"first", "update", "create", "rename", "rename-active"}
    /\ pc[p] \in {"point", "pointed"} =>
          op[p] \in {"first", "create", "activate", "rename-active"}
    /\ pc[p] = "list"   => op[p] \in {"activate", "delete", "rename"}
    /\ pc[p] = "reread" => op[p] \in {"create", "rename"}
    /\ pc[p] = "prompt" => op[p] = "delete"
    /\ pc[p] = "remove" => op[p] \in {"delete", "rename", "rename-active"}
    /\ pc[p] \in {"idle", "active"} \/ (Working(p) /\ op[p] = "first") =>
          arg[p] = Default /\ mem[p].name = Default

\* Until two commands overlap, only first runs are at work together, and what they
\* fill is the same.
Together(p, q) ==
    p # q /\ Working(p) /\ Working(q) =>
        /\ op[p] = "first" /\ op[q] = "first"
        /\ pc[p] = "fill" => mem[p] = mem[q]

Renames(p) == op[p] \in {"rename", "rename-active"}

\* What a process at work has found or done stays as it is.
Keeps(p) ==
    /\ pc[p] = "fill" =>
          profile[mem[p].name] \in {Without("empty"), File(mem[p].body)}
    /\ pc[p] = "pointed" => active \in {"empty", arg[p]}
    /\ pc[p] \in {"list", "prompt", "remove"} /\ op[p] = "delete" => active # arg[p]
    /\ pc[p] \in {"list", "reread", "truncate", "fill", "remove"} /\ Renames(p) =>
          arg[p] # mem[p].name /\ profile[arg[p]] = File(mem[p].body)
    /\ pc[p] \in {"truncate", "fill", "remove"} /\ op[p] = "rename" => active # arg[p]
    /\ pc[p] = "remove" /\ Renames(p) => profile[mem[p].name] = File(mem[p].body)
    /\ pc[p] = "reread" /\ op[p] = "create" => Whole(mem[p].name)
    /\ pc[p] \in {"point", "pointed"} /\ op[p] \in {"create", "rename-active"} =>
          Whole(arg[p])

\* A process that is going to repair what it has left for a moment: the places where
\* a kill does harm.
Owes(p) ==
    \/ pc[p] \in {"pointed", "fill"}
    \/ pc[p] = "truncate" /\ op[p] = "first"
    \/ pc[p] = "point" /\ op[p] = "rename-active"

\* A profile is whole or has someone who fills it.
Profiles ==
    \A n \in Names :
        \/ profile[n].state \in {"absent", "whole"}
        \/ profile[n].state = "empty" /\ \E q \in Procs : pc[q] = "fill" /\ mem[q].name = n

\* The active profile is whole, or someone makes it so.
Pointer ==
    \/ active = "absent"
    \/ active = "empty" /\ \E q \in Procs : pc[q] = "pointed"
    \/ /\ active \in Names
       /\ \/ Whole(active)
          \/ \E q \in Procs :
                \/ pc[q] = "fill" /\ mem[q].name = active
                \/ pc[q] = "truncate" /\ op[q] = "first" /\ active = Default
                \/ pc[q] = "point" /\ op[q] = "rename-active"

\* What activate is about to point to is whole.
Activated(p) == pc[p] \in {"point", "pointed"} /\ op[p] = "activate" => Whole(arg[p])

PlaceInv == \A p \in Procs : Place(p)
KeepInv  == ~overlap => \A p \in Procs : Keeps(p) /\ \A q \in Procs : Together(p, q)
SoundInv == ~overlap /\ ~harmed => Profiles /\ Pointer /\ \A p \in Procs : Activated(p)

StartInv == Inv /\ PlaceInv /\ KeepInv /\ SoundInv

\* A step of a process leaves what the others hold alone.
Elsewhere(p) ==
    \A q \in Procs \ {p} :
        pc'[q] = pc[q] /\ op'[q] = op[q] /\ mem'[q] = mem[q] /\ arg'[q] = arg[q]

\* Where a step that is none of a write leads: nowhere new, or on with the command.
LEMMA StepElsewhere ==
    ASSUME TypeOK, NEW p \in Procs, Step(p) \/ Kill(p)
    PROVE  Elsewhere(p)
<1> USE DEF TypeOK, Elsewhere, Finish, Goto, Holds, Takes, Runs, Refuse, Update
<1>1. CASE Start(p) \/ ReadActive(p) \/ LoadProfile(p) \/ LoadFlagged(p) \/ Leave(p)
  BY <1>1 DEF Start, ReadActive, LoadProfile, LoadFlagged, Leave
<1>2. CASE Truncate(p) \/ Fill(p) \/ Point(p) \/ Pointed(p)
  BY <1>2 DEF Truncate, Fill, Point, Pointed
<1>3. CASE SetHostname(p) \/ SetProperty(p) \/ UnsetHostname(p) \/ UnsetToken(p) \/ Login(p)
  BY <1>3 DEF SetHostname, SetProperty, UnsetHostname, UnsetToken, Login
<1>4. CASE Create(p) \/ Activate(p) \/ Delete(p) \/ Rename(p)
  BY <1>4 DEF Create, Activate, Delete, OnInactive, Rename
<1>5. CASE List(p) \/ Reread(p) \/ Prompt(p) \/ Remove(p) \/ Kill(p)
  BY <1>5 DEF List, Reread, Prompt, Remove, Kill
<1> QED
  BY <1>1, <1>2, <1>3, <1>4, <1>5 DEF Step

LEMMA PlaceStep ==
    ASSUME TypeOK, PlaceInv, NEW p \in Procs, Step(p) \/ Kill(p)
    PROVE  PlaceInv'
<1>1. Elsewhere(p)
  BY StepElsewhere
<1>2. \A q \in Procs \ {p} : Place(q)'
  BY <1>1 DEF Elsewhere, PlaceInv, Place, Working
<1>3. Place(p)'
  <2> USE DEF TypeOK, PlaceInv, Place, Working, Finish, Goto, Holds, Takes, Runs, Refuse, Update
  <2>1. CASE Start(p)
    BY <2>1 DEF Start
  <2>2. CASE ReadActive(p)
    BY <2>2 DEF ReadActive
  <2>3. CASE LoadProfile(p) \/ LoadFlagged(p)
    BY <2>3 DEF LoadProfile, LoadFlagged
  <2>4. CASE Leave(p) \/ Kill(p)
    <3>1. Finish(p)
      BY <2>4 DEF Leave, Kill
    <3> QED
      BY <3>1
  <2>5. CASE Truncate(p) \/ Point(p)
    BY <2>5 DEF Truncate, Point
  <2>6. CASE Fill(p)
    BY <2>6 DEF Fill
  <2>7. CASE Pointed(p)
    BY <2>7 DEF Pointed
  <2>8. CASE SetHostname(p) \/ SetProperty(p) \/ UnsetHostname(p) \/ UnsetToken(p) \/ Login(p)
    BY <2>8 DEF SetHostname, SetProperty, UnsetHostname, UnsetToken, Login
  <2>9. CASE Create(p) \/ Activate(p) \/ Delete(p) \/ Rename(p)
    BY <2>9 DEF Create, Activate, Delete, OnInactive, Rename
  <2>10. CASE List(p)
    BY <2>10 DEF List
  <2>11. CASE Reread(p)
    BY <2>11 DEF Reread
  <2>12. CASE Prompt(p) \/ Remove(p)
    BY <2>12 DEF Prompt, Remove
  <2> QED
    BY <2>1, <2>2, <2>3, <2>4, <2>5, <2>6, <2>7, <2>8, <2>9, <2>10, <2>11, <2>12 DEF Step
<1> QED
  BY <1>2, <1>3 DEF PlaceInv

\* A command other than a first run is at work alone, as long as none overlap.
LEMMA Sole ==
    ASSUME KeepInv, ~overlap, NEW p \in Procs, Working(p), NEW q \in Procs \ {p}
    PROVE  Working(q) => op[p] = "first" /\ op[q] = "first"
BY DEF KeepInv, Together

LEMMA NoOverlap ==
    ASSUME overlap' = (overlap \/ Overlap'), ~overlap'
    PROVE  ~overlap /\ \A p, q \in Procs : Together(p, q)'
BY DEF Overlap, Together

\* A step that writes no file only has to see to its own process.
LEMMA QuietStep ==
    ASSUME StartInv, NEW p \in Procs, Elsewhere(p), UNCHANGED files,
           overlap' = (overlap \/ Overlap'), harmed' = (harmed \/ Owes(p)),
           ~overlap => Keeps(p)', ~overlap /\ ~harmed => Activated(p)'
    PROVE  KeepInv' /\ SoundInv'
<1>1. KeepInv'
  <2> SUFFICES ASSUME ~overlap' PROVE \A q \in Procs : Keeps(q)' /\ \A r \in Procs : Together(q, r)'
    BY DEF KeepInv
  <2>1. \A q \in Procs \ {p} : Keeps(q) => Keeps(q)'
    BY DEF Elsewhere, Keeps, files, Whole, Renames
  <2> QED
    BY <2>1, NoOverlap DEF StartInv, KeepInv
<1>2. SoundInv'
  <2> SUFFICES ASSUME ~overlap', ~harmed'
               PROVE  Profiles' /\ Pointer' /\ \A q \in Procs : Activated(q)'
    BY DEF SoundInv
  <2>1. ~overlap /\ ~harmed /\ ~Owes(p)
    BY NoOverlap
  <2>2. Profiles /\ Pointer /\ \A q \in Procs : Activated(q)
    BY <2>1 DEF StartInv, SoundInv
  <2>3. Profiles'
    BY <2>1, <2>2 DEF Profiles, Owes, Elsewhere, files
  <2>4. Pointer'
    BY <2>1, <2>2 DEF Pointer, Owes, Elsewhere, files, Whole
  <2>5. \A q \in Procs : Activated(q)'
    BY <2>1, <2>2 DEF Activated, Elsewhere, files, Whole
  <2> QED
    BY <2>3, <2>4, <2>5
<1> QED
  BY <1>1, <1>2

\* A step that writes has to see to the others too.
WriteKeeps == \A q \in Procs : Keeps(q)'
WriteMends == Profiles' /\ Pointer' /\ \A q \in Procs : Activated(q)'

LEMMA WriteStep ==
    ASSUME StartInv, overlap' = (overlap \/ Overlap'), harmed' = harmed,
           ~overlap => WriteKeeps, ~overlap /\ ~harmed => WriteMends
    PROVE  KeepInv' /\ SoundInv'
BY NoOverlap DEF KeepInv, SoundInv, WriteKeeps, WriteMends

\* What StartInv says of a process at work and of the others while none overlap.
LEMMA AtWork ==
    ASSUME StartInv, ~overlap, NEW p \in Procs, Working(p)
    PROVE  /\ mem[p].name \in Names /\ arg[p] \in Names /\ profile \in [Names -> Files]
           /\ Place(p) /\ Keeps(p)
           /\ \A q \in Procs \ {p} : Working(q) =>
                 /\ op[p] = "first" /\ op[q] = "first"
                 /\ arg[p] = Default /\ mem[p].name = Default
                 /\ arg[q] = Default /\ mem[q].name = Default
                 /\ pc[q] = "fill" => mem[q] = mem[p]
<1>1. Place(p) /\ Keeps(p) /\ \A q \in Procs : Place(q) /\ Together(q, p) /\ Together(p, q)
  BY DEF StartInv, PlaceInv, KeepInv
<1>2. mem[p].name \in Names /\ arg[p] \in Names /\ profile \in [Names -> Files]
  BY DEF StartInv, Inv, TypeOK
<1>3. \A q \in Procs \ {p} : Working(q) => op[p] = "first" /\ op[q] = "first"
  BY <1>1 DEF Together
<1>4. \A q \in Procs : Working(q) /\ op[q] = "first" => arg[q] = Default /\ mem[q].name = Default
  BY <1>1 DEF Place
<1>5. \A q \in Procs \ {p} : Working(q) /\ pc[q] = "fill" => mem[q] = mem[p]
  BY <1>1 DEF Together
<1> QED
  BY <1>1, <1>2, <1>3, <1>4, <1>5

LEMMA TruncateStep ==
    ASSUME StartInv, ~overlap, NEW p \in Procs, Truncate(p), Elsewhere(p)
    PROVE  WriteKeeps /\ (~harmed => WriteMends)
<1>1. Working(p)
  BY DEF Truncate, Working
<1>2. /\ pc[p] = "truncate" /\ pc'[p] = "fill"
      /\ profile' = [profile EXCEPT ![mem[p].name] = Without("empty")]
      /\ UNCHANGED <<active, op, mem, arg, harmed>>
  BY DEF Truncate, Goto, StartInv, Inv, TypeOK
<1>3. WriteKeeps
  <2>1. Keeps(p)'
    BY <1>1, <1>2, AtWork DEF Keeps, Renames, Place
  <2>2. ASSUME NEW q \in Procs \ {p} PROVE Keeps(q)'
    <3>1. CASE Working(q)
      BY <1>1, <1>2, <3>1, AtWork DEF Keeps, Elsewhere, StartInv, KeepInv, Renames
    <3>2. CASE ~Working(q)
      BY <3>2 DEF Keeps, Elsewhere, Working
    <3> QED
      BY <3>1, <3>2
  <2> QED
    BY <2>1, <2>2 DEF WriteKeeps
<1>4. ASSUME ~harmed PROVE WriteMends
  <2>0. Profiles /\ Pointer /\ \A q \in Procs : Activated(q)
    BY <1>4 DEF StartInv, SoundInv
  <2>1. Profiles'
    BY <1>1, <1>2, <2>0, AtWork DEF Profiles, Elsewhere, Without
  <2>2. Pointer'
    <3>1. CASE active \notin Names \/ (Whole(active) /\ active # mem[p].name)
      BY <1>1, <1>2, <2>0, <3>1, AtWork DEF Pointer, Elsewhere, Whole
    <3>2. CASE active \in Names /\ active = mem[p].name
      BY <1>2, <3>2 DEF Pointer
    <3>3. CASE active \in Names /\ ~Whole(active) /\ active # mem[p].name
      <4>1. (active = "empty" /\ (\E q \in Procs : pc[q] = "pointed")) \/ active = "absent" \/
            \E q \in Procs :
                \/ pc[q] = "fill" /\ mem[q].name = active
                \/ pc[q] = "truncate" /\ op[q] = "first" /\ active = Default
                \/ pc[q] = "point" /\ op[q] = "rename-active"
        BY <2>0, <3>3 DEF Pointer
      <4>2. ~(op[p] = "first" /\ active = Default)
        BY <1>1, <3>3, AtWork DEF Place
      <4> QED
        BY <1>2, <3>3, <4>1, <4>2 DEF Pointer, Elsewhere
    <3> QED
      BY <3>1, <3>2, <3>3
  <2>3. \A q \in Procs : Activated(q)'
    <3>1. ASSUME NEW q \in Procs \ {p} PROVE Activated(q)'
      BY <1>1, <1>2, AtWork DEF Activated, Elsewhere, Working
    <3> QED
      BY <1>2, <3>1 DEF Activated
  <2> QED
    BY <2>1, <2>2, <2>3 DEF WriteMends
<1> QED
  BY <1>3, <1>4

LEMMA FillStep ==
    ASSUME StartInv, ~overlap, NEW p \in Procs, Fill(p), Elsewhere(p)
    PROVE  WriteKeeps /\ (~harmed => WriteMends)
<1>1. Working(p) /\ pc[p] = "fill"
  BY DEF Fill, Working
<1>2. /\ profile' = [profile EXCEPT ![mem[p].name] = File(mem[p].body)]
      /\ UNCHANGED <<active, harmed>>
  <2>1. Filled(profile[mem[p].name], File(mem[p].body), Without("empty"), Without("mixed"))
           = {File(mem[p].body)}
    BY <1>1, AtWork DEF Keeps, Filled
  <2> QED
    BY <2>1 DEF Fill
<1>3. \/ pc'[p] = "idle"
      \/ /\ \/ op[p] = "first"  /\ pc'[p] = "active"
            \/ op[p] = "create" /\ pc'[p] = "reread"
            \/ Renames(p)       /\ pc'[p] = "remove"
         /\ UNCHANGED <<op, mem, arg>>
  <2>1. \/ Finish(p)
        \/ op[p] = "first"  /\ Goto(p, "active") /\ UNCHANGED <<op, mem, arg>>
        \/ op[p] = "create" /\ Goto(p, "reread") /\ UNCHANGED <<op, mem, arg>>
        \/ Renames(p)       /\ Goto(p, "remove") /\ UNCHANGED <<op, mem, arg>>
    BY DEF Fill, Renames
  <2>2. \A to \in PCs : Goto(p, to) => pc'[p] = to
    BY DEF Goto, StartInv, Inv, TypeOK
  <2> QED
    BY <2>1, <2>2 DEF Finish, PCs
<1>4. WriteKeeps
  <2>1. Keeps(p)'
    <3>1. CASE pc'[p] \in {"idle", "active"}
      BY <3>1 DEF Keeps
    <3>2. CASE op[p] = "create" /\ pc'[p] = "reread" /\ UNCHANGED <<op, mem, arg>>
      BY <1>1, <1>2, <3>2, AtWork DEF Keeps, Whole, File, Renames
    <3>3. CASE Renames(p) /\ pc'[p] = "remove" /\ UNCHANGED <<op, mem, arg>>
      BY <1>1, <1>2, <3>3, AtWork DEF Keeps, Renames
    <3> QED
      BY <1>3, <3>1, <3>2, <3>3
  <2>2. ASSUME NEW q \in Procs \ {p} PROVE Keeps(q)'
    <3>1. CASE Working(q)
      BY <1>1, <1>2, <3>1, AtWork DEF Keeps, Elsewhere, StartInv, KeepInv, Renames, Together
    <3>2. CASE ~Working(q)
      BY <3>2 DEF Keeps, Elsewhere, Working
    <3> QED
      BY <3>1, <3>2
  <2> QED
    BY <2>1, <2>2 DEF WriteKeeps
<1>5. ASSUME ~harmed PROVE WriteMends
  <2>0. Profiles /\ Pointer /\ \A q \in Procs : Activated(q)
    BY <1>5 DEF StartInv, SoundInv
  <2>1. Profiles'
    BY <1>1, <1>2, <2>0, AtWork DEF Profiles, Elsewhere, File
  <2>2. Pointer'
    <3>1. CASE active \in Names /\ active = mem[p].name
      BY <1>1, <1>2, <3>1, AtWork DEF Pointer, Whole, File
    <3>2. CASE ~(active \in Names /\ active = mem[p].name)
      BY <1>1, <1>2, <2>0, <3>2, AtWork DEF Pointer, Elsewhere, Whole, File
    <3> QED
      BY <3>1, <3>2
  <2>3. \A q \in Procs : Activated(q)'
    <3>1. ASSUME NEW q \in Procs \ {p} PROVE Activated(q)'
      BY <1>1, AtWork DEF Activated, Elsewhere, Working
    <3> QED
      BY <1>3, <3>1 DEF Activated
  <2> QED
    BY <2>1, <2>2, <2>3 DEF WriteMends
<1> QED
  BY <1>4, <1>5

LEMMA PointStep ==
    ASSUME StartInv, ~overlap, NEW p \in Procs, Point(p), Elsewhere(p)
    PROVE  WriteKeeps /\ (~harmed => WriteMends)
<1>1. Working(p) /\ pc[p] = "point"
  BY DEF Point, Working
<1>2. pc'[p] = "pointed" /\ active' = "empty" /\ UNCHANGED <<profile, op, mem, arg, harmed>>
  BY DEF Point, Goto, StartInv, Inv, TypeOK
<1>3. WriteKeeps
  <2>1. Keeps(p)'
    BY <1>1, <1>2, AtWork DEF Keeps, Whole
  <2>2. ASSUME NEW q \in Procs \ {p} PROVE Keeps(q)'
    <3>1. CASE Working(q)
      BY <1>1, <1>2, <3>1, AtWork DEF Keeps, Elsewhere, StartInv, KeepInv, Renames, Whole
    <3>2. CASE ~Working(q)
      BY <3>2 DEF Keeps, Elsewhere, Working
    <3> QED
      BY <3>1, <3>2
  <2> QED
    BY <2>1, <2>2 DEF WriteKeeps
<1>4. ASSUME ~harmed PROVE WriteMends
  <2>0. Profiles /\ \A q \in Procs : Activated(q)
    BY <1>4 DEF StartInv, SoundInv
  <2>1. Profiles'
    BY <1>1, <1>2, <2>0 DEF Profiles, Elsewhere
  <2>2. Pointer'
    BY <1>2 DEF Pointer
  <2>3. \A q \in Procs : Activated(q)'
    BY <1>1, <1>2, <2>0 DEF Activated, Elsewhere, Whole
  <2> QED
    BY <2>1, <2>2, <2>3 DEF WriteMends
<1> QED
  BY <1>3, <1>4

LEMMA PointedStep ==
    ASSUME StartInv, ~overlap, NEW p \in Procs, Pointed(p), Elsewhere(p)
    PROVE  WriteKeeps /\ (~harmed => WriteMends)
<1>1. Working(p) /\ pc[p] = "pointed"
  BY DEF Pointed, Working
<1>2. active' = arg[p] /\ UNCHANGED <<profile, harmed>>
  <2>1. Filled(active, arg[p], "empty", "mixed") = {arg[p]}
    BY <1>1, AtWork DEF Keeps, Filled
  <2> QED
    BY <2>1 DEF Pointed
<1>3. \/ op[p] = "first" /\ pc'[p] = "truncate" /\ op' = op
      \/ op[p] # "first" /\ pc'[p] = "idle"
  BY DEF Pointed, Finish, Goto, StartInv, Inv, TypeOK
<1>4. WriteKeeps
  <2>1. Keeps(p)'
    BY <1>3 DEF Keeps, Renames
  <2>2. ASSUME NEW q \in Procs \ {p} PROVE Keeps(q)'
    <3>1. CASE Working(q)
      BY <1>1, <1>2, <3>1, AtWork DEF Keeps, Elsewhere, StartInv, KeepInv, Renames, Whole
    <3>2. CASE ~Working(q)
      BY <3>2 DEF Keeps, Elsewhere, Working
    <3> QED
      BY <3>1, <3>2
  <2> QED
    BY <2>1, <2>2 DEF WriteKeeps
<1>5. ASSUME ~harmed PROVE WriteMends
  <2>0. Profiles /\ \A q \in Procs : Activated(q)
    BY <1>5 DEF StartInv, SoundInv
  <2>1. Profiles'
    BY <1>1, <1>2, <2>0 DEF Profiles, Elsewhere
  <2>2. Pointer'
    <3>1. CASE op[p] = "first"
      BY <1>1, <1>2, <1>3, <3>1, AtWork DEF Pointer, Place
    <3>2. CASE op[p] # "first"
      BY <1>1, <1>2, <2>0, <3>2, AtWork DEF Pointer, Place, Keeps, Activated, Whole
    <3> QED
      BY <3>1, <3>2
  <2>3. \A q \in Procs : Activated(q)'
    BY <1>2, <1>3, <2>0 DEF Activated, Elsewhere, Whole
  <2> QED
    BY <2>1, <2>2, <2>3 DEF WriteMends
<1> QED
  BY <1>4, <1>5

LEMMA RemoveStep ==
    ASSUME StartInv, ~overlap, NEW p \in Procs, Remove(p), arg[p] \in Listed, Elsewhere(p)
    PROVE  WriteKeeps /\ (~harmed => WriteMends)
<1>1. Working(p) /\ pc[p] = "remove"
  BY DEF Remove, Working
<1>2. /\ profile' = [profile EXCEPT ![arg[p]] = Without("absent")]
      /\ UNCHANGED <<active, harmed>>
  BY DEF Remove
<1>3. \/ pc'[p] = "idle"
      \/ /\ op[p] = "rename-active" /\ pc'[p] = "point" /\ arg'[p] = mem[p].name
         /\ UNCHANGED <<op, mem>>
  BY DEF Remove, Finish, Goto, Takes, StartInv, Inv, TypeOK
<1>4. op[p] # "rename-active" => pc'[p] = "idle"
  BY <1>3
<1>5. \A q \in Procs \ {p} : ~Working(q)
  BY <1>1, AtWork DEF Place
<1>6. WriteKeeps
  <2>1. Keeps(p)'
    BY <1>1, <1>2, <1>3, AtWork DEF Keeps, Renames, Whole, File
  <2>2. ASSUME NEW q \in Procs \ {p} PROVE Keeps(q)'
    BY <1>5 DEF Keeps, Elsewhere, Working
  <2> QED
    BY <2>1, <2>2 DEF WriteKeeps
<1>7. ASSUME ~harmed PROVE WriteMends
  <2>0. Profiles /\ Pointer
    BY <1>7 DEF StartInv, SoundInv
  <2>1. Profiles'
    BY <1>1, <1>2, <1>5, <2>0, AtWork DEF Profiles, Elsewhere, Without, Working
  <2>2. active = "absent" \/ (active \in Names /\ Whole(active))
    BY <1>1, <1>5, <2>0 DEF Pointer, Working
  <2>3. Pointer'
    <3>1. CASE active = "absent"
      BY <1>2, <3>1 DEF Pointer
    <3>2. CASE op[p] = "rename-active" /\ active \in Names
      BY <1>2, <1>3, <3>2, <2>2 DEF Pointer, Finish, Remove, Goto, StartInv, Inv, TypeOK
    <3>3. CASE op[p] # "rename-active" /\ active \in Names /\ Whole(active)
      BY <1>1, <1>2, <3>3, AtWork DEF Pointer, Place, Keeps, Whole
    <3> QED
      BY <2>2, <3>1, <3>2, <3>3
  <2>4. \A q \in Procs : Activated(q)'
    <3>1. ASSUME NEW q \in Procs \ {p} PROVE Activated(q)'
      BY <1>5 DEF Activated, Elsewhere, Working
    <3> QED
      BY <1>3, <3>1 DEF Activated
  <2> QED
    BY <2>1, <2>3, <2>4 DEF WriteMends
<1> QED
  BY <1>6, <1>7

\* Leaving, or going on to read, is no promise.
LEMMA FinishKeeps ==
    ASSUME TypeOK, NEW p \in Procs, Finish(p)
    PROVE  Keeps(p)' /\ Activated(p)'
BY DEF Finish, Goto, Keeps, Activated, TypeOK

LEMMA EarlyKeeps ==
    ASSUME NEW p \in Procs, pc'[p] \in {"idle", "active", "load", "run"}
    PROVE  Keeps(p)' /\ Activated(p)'
BY DEF Keeps, Activated

LEMMA UpdateKeeps ==
    ASSUME TypeOK, NEW p \in Procs, NEW command, NEW body, Update(p, command, body)
    PROVE  Keeps(p)' /\ Activated(p)'
BY DEF TypeOK, Update, Goto, Runs, Keeps, Activated, Renames

\* The steps of activate and delete, of rename and of create that write nothing.
LEMMA OnInactiveKeeps ==
    ASSUME TypeOK, NEW p \in Procs, NEW command \in {"activate", "delete"},
           OnInactive(p, command)
    PROVE  UNCHANGED <<files, harmed>> /\ pc[p] = "run" /\ Keeps(p)' /\ Activated(p)'
<1>1. PICK n \in Names :
        IF active \in Names \ {n}
        THEN /\ Goto(p, "list") /\ Runs(p, command)
             /\ Takes(p, n) /\ Holds(p, Default, Blank)
             /\ UNCHANGED <<files, harmed>>
        ELSE Refuse(p)
  BY DEF OnInactive
<1>2. CASE active \in Names \ {n}
  <2>1. /\ pc'[p] = "list" /\ op'[p] = command /\ arg'[p] = n /\ UNCHANGED <<files, harmed>>
    BY <1>1, <1>2 DEF Goto, Runs, Takes, TypeOK
  <2> QED
    BY <1>2, <2>1 DEF OnInactive, Keeps, Activated, Renames, files
<1>3. CASE active \notin Names \ {n}
  BY <1>1, <1>3, FinishKeeps DEF Refuse, OnInactive
<1> QED
  BY <1>2, <1>3

LEMMA RenameKeeps ==
    ASSUME TypeOK, NEW p \in Procs, Rename(p)
    PROVE  UNCHANGED <<files, harmed>> /\ pc[p] = "run" /\ Keeps(p)' /\ Activated(p)'
<1>1. PICK old, new \in Names :
        IF old # new /\ Whole(old)
        THEN /\ Goto(p, "list") /\ Runs(p, "rename")
             /\ Takes(p, old) /\ Holds(p, new, profile[old].body)
             /\ UNCHANGED <<files, harmed>>
        ELSE Refuse(p)
  BY DEF Rename
<1>2. CASE old # new /\ Whole(old)
  <2>1. /\ pc'[p] = "list" /\ op'[p] = "rename" /\ arg'[p] = old
        /\ mem'[p].name = new /\ mem'[p].body = profile[old].body
        /\ UNCHANGED <<files, harmed>>
    BY <1>1, <1>2 DEF Goto, Runs, Takes, Holds, TypeOK
  <2>2. profile[old] = File(profile[old].body)
    BY <1>2 DEF TypeOK, Files, Whole, File
  <2> QED
    BY <1>2, <2>1, <2>2 DEF Rename, Keeps, Activated, files
<1>3. CASE ~(old # new /\ Whole(old))
  BY <1>1, <1>3, FinishKeeps DEF Refuse, Rename
<1> QED
  BY <1>2, <1>3

LEMMA CreateKeeps ==
    ASSUME TypeOK, NEW p \in Procs, Create(p)
    PROVE  UNCHANGED <<files, harmed>> /\ pc[p] = "run" /\ Keeps(p)' /\ Activated(p)'
<1>1. \/ Refuse(p)
      \/ Goto(p, "truncate") /\ Runs(p, "create") /\ UNCHANGED <<files, arg, harmed>>
  BY DEF Create
<1>2. CASE Refuse(p)
  BY <1>2, FinishKeeps DEF Refuse, Create
<1>3. CASE Goto(p, "truncate") /\ Runs(p, "create") /\ UNCHANGED <<files, arg, harmed>>
  BY <1>3 DEF Create, TypeOK, Goto, Runs, Keeps, Activated, Renames
<1> QED
  BY <1>1, <1>2, <1>3

LEMMA ListKeeps ==
    ASSUME StartInv, NEW p \in Procs, List(p)
    PROVE  /\ UNCHANGED <<files, harmed>> /\ pc[p] = "list"
           /\ ~overlap => Keeps(p)'
           /\ ~overlap /\ ~harmed => Activated(p)'
<1> USE DEF StartInv, Inv
<1>1. CASE Refuse(p)
  BY <1>1, FinishKeeps DEF Refuse, List
<1>2. CASE ~Refuse(p)
  <2>1. /\ pc[p] = "list" /\ UNCHANGED <<files, op, mem, arg, harmed>>
        /\ op[p] = "activate" => pc'[p] = "point" /\ arg[p] \in Listed
        /\ op[p] = "delete" => pc'[p] = "prompt"
        /\ op[p] \notin {"activate", "delete"} => pc'[p] = "reread"
    BY <1>2 DEF List, Goto, TypeOK
  <2>2. op[p] \in {"activate", "delete", "rename"}
    BY <2>1 DEF PlaceInv, Place
  <2>3. ~overlap => Keeps(p)'
    BY <2>1, <2>2 DEF KeepInv, Keeps, Renames, files, Whole
  <2>4. ASSUME ~overlap, ~harmed, op[p] = "activate" PROVE Whole(arg[p])
    <3>1. \A q \in Procs \ {p} : ~Working(q)
      BY <2>1, <2>4, AtWork DEF Working
    <3>2. arg[p] \in Names /\ profile[arg[p]].state # "absent"
      BY <2>1, <2>4 DEF Listed
    <3>3. Profiles
      BY <2>4 DEF SoundInv
    <3> QED
      BY <2>1, <3>1, <3>2, <3>3 DEF Profiles, Working, Whole
  <2>5. ~overlap /\ ~harmed => Activated(p)'
    BY <2>1, <2>2, <2>4 DEF Activated, files, Whole
  <2> QED
    BY <2>1, <2>3, <2>5
<1> QED
  BY <1>1, <1>2

LEMMA RereadKeeps ==
    ASSUME StartInv, NEW p \in Procs, Reread(p)
    PROVE  UNCHANGED <<files, harmed>> /\ pc[p] = "reread" /\ (~overlap => Keeps(p)') /\ Activated(p)'
<1> USE DEF StartInv, Inv
<1>1. CASE Refuse(p)
  BY <1>1, FinishKeeps DEF Refuse, Reread
<1>2. CASE op[p] = "create" /\ Goto(p, "point") /\ Takes(p, mem[p].name)
           /\ UNCHANGED <<files, op, mem, harmed>>
  BY <1>2 DEF Reread, Goto, Takes, TypeOK, KeepInv, Keeps, Activated, Renames, files, Whole
<1>3. CASE /\ op[p] = "rename" /\ Goto(p, "truncate")
           /\ Runs(p, IF active = arg[p] THEN "rename-active" ELSE "rename")
           /\ UNCHANGED <<files, mem, arg, harmed>>
  BY <1>3 DEF Reread, Goto, Runs, TypeOK, KeepInv, Keeps, Activated, Renames, files
<1> QED
  BY <1>1, <1>2, <1>3 DEF Reread

LEMMA StartStep ==
    ASSUME StartInv, [Next]_vars
    PROVE  StartInv'
<1>1. Inv'
  BY InvStep DEF StartInv
<1>2. CASE UNCHANGED vars
  BY <1>1, <1>2 DEF StartInv, vars, PlaceInv, Place, Working, KeepInv, Keeps, Together, Renames,
     SoundInv, Profiles, Pointer, Activated, Whole
<1>3. ASSUME NEW p \in Procs, Step(p) \/ Kill(p), overlap' = (overlap \/ Overlap')
      PROVE  StartInv'
  <2>1. TypeOK /\ PlaceInv /\ Elsewhere(p)
    BY <1>3, StepElsewhere DEF StartInv, Inv
  <2>2. PlaceInv'
    BY <1>3, <2>1, PlaceStep
  <2>3. ASSUME UNCHANGED <<files, harmed>>, ~Owes(p), ~overlap => Keeps(p)',
               ~overlap /\ ~harmed => Activated(p)'
        PROVE  StartInv'
    <3>1. harmed' = (harmed \/ Owes(p))
      BY <2>3 DEF StartInv, Inv, TypeOK
    <3> QED
      BY <1>1, <1>3, <2>1, <2>2, <2>3, <3>1, QuietStep DEF StartInv
  <2>4. ASSUME harmed' = harmed, ~overlap => WriteKeeps /\ (~harmed => WriteMends)
        PROVE  StartInv'
    BY <1>1, <1>3, <2>2, <2>4, WriteStep DEF StartInv
  <2>5. CASE Start(p) \/ ReadActive(p)
    <3>1. UNCHANGED <<files, harmed>> /\ ~Owes(p)
      BY <2>5 DEF Start, ReadActive, Owes
    <3>2. Keeps(p)' /\ Activated(p)'
      BY <2>1, <2>5 DEF Start, ReadActive, Finish, Goto, Runs, TypeOK, Keeps, Activated, Renames
    <3> QED
      BY <2>3, <3>1, <3>2
  <2>6. CASE LoadProfile(p) \/ LoadFlagged(p) \/ Leave(p)
    <3>1. UNCHANGED <<files, harmed>> /\ ~Owes(p)
      BY <2>6 DEF LoadProfile, LoadFlagged, Leave, Owes
    <3>2. pc'[p] \in {"idle", "run"}
      BY <2>1, <2>6 DEF LoadProfile, LoadFlagged, Leave, Finish, Goto, TypeOK
    <3> QED
      BY <2>3, <3>1, <3>2, EarlyKeeps
  <2>7. CASE Truncate(p)
    BY <2>1, <2>4, <2>7, TruncateStep DEF Truncate
  <2>8. CASE Fill(p)
    BY <2>1, <2>4, <2>8, FillStep DEF Fill
  <2>9. CASE Point(p)
    BY <2>1, <2>4, <2>9, PointStep DEF Point
  <2>10. CASE Pointed(p)
    BY <2>1, <2>4, <2>10, PointedStep DEF Pointed
  <2>11. CASE SetHostname(p) \/ SetProperty(p) \/ UnsetHostname(p) \/ UnsetToken(p) \/ Login(p)
    <3>1. PICK command, body : Update(p, command, body)
      BY <2>11 DEF SetHostname, SetProperty, UnsetHostname, UnsetToken, Login
    <3>2. UNCHANGED <<files, harmed>> /\ ~Owes(p)
      BY <3>1 DEF Update, Owes
    <3> QED
      BY <2>1, <2>3, <3>1, <3>2, UpdateKeeps
  <2>12. CASE Create(p) \/ Activate(p) \/ Delete(p) \/ Rename(p)
    BY <2>1, <2>3, <2>12, CreateKeeps, OnInactiveKeeps, RenameKeeps DEF Activate, Delete, Owes
  <2>13. CASE List(p) \/ Reread(p)
    BY <2>3, <2>13, ListKeeps, RereadKeeps DEF Owes
  <2>14. CASE Prompt(p)
    <3>1. UNCHANGED <<files, harmed>> /\ ~Owes(p)
      BY <2>14 DEF Prompt, Refuse, Owes
    <3>2. CASE Finish(p)
      BY <2>1, <2>3, <3>1, <3>2, FinishKeeps
    <3>3. CASE Goto(p, "remove") /\ UNCHANGED <<op, mem, arg>>
      <4>1. ~overlap => Keeps(p)'
        BY <2>1, <2>14, <3>1, <3>3 DEF StartInv, KeepInv, Keeps, PlaceInv, Place, Prompt, Goto,
           TypeOK, Renames, files
      <4>2. Activated(p)'
        BY <2>1, <3>3 DEF Activated, Goto, TypeOK
      <4> QED
        BY <2>3, <3>1, <4>1, <4>2
    <3> QED
      BY <2>14, <3>2, <3>3 DEF Prompt, Refuse
  <2>15. CASE Remove(p)
    <3>1. CASE arg[p] \in Listed
      BY <2>1, <2>4, <2>15, <3>1, RemoveStep DEF Remove
    <3>2. CASE arg[p] \notin Listed
      BY <2>1, <2>3, <2>15, <3>2, FinishKeeps DEF Remove, Refuse, Owes
    <3> QED
      BY <3>1, <3>2
  <2>16. CASE Kill(p)
    <3>1. harmed' = (harmed \/ Owes(p)) /\ UNCHANGED files /\ Finish(p)
      BY <2>16 DEF Kill, Owes
    <3> QED
      BY <1>1, <1>3, <2>1, <2>2, <3>1, FinishKeeps, QuietStep DEF StartInv
  <2> QED
    BY <1>3, <2>5, <2>6, <2>7, <2>8, <2>9, <2>10, <2>11, <2>12, <2>13, <2>14, <2>15, <2>16
       DEF Step
<1> QED
  BY <1>2, <1>3 DEF Next

LEMMA StartInvariance == Spec => []StartInv
<1>1. Init => PlaceInv /\ KeepInv /\ SoundInv
  BY DEF Init, PlaceInv, Place, Working, KeepInv, Keeps, Together, SoundInv, Profiles, Pointer,
     Activated, Without
<1>2. Init => StartInv
  BY InitInv, <1>1 DEF StartInv
<1> QED
  BY <1>2, StartStep, PTL DEF Spec

\* Wherever the commands before were killed, the next process finds a configuration
\* to start from, unless a kill hit one of the four places that Kill names or two
\* commands were at work at once.
THEOREM NextProcessStarts == Spec => []NextRunStarts
<1>1. StartInv => NextRunStarts
  BY DEF StartInv, SoundInv, Pointer, NextRunStarts
<1> QED
  BY <1>1, StartInvariance, PTL

\* What rename removes has been copied, and what delete removes is not active, unless
\* two commands were at work at once.
THEOREM RemovalsAreSafe == Spec => RemovalIsSafe
<1> DEFINE Safe ==
      \A p \in Procs :
        /\ pc[p] = "remove" /\ pc'[p] # "remove" /\ ~overlap
        /\ profile'[arg[p]] # profile[arg[p]]
        => /\ op[p] \in {"rename", "rename-active"} =>
                profile[mem[p].name] = profile[arg[p]]
           /\ op[p] = "delete" => active # arg[p]
<1>1. StartInv => Safe
  BY DEF StartInv, KeepInv, Keeps, Renames
<1>2. StartInv /\ [Next]_vars => [Safe]_vars
  BY <1>1
<1> QED
  BY <1>2, StartInvariance, PTL DEF Spec, RemovalIsSafe
=============================================================================

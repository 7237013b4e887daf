------------------------ MODULE SkillMigrationProofs -------------------------
(***************************************************************************)
(* Proofs about SkillMigration, for any processes, releases and paths.     *)
(***************************************************************************)
EXTENDS SkillMigration, TLAPS

\* What process p takes for the skill of an earlier release.
Old(p, c) == c \in Releases /\ c < Release[p]

\* A link leads to a file: there are no chains.
LinkInv == \A x \in Paths : link[link[x]] = link[x]

\* The goroutine's path goes with its place, and it ends with its process.
PlaceInv == \A p \in Procs :
    /\ main[p] \in {"off", "exited"} => mig[p] = "off"
    /\ waited[p] => main[p] = "exited"
    /\ mig[p] = "done" => todo[p] = {}
    /\ mig[p] \in {"hash", "create", "rename"} <=> at[p] # Nowhere
    /\ main[p] = "install" => dest[p] \in Paths

\* A temporary file is there during the rename, or forever if that is cut short.
TempInv == \A p \in Procs :
    <<p, "migration">> \in temp => mig[p] = "rename" \/ (main[p] = "exited" /\ ~waited[p])

\* What a link was resolved to is a file, unless others have turned it into a link.
ResolvedInv == \A p \in Procs :
    at[p] # Nowhere => link[at[p]] = at[p] \/ at[p] \in excused[p]

\* What has been recognized is still there, but for what others, or the process's
\* own install, have put in its place.
RecognizedInv == \A p \in Procs : mig[p] \in {"create", "rename"} =>
    \/ at[p] \in excused[p]
    \/ Old(p, Found(at[p]))
    \/ skill[at[p]] = Release[p]

\* The files that are no links: each is to be visited still, is being looked at, or
\* is not an earlier skill any more, unless it is excused.
Covered(p, x) ==
    \/ x \in todo[p] /\ mig[p] # "off"
    \/ ~Old(p, skill[x])
    \/ x \in excused[p]
    \/ at[p] = x

CoverInv == \A p \in Procs, x \in Paths :
    link[x] = x /\ (mig[p] # "off" \/ waited[p]) => Covered(p, x)

Inv ==
    /\ TypeOK /\ LinkInv /\ PlaceInv /\ TempInv
    /\ ResolvedInv /\ RecognizedInv /\ CoverInv

-----------------------------------------------------------------------------
LEMMA Irreflexive == \A p \in Procs : ~Old(p, Release[p])
<1>1. \A p \in Procs : Release[p] \in Nat
  BY ConstantsAssumption
<1>2. \A n \in Nat : ~(n < n)
  OBVIOUS
<1> QED
  BY <1>1, <1>2 DEF Old

\* The goroutine starts with all paths to visit.
LEMMA StartStep ==
    ASSUME Inv, NEW p \in Procs, Start(p)
    PROVE  Inv'
<1> USE ConstantsAssumption DEF Start, Main, Here, files
<1>1. TypeOK'
  BY DEF Inv, TypeOK, Mains, Migs, Contents
<1>2. LinkInv'
  BY DEF Inv, TypeOK, LinkInv
<1>3. PlaceInv'
  BY DEF Inv, TypeOK, PlaceInv
<1>4. TempInv'
  BY DEF Inv, TypeOK, TempInv, PlaceInv
<1>5. ResolvedInv'
  BY DEF Inv, TypeOK, ResolvedInv
<1>6. RecognizedInv'
  BY DEF Inv, TypeOK, RecognizedInv, PlaceInv, Old, Found
<1>7. CoverInv'
  BY DEF Inv, TypeOK, CoverInv, Covered, PlaceInv, Old
<1> QED
  BY <1>1, <1>2, <1>3, <1>4, <1>5, <1>6, <1>7 DEF Inv

\* The main goroutine goes on.
LEMMA MainStep ==
    ASSUME Inv, NEW p \in Procs, Load(p) \/ Run(p) \/ Version(p) \/ Signal(p)
    PROVE  Inv'
<1> USE ConstantsAssumption DEF Load, Run, Version, Signal, Alive, Main, Here, files, migs
<1>1. TypeOK'
  BY DEF Inv, TypeOK, Mains, Migs, Contents
<1>2. LinkInv'
  BY DEF Inv, TypeOK, LinkInv
<1>3. PlaceInv'
  BY DEF Inv, TypeOK, PlaceInv
<1>4. TempInv'
  BY DEF Inv, TypeOK, TempInv, PlaceInv
<1>5. ResolvedInv'
  BY DEF Inv, TypeOK, ResolvedInv
<1>6. RecognizedInv'
  BY DEF Inv, TypeOK, RecognizedInv, PlaceInv, Old, Found
<1>7. CoverInv'
  BY DEF Inv, TypeOK, CoverInv, Covered, PlaceInv, Old
<1> QED
  BY <1>1, <1>2, <1>3, <1>4, <1>5, <1>6, <1>7 DEF Inv

\* The main goroutine makes or removes a temporary file of its own.
LEMMA TempStep ==
    ASSUME Inv, NEW p \in Procs, InstallTemp(p) \/ InstallFails(p)
    PROVE  Inv'
<1> USE ConstantsAssumption DEF InstallTemp, InstallFails, Main, Here, files, migs
<1>1. TypeOK'
  BY DEF Inv, TypeOK, Mains, Migs, Contents
<1>2. LinkInv'
  BY DEF Inv, TypeOK, LinkInv
<1>3. PlaceInv'
  BY DEF Inv, TypeOK, PlaceInv
<1>4. TempInv'
  BY DEF Inv, TypeOK, TempInv, PlaceInv
<1>5. ResolvedInv'
  BY DEF Inv, TypeOK, ResolvedInv
<1>6. RecognizedInv'
  BY DEF Inv, TypeOK, RecognizedInv, PlaceInv, Old, Found
<1>7. CoverInv'
  BY DEF Inv, TypeOK, CoverInv, Covered, PlaceInv, Old
<1> QED
  BY <1>1, <1>2, <1>3, <1>4, <1>5, <1>6, <1>7 DEF Inv

\* The process ends, and its goroutine with it.
LEMMA EndStep ==
    ASSUME Inv, NEW p \in Procs, LoadFails(p) \/ Exit(p) \/ Kill(p)
    PROVE  Inv'
<1> USE ConstantsAssumption DEF LoadFails, Exit, Kill, Exits, Alive, Here, files
<1>1. TypeOK'
  BY DEF Inv, TypeOK, Mains, Migs, Contents
<1>2. LinkInv'
  BY DEF Inv, TypeOK, LinkInv
<1>3. PlaceInv'
  BY DEF Inv, TypeOK, PlaceInv
<1>4. TempInv'
  BY DEF Inv, TypeOK, TempInv, PlaceInv
<1>5. ResolvedInv'
  BY DEF Inv, TypeOK, ResolvedInv
<1>6. RecognizedInv'
  BY DEF Inv, TypeOK, RecognizedInv, PlaceInv, Old, Found
<1>7. CoverInv'
  BY DEF Inv, TypeOK, CoverInv, Covered, PlaceInv, Old
<1> QED
  BY <1>1, <1>2, <1>3, <1>4, <1>5, <1>6, <1>7 DEF Inv

\* A path is resolved: from here on it is the file that counts.
LEMMA VisitStep ==
    ASSUME Inv, NEW p \in Procs, Visit(p)
    PROVE  Inv'
<1> USE ConstantsAssumption DEF Visit, Mig, Alive, Here, files, mains, Found
<1>1. TypeOK'
  BY DEF Inv, TypeOK, Mains, Migs, Contents
<1>2. LinkInv'
  BY DEF Inv, TypeOK, LinkInv
<1>3. PlaceInv'
  BY DEF Inv, TypeOK, PlaceInv
<1>4. TempInv'
  BY DEF Inv, TypeOK, TempInv, PlaceInv
<1>5. ResolvedInv'
  BY DEF Inv, TypeOK, ResolvedInv, LinkInv
<1>6. RecognizedInv'
  BY DEF Inv, TypeOK, RecognizedInv, PlaceInv, Old, Found
<1>7. CoverInv'
  BY DEF Inv, TypeOK, CoverInv, Covered, PlaceInv, Old
<1> QED
  BY <1>1, <1>2, <1>3, <1>4, <1>5, <1>6, <1>7 DEF Inv

\* What is found decides; a file that is no link is excused no more.
LEMMA RecognizeStep ==
    ASSUME Inv, NEW p \in Procs, Recognize(p)
    PROVE  Inv'
<1> USE ConstantsAssumption DEF Recognize, Mig, Alive, Here, files, mains
<1>1. TypeOK'
  BY DEF Inv, TypeOK, Mains, Migs, Contents
<1>2. LinkInv'
  BY DEF Inv, TypeOK, LinkInv
<1>3. PlaceInv'
  BY DEF Inv, TypeOK, PlaceInv
<1>4. TempInv'
  BY DEF Inv, TypeOK, TempInv, PlaceInv
<1>5. ResolvedInv'
  BY DEF Inv, TypeOK, ResolvedInv
<1>6. RecognizedInv'
  BY DEF Inv, TypeOK, RecognizedInv, PlaceInv, Old, Found
<1>7. CoverInv'
  BY DEF Inv, TypeOK, CoverInv, Covered, PlaceInv, Old, ResolvedInv, Found
<1> QED
  BY <1>1, <1>2, <1>3, <1>4, <1>5, <1>6, <1>7 DEF Inv

\* The migration of a file begins or fails, or there is none left.
LEMMA MigrationStep ==
    ASSUME Inv, NEW p \in Procs, CreateTemp(p) \/ MigrationFails(p) \/ Done(p)
    PROVE  Inv'
<1> USE ConstantsAssumption DEF CreateTemp, MigrationFails, Done, Mig, Alive, Here, mains, files
<1>0. at[p] \in Paths \/ Done(p)
  BY DEF Inv, TypeOK, PlaceInv
<1>1. TypeOK'
  BY <1>0 DEF Inv, TypeOK, Mains, Migs, Contents
<1>2. LinkInv'
  BY DEF Inv, TypeOK, LinkInv
<1>3. PlaceInv'
  BY DEF Inv, TypeOK, PlaceInv
<1>4. TempInv'
  BY DEF Inv, TypeOK, TempInv, PlaceInv
<1>5. ResolvedInv'
  BY DEF Inv, TypeOK, ResolvedInv
<1>6. RecognizedInv'
  BY DEF Inv, TypeOK, RecognizedInv, PlaceInv, Old, Found
<1>7. CoverInv'
  BY DEF Inv, TypeOK, CoverInv, Covered, PlaceInv, Old
<1> QED
  BY <1>1, <1>2, <1>3, <1>4, <1>5, <1>6, <1>7 DEF Inv

\* An install puts the release in the place of what is there.
LEMMA InstallStep ==
    ASSUME Inv, NEW p \in Procs, Install(p)
    PROVE  Inv'
<1> USE ConstantsAssumption DEF Install, Main, Put, Here, migs
<1>0. dest[p] \in Paths /\ ~Old(p, Release[p]) /\ main[p] # "off"
  BY Irreflexive DEF Inv, PlaceInv, TypeOK
<1>1. TypeOK'
  BY <1>0 DEF Inv, TypeOK, Mains, Migs, Contents
<1>2. LinkInv'
  BY DEF Inv, TypeOK, LinkInv
<1>3. PlaceInv'
  BY DEF Inv, TypeOK, PlaceInv
<1>4. TempInv'
  BY DEF Inv, TypeOK, TempInv, PlaceInv
<1>5. ResolvedInv'
  BY DEF Inv, TypeOK, ResolvedInv
<1>6. RecognizedInv'
  BY <1>0 DEF Inv, TypeOK, RecognizedInv, PlaceInv, Old, Found, ResolvedInv
<1>7. CoverInv'
  BY <1>0 DEF Inv, TypeOK, CoverInv, Covered, PlaceInv, Old
<1> QED
  BY <1>1, <1>2, <1>3, <1>4, <1>5, <1>6, <1>7 DEF Inv

\* The migration puts its release in the place of what it has recognized.
LEMMA RenameStep ==
    ASSUME Inv, NEW p \in Procs, Rename(p)
    PROVE  Inv'
<1> USE ConstantsAssumption DEF Rename, Mig, Alive, Put, Here, mains
<1>0. at[p] \in Paths /\ ~Old(p, Release[p]) /\ main[p] # "off"
  BY Irreflexive DEF Inv, PlaceInv, TypeOK
<1>1. TypeOK'
  BY <1>0 DEF Inv, TypeOK, Mains, Migs, Contents
<1>2. LinkInv'
  BY DEF Inv, TypeOK, LinkInv
<1>3. PlaceInv'
  BY DEF Inv, TypeOK, PlaceInv
<1>4. TempInv'
  BY DEF Inv, TypeOK, TempInv, PlaceInv
<1>5. ResolvedInv'
  BY DEF Inv, TypeOK, ResolvedInv
<1>6. RecognizedInv'
  BY <1>0 DEF Inv, TypeOK, RecognizedInv, PlaceInv, Old, Found, ResolvedInv
<1>7. CoverInv'
  BY <1>0 DEF Inv, TypeOK, CoverInv, Covered, PlaceInv, Old
<1> QED
  BY <1>1, <1>2, <1>3, <1>4, <1>5, <1>6, <1>7 DEF Inv

\* Others change a file.
LEMMA ChangeStep ==
    ASSUME Inv, NEW x \in Paths, Change(x)
    PROVE  Inv'
<1> USE ConstantsAssumption DEF Change, Put, Here, mains, migs
<1>1. TypeOK'
  BY DEF Inv, TypeOK, Mains, Migs, Contents
<1>2. LinkInv'
  BY DEF Inv, TypeOK, LinkInv
<1>3. PlaceInv'
  BY DEF Inv, TypeOK, PlaceInv
<1>4. TempInv'
  BY DEF Inv, TypeOK, TempInv, PlaceInv
<1>5. ResolvedInv'
  BY DEF Inv, TypeOK, ResolvedInv
<1>6. RecognizedInv'
  BY DEF Inv, TypeOK, RecognizedInv, PlaceInv, Old, Found, ResolvedInv
<1>7. CoverInv'
  BY DEF Inv, TypeOK, CoverInv, Covered, PlaceInv, Old
<1> QED
  BY <1>1, <1>2, <1>3, <1>4, <1>5, <1>6, <1>7 DEF Inv

\* Others turn a path into a link.
LEMMA RelinkStep ==
    ASSUME Inv, NEW x \in Paths, NEW y \in Paths, x # y, Relink(x, y)
    PROVE  Inv'
<1> USE ConstantsAssumption DEF Relink, Put, Here, mains, migs
<1>1. TypeOK'
  BY DEF Inv, TypeOK, Mains, Migs, Contents
<1>2. LinkInv'
  BY DEF Inv, TypeOK, LinkInv
<1>3. PlaceInv'
  BY DEF Inv, TypeOK, PlaceInv
<1>4. TempInv'
  BY DEF Inv, TypeOK, TempInv, PlaceInv
<1>5. ResolvedInv'
  BY DEF Inv, TypeOK, ResolvedInv, PlaceInv
<1>6. RecognizedInv'
  BY DEF Inv, TypeOK, RecognizedInv, PlaceInv, Old, Found
<1>7. CoverInv'
  BY DEF Inv, TypeOK, CoverInv, Covered, PlaceInv, Old
<1> QED
  BY <1>1, <1>2, <1>3, <1>4, <1>5, <1>6, <1>7 DEF Inv

LEMMA InitInv == Init => Inv
  BY ConstantsAssumption
  DEF Init, Inv, TypeOK, LinkInv, PlaceInv, TempInv, ResolvedInv, RecognizedInv, CoverInv,
      Mains, Migs, Contents

LEMMA StutterStep == Inv /\ UNCHANGED vars => Inv'
<1> SUFFICES ASSUME Inv, UNCHANGED vars PROVE Inv'
  OBVIOUS
<1> USE DEF vars, files, mains, migs
<1>1. TypeOK'
  BY DEF Inv, TypeOK, Mains, Migs, Contents, Found
<1>2. LinkInv'
  BY DEF Inv, TypeOK, LinkInv, Found
<1>3. PlaceInv'
  BY DEF Inv, TypeOK, PlaceInv, Found
<1>4. TempInv'
  BY DEF Inv, TypeOK, TempInv, PlaceInv, Found
<1>5. ResolvedInv'
  BY DEF Inv, TypeOK, ResolvedInv, Found
<1>6. RecognizedInv'
  BY DEF Inv, TypeOK, RecognizedInv, PlaceInv, Old, Found, Found
<1>7. CoverInv'
  BY DEF Inv, TypeOK, CoverInv, Covered, PlaceInv, Old, Found
<1> QED
  BY <1>1, <1>2, <1>3, <1>4, <1>5, <1>6, <1>7 DEF Inv

LEMMA Invariance == Spec => []Inv
<1>1. Inv /\ [Next]_vars => Inv'
  BY StartStep, MainStep, TempStep, EndStep, VisitStep, RecognizeStep, MigrationStep,
     InstallStep, RenameStep, ChangeStep, RelinkStep, StutterStep
  DEF Next, Proceed, Migrate
<1> QED
  BY <1>1, InitInv, PTL DEF Spec

-----------------------------------------------------------------------------
THEOREM TypeCorrect == Spec => []TypeOK
<1>1. Inv => TypeOK
  BY DEF Inv
<1> QED
  BY <1>1, Invariance, PTL

\* A process that has waited for its migration leaves no temporary file of it, and no
\* earlier skill that is not excused, whatever others do meanwhile and afterwards.
THEOREM WaitedIsMigrated == Spec => []WaitedMeansMigrated
<1>1. Inv => WaitedMeansMigrated
  <2> SUFFICES ASSUME Inv, NEW p \in Procs, waited[p]
               PROVE  /\ <<p, "migration">> \notin temp
                      /\ \A x \in Paths :
                           \/ Found(x) \notin {r \in Releases : r < Release[p]}
                           \/ link[x] \in excused[p]
    BY DEF WaitedMeansMigrated
  <2>1. mig[p] = "off" /\ main[p] = "exited" /\ at[p] = Nowhere
    BY DEF Inv, PlaceInv
  <2>2. <<p, "migration">> \notin temp
    BY <2>1 DEF Inv, TempInv
  <2>3. ASSUME NEW x \in Paths
        PROVE  Found(x) \notin {r \in Releases : r < Release[p]} \/ link[x] \in excused[p]
    <3>1. link[x] \in Paths /\ link[link[x]] = link[x]
      BY DEF Inv, TypeOK, LinkInv
    <3>2. Covered(p, link[x])
      BY <3>1 DEF Inv, CoverInv
    <3> QED
      BY <2>1, <3>1, <3>2, ConstantsAssumption DEF Covered, Old, Found
  <2> QED
    BY <2>2, <2>3
<1> QED
  BY <1>1, Invariance, PTL

\* The only step that takes a goroutine past its rename and changes a skill is its own.
LEMMA OwnRename ==
    ASSUME Inv, [Next]_vars, NEW p \in Procs, Renames(p)
    PROVE  Rename(p)
<1> USE DEF Renames
<1>1. mig[p] = "rename" /\ mig'[p] = "next" /\ skill' # skill
  OBVIOUS
<1>2. mig' # mig
  BY <1>1
<1>3. PICK q \in Procs : Start(q) \/ Proceed(q) \/ Version(q) \/ Migrate(q) \/ Signal(q) \/ Kill(q)
  BY <1>2 DEF Next, Change, Relink, vars, migs
<1>4. \A r \in Procs \ {q} : mig'[r] = mig[r]
  BY <1>3
  DEF Start, Proceed, Version, Signal, Kill, Load, LoadFails, Run, Exit, Exits, Main,
      InstallTemp, InstallFails, Install, Migrate, Visit, Recognize, MigrationFails,
      CreateTemp, Rename, Done, Mig, migs, Here, Inv, TypeOK
<1>5. q = p
  BY <1>1, <1>4
<1>6. CASE Start(q)
  BY <1>1, <1>5, <1>6 DEF Start, Main, Inv, PlaceInv
<1>7. CASE Proceed(q) \/ Version(q) \/ Signal(q) \/ Kill(q)
  BY <1>1, <1>5, <1>7
  DEF Proceed, Version, Signal, Kill, Load, LoadFails, Run, Exit, Exits,
      InstallTemp, InstallFails, Install, migs, Here, Inv, TypeOK
<1>8. CASE Migrate(q)
  BY <1>1, <1>5, <1>8 DEF Migrate, Visit, Recognize, MigrationFails, CreateTemp, Done, Mig, files
<1> QED
  BY <1>3, <1>5, <1>6, <1>7, <1>8

\* A migration replaces an earlier skill only: no edit and no later skill is lost that
\* was there when it looked.
THEOREM MigrationOnlyUpgrades == Spec => MigrationUpgrades
<1>1. Inv /\ [Next]_vars =>
        [\A p \in Procs : Renames(p) =>
            \/ at[p] \in excused[p]
            \/ Found(at[p]) \in Releases /\ Found(at[p]) < Release[p]]_vars
  <2> SUFFICES ASSUME Inv, [Next]_vars, NEW p \in Procs, Renames(p), at[p] \notin excused[p]
               PROVE  Found(at[p]) \in Releases /\ Found(at[p]) < Release[p]
    OBVIOUS
  <2>1. Rename(p)
    BY OwnRename
  <2>2. at[p] # Nowhere /\ at[p] \in Paths
    BY <2>1 DEF Rename, Mig, Inv, PlaceInv, TypeOK
  <2>3. skill[at[p]] # Release[p]
    BY <2>1, <2>2 DEF Rename, Put, Here, Renames, Inv, TypeOK
  <2> QED
    BY <2>1, <2>3 DEF Rename, Mig, Inv, RecognizedInv, Old
<1> QED
  BY <1>1, Invariance, PTL DEF Spec, MigrationUpgrades

\* Agents that share a skill through a link share it after a migration.
THEOREM LinksStay == Spec => LinksSurvive
<1>1. Inv /\ [Next]_vars =>
        [\A p \in Procs : Renames(p) =>
            \A x \in Paths : link'[x] = link[x] \/ at[p] \in excused[p]]_vars
  <2> SUFFICES ASSUME Inv, [Next]_vars, NEW p \in Procs, Renames(p), NEW x \in Paths, at[p] \notin excused[p]
               PROVE  link'[x] = link[x]
    OBVIOUS
  <2>1. Rename(p)
    BY OwnRename
  <2>2. at[p] # Nowhere /\ link[at[p]] = at[p]
    BY <2>1 DEF Rename, Mig, Inv, PlaceInv, ResolvedInv
  <2> QED
    BY <2>1, <2>2 DEF Rename, Here, Inv, TypeOK
<1> QED
  BY <1>1, Invariance, PTL DEF Spec, LinksSurvive
=============================================================================

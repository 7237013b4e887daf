--------------------------- MODULE SkillMigration ---------------------------
(***************************************************************************)
(* A tfctl process from start to exit, with the goroutine that migrates    *)
(* installed skills to its own release in the background.  Processes of    *)
(* several releases share the skill files with each other and with users   *)
(* who edit them; a signal, an early return or a kill ends a process       *)
(* wherever its goroutines are.                                            *)
(*                                                                         *)
(*   src/cmd/tfctl/main.go, src/skills/{migrate,existing,install}.go       *)
(*   src/internal/pkg/checkpoint/checkpoint.go                             *)
(***************************************************************************)
EXTENDS Naturals

CONSTANTS
    Procs,      \* the processes
    Releases,   \* 1..n, in the order of their release
    Release,    \* of each process: EmbeddedSkillHash
    Paths,      \* where agents look for the skill
    Nowhere,    \* the path of no skill
    Edited, Absent   \* contents of no release, and no file

ASSUME ConstantsAssumption ==
    /\ Releases \subseteq Nat \ {0}
    /\ Release \in [Procs -> Releases]
    /\ Nowhere \notin Paths \cup Procs
    /\ Edited \notin Releases /\ Absent \notin Releases \cup {Edited}

VARIABLES
    link,     \* what each path resolves to: itself, or the target of a symlink
    skill,    \* what the file at a path is: a release's skill, Edited or Absent
    temp,     \* temporary files: the process and the goroutine that made them
    main,     \* the main goroutine
    dest,     \* where it installs to
    ctx,      \* shutdownCtx
    mig,      \* the migrating goroutine
    todo,     \* the paths it has not seen yet
    at,       \* the path it has resolved
    \* history
    excused,  \* files that others have changed since this process has looked at
              \* them, or whose migration has failed
    waited    \* the process has waited for the migration to be done

files == <<link, skill, temp>>
mains == <<main, dest, ctx, waited>>
migs  == <<mig, todo, at>>
vars  == <<files, mains, migs, excused>>

Contents == Releases \cup {Edited, Absent}
Mains    == {"off", "load", "run", "version", "install", "wait", "exited"}
Migs     == {"off", "next", "hash", "create", "rename", "done"}

\* What is read at a path, through a link.
Found(x) == skill[link[x]]

Here(f, p, v) == [f EXCEPT ![p] = v]

\* A process's goroutines end with it.
Alive(p) == main[p] \notin {"off", "exited"}

-----------------------------------------------------------------------------
Init ==
    /\ link \in [Paths -> Paths] /\ \A x \in Paths : link[link[x]] = link[x]
    /\ skill \in [Paths -> Contents] /\ \A x \in Paths : link[x] # x => skill[x] = Absent
    /\ temp = {}
    /\ main = [p \in Procs |-> "off"]
    /\ dest = [p \in Procs |-> Nowhere]
    /\ ctx = [p \in Procs |-> "live"]
    /\ mig = [p \in Procs |-> "off"]
    /\ todo = [p \in Procs |-> {}]
    /\ at = [p \in Procs |-> Nowhere]
    /\ excused = [p \in Procs |-> {}]
    /\ waited = [p \in Procs |-> FALSE]

\* A file gets contents c, and others may have looked at it before.
Put(x, c, writer) ==
    /\ skill' = Here(skill, x, c)
    /\ excused' = [q \in Procs |->
            IF q # writer /\ main[q] # "off" THEN excused[q] \cup {x} ELSE excused[q]]

-----------------------------------------------------------------------------
(* realMain.                                                               *)

Main(p, from, to) ==
    /\ main[p] = from
    /\ main' = Here(main, p, to)
    /\ UNCHANGED ctx

\* With all its goroutines.
Exits(p) ==
    /\ main' = Here(main, p, "exited")
    /\ mig' = Here(mig, p, "off") /\ todo' = Here(todo, p, {}) /\ at' = Here(at, p, Nowhere)
    /\ dest' = Here(dest, p, Nowhere)
    /\ UNCHANGED <<files, ctx, excused>>

\* A dry run or TFCTL_SKIP_MIGRATE leaves the skills alone.
Start(p) ==
    /\ Main(p, "off", "load")
    /\ \/ mig' = Here(mig, p, "next") /\ todo' = Here(todo, p, Paths)
       \/ UNCHANGED <<mig, todo>>
    /\ UNCHANGED <<files, dest, waited, at, excused>>

\* NewLoader and loadActiveProfile; their errors return at once.
Load(p) ==
    /\ Main(p, "load", "run")
    /\ UNCHANGED <<files, dest, waited, migs, excused>>

LoadFails(p) ==
    /\ main[p] = "load" /\ Exits(p)
    /\ UNCHANGED waited

\* c.Run() of a command that heeds the context, or of `version`.
Run(p) ==
    /\ Main(p, "run", "wait") \/ Main(p, "run", "version")
    /\ UNCHANGED <<files, dest, waited, migs, excused>>

\* WaitForVersionCheck: without a context, as long as checkpoint.Check takes.
Version(p) ==
    /\ Main(p, "version", "wait")
    /\ UNCHANGED <<files, dest, waited, migs, excused>>

\* Mutant of Exit: nothing waits for the migration.
ExitAtOnce(p) ==
    /\ main[p] = "wait" /\ Exits(p)
    /\ waited' = Here(waited, p, mig[p] # "off" /\ ctx[p] = "live")

\* Mutant of Exit: Wait does not look at the context.
ExitDone(p) ==
    /\ main[p] = "wait" /\ Exits(p)
    /\ mig[p] \in {"off", "done"}
    /\ waited' = Here(waited, p, mig[p] = "done")

\* shutdownMain: Migration.Wait, then telemetry, which takes a second at most.
Exit(p) ==
    /\ main[p] = "wait" /\ Exits(p)
    /\ \/ mig[p] = "off" /\ waited' = waited
       \/ mig[p] = "done" /\ waited' = Here(waited, p, TRUE)
       \/ mig[p] # "off" /\ ctx[p] = "canceled" /\ waited' = waited

Signal(p) ==
    /\ Alive(p) /\ ctx[p] = "live"
    /\ ctx' = Here(ctx, p, "canceled")
    /\ UNCHANGED <<files, main, dest, waited, migs, excused>>

Kill(p) ==
    /\ Alive(p) /\ Exits(p)
    /\ UNCHANGED waited

-----------------------------------------------------------------------------
(* migrateInstalled, and installSkillToPath in two steps: a temporary file *)
(* that is complete, and its rename, which removes it even if it fails.    *)

Mig(p, from, to) ==
    /\ Alive(p) /\ mig[p] = from
    /\ mig' = Here(mig, p, to)

\* Mutant of Visit: the link itself is what is replaced.
VisitUnresolved(p) ==
    \E x \in todo[p] :
        /\ todo' = Here(todo, p, todo[p] \ {x})
        /\ IF Found(x) = Absent
           THEN Mig(p, "next", "next") /\ at' = at
           ELSE Mig(p, "next", "hash") /\ at' = Here(at, p, x)
        /\ UNCHANGED <<files, mains, excused>>

\* The agents' paths, each one once, in whatever order the agents' names give.
\* Links are followed; where there is no file there is nothing to migrate.
Visit(p) ==
    \E x \in todo[p] :
        /\ todo' = Here(todo, p, todo[p] \ {x})
        /\ IF Found(x) = Absent
           THEN Mig(p, "next", "next") /\ at' = at
           ELSE Mig(p, "next", "hash") /\ at' = Here(at, p, link[x])
        /\ UNCHANGED <<files, mains, excused>>

\* Mutant of Recognize: whatever is not up to date is replaced.
RecognizeAny(p) ==
    /\ mig[p] = "hash"
    /\ \/ Found(at[p]) # Release[p] /\ Mig(p, "hash", "create") /\ at' = at
       \/ Found(at[p]) = Release[p] /\ Mig(p, "hash", "next") /\ at' = Here(at, p, Nowhere)
    /\ excused' = Here(excused, p, excused[p] \ {x \in {at[p]} : link[x] = x})
    /\ UNCHANGED <<files, mains, todo>>

\* matchesKnownVersionAtPath: the releases known are the earlier ones.
Recognize(p) ==
    /\ mig[p] = "hash"
    /\ IF Found(at[p]) \in Releases /\ Found(at[p]) < Release[p]
       THEN Mig(p, "hash", "create") /\ at' = at
       ELSE Mig(p, "hash", "next") /\ at' = Here(at, p, Nowhere)
    /\ excused' = Here(excused, p, excused[p] \ {x \in {at[p]} : link[x] = x})
    /\ UNCHANGED <<files, mains, todo>>

MigrationFails(p) ==
    /\ Mig(p, "create", "next") \/ Mig(p, "rename", "next")
    /\ temp' = temp \ {<<p, "migration">>}
    /\ excused' = Here(excused, p, excused[p] \cup {at[p]})
    /\ at' = Here(at, p, Nowhere)
    /\ UNCHANGED <<link, skill, mains, todo>>

CreateTemp(p) ==
    /\ Mig(p, "create", "rename")
    /\ temp' = temp \cup {<<p, "migration">>}
    /\ UNCHANGED <<link, skill, mains, todo, at, excused>>

Rename(p) ==
    /\ Mig(p, "rename", "next")
    /\ Put(at[p], Release[p], p)
    /\ link' = Here(link, at[p], at[p]) /\ at' = Here(at, p, Nowhere)
    /\ temp' = temp \ {<<p, "migration">>}
    /\ UNCHANGED <<mains, todo>>

Done(p) ==
    /\ Mig(p, "next", "done") /\ todo[p] = {}
    /\ UNCHANGED <<files, mains, todo, at, excused>>

-----------------------------------------------------------------------------
(* harness install, of one agent's skill: at its path, not where the path  *)
(* leads to, and whatever is there.                                        *)

InstallTemp(p) ==
    /\ Main(p, "run", "install")
    /\ \E x \in Paths : dest' = Here(dest, p, x)
    /\ temp' = temp \cup {<<p, "install">>}
    /\ UNCHANGED <<link, skill, waited, migs, excused>>

InstallFails(p) ==
    /\ Main(p, "run", "wait") \/ Main(p, "install", "wait")
    /\ dest' = Here(dest, p, Nowhere)
    /\ temp' = temp \ {<<p, "install">>}
    /\ UNCHANGED <<link, skill, waited, migs, excused>>

Install(p) ==
    /\ Main(p, "install", "wait")
    /\ Put(dest[p], Release[p], p)
    /\ link' = Here(link, dest[p], dest[p]) /\ dest' = Here(dest, p, Nowhere)
    /\ temp' = temp \ {<<p, "install">>}
    /\ UNCHANGED <<waited, migs>>

\* A user edits, restores or removes a skill, or a tfctl of some other release
\* installs its own.
Change(x) ==
    /\ link[x] = x
    /\ \E c \in Contents \ {skill[x]} : Put(x, c, Nowhere)
    /\ UNCHANGED <<link, temp, mains, migs>>

\* A user makes the skill of one agent a link to another's.
Relink(x, y) ==
    /\ link[y] = y /\ \A z \in Paths : link[z] = x => z = x
    /\ link' = Here(link, x, y)
    /\ Put(x, Absent, Nowhere)
    /\ UNCHANGED <<temp, mains, migs>>

-----------------------------------------------------------------------------
Migrate(p) ==
    \/ Visit(p) \/ Recognize(p) \/ MigrationFails(p) \/ CreateTemp(p)
    \/ Rename(p) \/ Done(p)
Proceed(p) ==
    \/ Load(p) \/ LoadFails(p) \/ Run(p) \/ Exit(p)
    \/ InstallTemp(p) \/ InstallFails(p) \/ Install(p)

Next ==
    \/ \E p \in Procs : Start(p) \/ Proceed(p) \/ Version(p) \/ Migrate(p) \/ Signal(p) \/ Kill(p)
    \/ \E x \in Paths : Change(x)
    \/ \E x, y \in Paths : x # y /\ Relink(x, y)

\* The main goroutine is scheduled; what it waits for may take its time.
Spec == Init /\ [][Next]_vars /\ \A p \in Procs : WF_vars(Proceed(p))

-----------------------------------------------------------------------------
TypeOK ==
    /\ link \in [Paths -> Paths]
    /\ skill \in [Paths -> Contents]
    /\ temp \subseteq Procs \X {"migration", "install"}
    /\ main \in [Procs -> Mains]
    /\ dest \in [Procs -> Paths \cup {Nowhere}]
    /\ ctx \in [Procs -> {"live", "canceled"}]
    /\ mig \in [Procs -> Migs]
    /\ todo \in [Procs -> SUBSET Paths]
    /\ at \in [Procs -> Paths \cup {Nowhere}]
    /\ excused \in [Procs -> SUBSET Paths]
    /\ waited \in [Procs -> BOOLEAN]

Renames(p) == mig[p] = "rename" /\ skill' # skill /\ mig'[p] = "next"

\* A migration replaces what it has recognized, the skill of an earlier
\* release: neither a user's edits nor the skill of a later one, unless they
\* came between the look and the rename.
MigrationUpgrades ==
    [][\A p \in Procs : Renames(p) =>
        \/ at[p] \in excused[p]
        \/ Found(at[p]) \in Releases /\ Found(at[p]) < Release[p]]_vars

\* A migration leaves agents that share a file through a link together.
LinksSurvive ==
    [][\A p \in Procs : Renames(p) =>
        \A x \in Paths : link'[x] = link[x] \/ at[p] \in excused[p]]_vars

\* A process that has waited for its migration leaves no temporary file behind,
\* and no earlier skill but those that failed, and those that others have changed
\* since.
WaitedMeansMigrated ==
    \A p \in Procs : waited[p] =>
        /\ <<p, "migration">> \notin temp
        /\ \A x \in Paths :
            \/ Found(x) \notin {r \in Releases : r < Release[p]}
            \/ link[x] \in excused[p]

\* A signal ends every process but one that waits for checkpoint, however long
\* the migration takes; without a signal it ends if its migration is scheduled.
ProcessEnds ==
    \A p \in Procs :
        /\ ctx[p] = "canceled" ~> main[p] \in {"version", "exited"}
        /\ WF_vars(Migrate(p)) =>
              (main[p] = "load" ~> main[p] \in {"version", "exited"})
=============================================================================

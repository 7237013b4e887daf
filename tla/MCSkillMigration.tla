-------------------------- MODULE MCSkillMigration --------------------------
(***************************************************************************)
(* An instance of SkillMigration: a release with an earlier and a later    *)
(* one; two paths, one of which may be a link to the other.  Processes     *)
(* other than the one looked at are part of Change.                        *)
(***************************************************************************)
EXTENDS SkillMigration

MCRelease == [p \in Procs |-> 2]
=============================================================================

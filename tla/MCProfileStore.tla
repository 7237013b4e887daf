--------------------------- MODULE MCProfileStore ---------------------------
(***************************************************************************)
(* Instances of ProfileStore.  Processes are interchangeable.              *)
(***************************************************************************)
EXTENDS ProfileStore, TLC

Symmetry == Permutations(Procs)

\* A bound: once a kill has done harm and two commands have been at work at once, the
\* properties that name these as exceptions claim nothing any more.
OneExcuse == ~(harmed /\ overlap)
=============================================================================

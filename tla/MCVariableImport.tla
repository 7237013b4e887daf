-------------------------- MODULE MCVariableImport --------------------------
(***************************************************************************)
(* An instance of VariableImport: two variables, or the same one twice, as *)
(* in -e A -e A.  Importers are interchangeable.                           *)
(***************************************************************************)
EXTENDS VariableImport, TLC

CONSTANTS a, b, v, w

Given(k, x) == [key |-> k, value |-> x]

MCLists == {<<Given(b, w), Given(a, w)>>, <<Given(a, v), Given(a, w)>>}

Symmetry == Permutations(Importers)
=============================================================================

---------------------------- MODULE MCExecSession ----------------------------
(***************************************************************************)
(* Instances of ExecSession.  Wrappers and clients are interchangeable.    *)
(***************************************************************************)
EXTENDS ExecSession, TLC

Symmetry == Permutations(Clients) \cup Permutations(Wrappers)
=============================================================================

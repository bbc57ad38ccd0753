----------------------------- MODULE MCTaskTree -----------------------------
(***************************************************************************)
(* Small task trees for TLC.  Wide: a task of two instances, with two and  *)
(* with one prompts.  Narrow: two instances of one prompt each.            *)
(***************************************************************************)
EXTENDS TaskTree, TLC

CONSTANTS p1, p2, p3, i1, i2, t1

WideInstanceOf == (p1 :> i1) @@ (p2 :> i1) @@ (p3 :> i2)
WideTaskOf     == (i1 :> t1) @@ (i2 :> t1)

NarrowInstanceOf == (p1 :> i1) @@ (p2 :> i2)

\* Sessions differ in nothing but their name.
SessionSymmetry == Permutations(Sessions)
=============================================================================

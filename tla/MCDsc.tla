------------------------------- MODULE MCDsc -------------------------------
(* Instances of Dsc for TLC.                                               *)
EXTENDS DscLock, TLC

CONSTANTS t1, t2, t3, p1, p2, v1, v2

OneVdevTree == v1 :> p1
OnePsocTree == v1 :> p1 @@ v2 :> p1
TwoPsocTree == v1 :> p1 @@ v2 :> p2

Symmetry == Permutations(Threads)
============================================================================

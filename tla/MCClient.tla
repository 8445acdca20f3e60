------------------------------ MODULE MCClient ------------------------------
(***************************************************************************)
(* Instances of Client for TLC: two callers of one client, and one of      *)
(* another.                                                                *)
(***************************************************************************)
EXTENDS Client, TLC

CONSTANTS c1, c2, t1, t2, t3

TwoAndOne == t1 :> c1 @@ t2 :> c1 @@ t3 :> c2

Symmetric == Permutations({t1, t2})
=============================================================================

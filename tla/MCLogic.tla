------------------------------ MODULE MCLogic ------------------------------
(***************************************************************************)
(* Instances of Logic for TLC.                                             *)
(***************************************************************************)
EXTENDS Logic, TLC

\* Searches: for everybody, and for one employee by number.
Everybody == { <<>> }
EverybodyOrOne == { <<>>, <<1>> }

\* Processes run one program, and contents are only ever compared.
Symmetric == Permutations(Procs) \cup Permutations(Employee)
=============================================================================

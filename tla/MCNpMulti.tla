------------------------------ MODULE MCNpMulti ------------------------------
(* The symmetry of NpMulti: processes are told apart by what they do only.   *)
EXTENDS NpMulti, TLC

Symmetry == Permutations(Proc)

\* Without what is said, which decides nothing but what is shown.
TableView == <<table, semR, semW, local, signals, interrupted>>
=============================================================================

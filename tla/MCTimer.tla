------------------------------ MODULE MCTimer ------------------------------
(* Two threads that report and two that ask for reports, up to symmetry.   *)
EXTENDS Timer, TLC

Symmetry == Permutations(Threads) \union Permutations(Callers)
            \union Permutations(Names)
=============================================================================

------------------------------ MODULE MCRollPrint ------------------------------
(* The prints of one roll by two operators over several shifts. *)
EXTENDS RollPrint, TLC

CONSTANTS k1, k2, anna, boris

TwoKeys  == {k1, k2}
Crew     == {anna, boris}
Symmetry == Permutations(Keys) \union Permutations(Crew)
================================================================================

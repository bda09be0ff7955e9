-------------------------- MODULE MCWarehousePallets --------------------------
(* The instance for TLC: two rolls, and pallets one after another.            *)
EXTENDS WarehousePallets, TLC

CONSTANTS r1, r2, q1, q2

TwoRolls    == {r1, r2}
TwoRequests == {q1, q2}
Symmetry    == Permutations(TwoRolls) \union Permutations(TwoRequests)
================================================================================

---------------------------- MODULE MCOneCStockPush ----------------------------
(* Three pushes by two users with two keys over two states of the stock. *)
EXTENDS OneCStockPush, TLC

CONSTANTS c1, c2, c3

ThreeCalls == {c1, c2, c3}
Symmetry   == Permutations(ThreeCalls) \union Permutations(Keys) \union Permutations(Actors)
================================================================================

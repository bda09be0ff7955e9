---------------------------- MODULE MCPaymentLedger ----------------------------
(* Two syncs and a manager over two receipts and two orders: one order with   *)
(* two schedules, one with a single one.                                      *)
EXTENDS PaymentLedger, TLC

CONSTANTS o1, o2, r1, r2, k1, s1, s2

Plans == (o1 :> <<1, 2>>) @@ (o2 :> <<1>>)

Money(amount, active, match) == [amount |-> amount, active |-> active, match |-> match]

\* Both receipts pay the first order; the first one may be written once more,
\* as unposted or as a smaller payment of the other order.
TwoFacts    == (r1 :> {Money(2, TRUE, o1), Money(2, FALSE, o1), Money(1, TRUE, o2)})
            @@ (r2 :> {Money(2, TRUE, o1)})
TwoVersions == (r1 :> 2) @@ (r2 :> 1)

Symmetry == Permutations({s1, s2})
================================================================================

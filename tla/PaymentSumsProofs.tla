-------------------------- MODULE PaymentSumsProofs --------------------------
(***************************************************************************)
(* Theorems about the amounts of the ledger: no receipt is allocated twice *)
(* and no schedule is paid twice, for every number of receipts, orders,    *)
(* syncs, schedules and allocations.                                       *)
(*                                                                         *)
(* A sum over a set is defined by recursion over its subsets.  What it     *)
(* computes is shown with the one principle of induction that needs no     *)
(* operator: a set of finite sets has a smallest member, and a smallest    *)
(* counterexample leads to a smaller one.                                  *)
(***************************************************************************)
EXTENDS PaymentLedgerProofs, FiniteSetTheorems

-----------------------------------------------------------------------------
(* Smallest sets and numbers.                                                *)

LEMMA SmallestSet ==
  ASSUME NEW S, IsFiniteSet(S), NEW T, T \subseteq SUBSET S, T # {}
  PROVE  \E x \in T : \A y \in T : y \subseteq x => y = x
<1>1. IsWellFoundedOn(StrictSubsetOrdering(S), FiniteSubsetsOf(S))
  BY FS_StrictSubsetOrderingWellFounded
<1>2. T \subseteq FiniteSubsetsOf(S)
  BY FS_FiniteSubsetsOfFinite
<1>3. PICK x \in T : \A y \in T : ~ (<<y, x>> \in StrictSubsetOrdering(S))
  BY <1>1, <1>2, WFMin
<1>4. ASSUME NEW y \in T, y \subseteq x, y # x
      PROVE  FALSE
  <2>1. x \in SUBSET S /\ y \in SUBSET S
    OBVIOUS
  <2>2. <<y, x>> \in StrictSubsetOrdering(S)
    BY <1>4, <2>1 DEF StrictSubsetOrdering
  <2> QED BY <1>3, <2>2
<1> QED
  BY <1>4

LEMMA SmallestNumber ==
  ASSUME NEW N \in Nat, NEW T, T \subseteq 0..N, T # {}
  PROVE  \E k \in T : \A j \in T : k <= j
<1>1. IsFiniteSet(1..N)
  BY FS_Interval
<1> DEFINE Ranges == {1..k : k \in T}
<1>0. PICK any \in T : TRUE
  OBVIOUS
<1>2. PICK x \in Ranges : \A y \in Ranges : y \subseteq x => y = x
  <2>1. Ranges \subseteq SUBSET (1..N)
    OBVIOUS
  <2>2. 1..any \in Ranges
    BY <1>0
  <2>3. Ranges # {}
    BY <2>2
  <2> HIDE DEF Ranges
  <2> DEFINE M == 1..N
  <2>4. IsFiniteSet(M) /\ Ranges \subseteq SUBSET M
    BY <1>1, <2>1
  <2> HIDE DEF M
  <2> QED BY <2>3, <2>4, SmallestSet
<1>3. PICK k \in T : x = 1..k
  BY <1>2
<1>4. ASSUME NEW j \in T, j < k
      PROVE  FALSE
  <2>1. 1..j \subseteq 1..k /\ k \in 1..k /\ k \notin 1..j
    BY <1>4
  <2>2. 1..j \in Ranges
    OBVIOUS
  <2> QED BY <1>2, <1>3, <2>1, <2>2
<1> QED
  BY <1>4

-----------------------------------------------------------------------------
(* The recursion of a sum.                                                   *)

Chosen(s) == CHOOSE x \in s : TRUE

Without(s) == s \ {Chosen(s)}

\* g has the sums of f over the subsets of S.
IsSum(g, f, S) ==
  g = [s \in SUBSET S |-> IF s = {} THEN 0 ELSE f[Chosen(s)] + g[Without(s)]]

LEMMA ChosenIn ==
  ASSUME NEW s, s # {}
  PROVE  Chosen(s) \in s /\ Without(s) \subseteq s /\ Without(s) # s
  BY DEF Chosen, Without

LEMMA SumAt ==
  ASSUME NEW g, NEW f, NEW S, IsSum(g, f, S), NEW s, s \subseteq S
  PROVE  /\ s = {} => g[s] = 0
         /\ s # {} => g[s] = f[Chosen(s)] + g[Without(s)]
  BY DEF IsSum

LEMMA SumsAgree ==
  ASSUME NEW S, NEW T, IsFiniteSet(S), S \subseteq T, NEW f, NEW g, NEW h,
         IsSum(g, f, S), IsSum(h, f, T)
  PROVE  \A s \in SUBSET S : g[s] = h[s]
<1> DEFINE Bad == {s \in SUBSET S : g[s] # h[s]}
<1>1. SUFFICES ASSUME Bad # {} PROVE FALSE
  OBVIOUS
<1>2. PICK s \in Bad : \A t \in Bad : t \subseteq s => t = s
  <2>1. Bad \subseteq SUBSET S
    OBVIOUS
  <2> HIDE DEF Bad
  <2> QED BY <1>1, <2>1, SmallestSet
<1>3. s \subseteq S /\ s \subseteq T /\ g[s] # h[s]
  BY <1>2
<1>4. s # {}
  BY <1>3, SumAt
<1>5. Without(s) \subseteq S /\ Without(s) \notin Bad
  BY <1>2, <1>3, <1>4, ChosenIn
<1>6. g[Without(s)] = h[Without(s)]
  BY <1>5
<1> QED
  BY <1>3, <1>4, <1>6, SumAt

\* A function that has the sums over a set has those over its subsets.
LEMMA SumRestricts ==
  ASSUME NEW S, NEW T, S \subseteq T, NEW f, NEW g, IsSum(g, f, T)
  PROVE  IsSum([s \in SUBSET S |-> g[s]], f, S)
<1> DEFINE h == [s \in SUBSET S |-> g[s]]
<1>1. ASSUME NEW s \in SUBSET S
      PROVE  h[s] = IF s = {} THEN 0 ELSE f[Chosen(s)] + h[Without(s)]
  <2>1. s # {} => Without(s) \in SUBSET S
    BY ChosenIn
  <2> QED BY <2>1, SumAt
<1> QED
  BY <1>1 DEF IsSum

LEMMA SumExists ==
  ASSUME NEW S, IsFiniteSet(S), NEW f
  PROVE  \E g : IsSum(g, f, S)
<1> DEFINE Bad == {s \in SUBSET S : ~ \E g : IsSum(g, f, s)}
<1>1. SUFFICES ASSUME Bad # {} PROVE FALSE
  OBVIOUS
<1>2. PICK s \in Bad : \A t \in Bad : t \subseteq s => t = s
  <2>1. Bad \subseteq SUBSET S
    OBVIOUS
  <2> HIDE DEF Bad
  <2> QED BY <1>1, <2>1, SmallestSet
<1>3. s \subseteq S /\ ~ \E g : IsSum(g, f, s)
  BY <1>2
\* Every strict subset has its sums.
<1> DEFINE G(t)  == CHOOSE g : IsSum(g, f, t)
           Strict == {t \in SUBSET s : t # s}
<1>4. \A t \in Strict : IsSum(G(t), f, t)
  <2> TAKE t \in Strict
  <2>1. t \in SUBSET S /\ t \notin Bad
    BY <1>2, <1>3
  <2> QED BY <2>1
<1> HIDE DEF G
<1>5. ASSUME NEW t \in Strict, NEW u \in SUBSET t
      PROVE  u \in Strict /\ G(u)[u] = G(t)[u]
  <2>1. u \in Strict
    OBVIOUS
  <2>2. IsFiniteSet(u)
    BY <1>3, <2>1, FS_Subset
  <2>3. IsSum(G(u), f, u) /\ IsSum(G(t), f, t)
    BY <1>4, <2>1
  <2> QED BY <2>1, <2>2, <2>3, SumsAgree
<1> DEFINE h == [t \in SUBSET s |-> IF t = {} THEN 0
                                    ELSE f[Chosen(t)] + G(Without(t))[Without(t)]]
<1>6. ASSUME NEW t \in Strict
      PROVE  h[t] = G(t)[t]
  <2>1. IsSum(G(t), f, t)
    BY <1>4
  <2>2. CASE t = {}
    BY <2>1, <2>2, SumAt
  <2>3. CASE t # {}
    <3>1. G(t)[t] = f[Chosen(t)] + G(t)[Without(t)]
      BY <2>1, <2>3, SumAt
    <3>2. G(Without(t))[Without(t)] = G(t)[Without(t)]
      BY <1>5, <2>3, ChosenIn
    <3> QED BY <2>3, <3>1, <3>2
  <2> QED BY <2>2, <2>3
<1>7. ASSUME NEW t \in SUBSET s
      PROVE  h[t] = IF t = {} THEN 0 ELSE f[Chosen(t)] + h[Without(t)]
  <2>1. CASE t = {}
    BY <2>1
  <2>2. CASE t # {}
    <3>1. Without(t) \in Strict
      BY <2>2, ChosenIn
    <3>2. h[Without(t)] = G(Without(t))[Without(t)]
      BY <1>6, <3>1
    <3> QED BY <2>2, <3>2
  <2> QED BY <2>1, <2>2
<1>8. IsSum(h, f, s)
  <2>1. h = [t \in SUBSET s |-> h[t]]
    OBVIOUS
  <2> HIDE DEF h
  <2> QED BY <1>7, <2>1 DEF IsSum
<1> QED
  BY <1>3, <1>8

\* Sum is the community modules' fold: the sums exist, so it has the value.
LEMMA SumIs ==
  ASSUME NEW S, IsFiniteSet(S), NEW f, NEW g, IsSum(g, f, S)
  PROVE  Sum(f, S) = g[S]
<1>1. Sum(f, S) = (CHOOSE h : IsSum(h, f, S))[S]
  BY DEF Sum, MapThenSumSet, MapThenFoldSet, IsSum, Chosen, Without
<1>2. IsSum(CHOOSE h : IsSum(h, f, S), f, S)
  OBVIOUS
<1> QED
  BY <1>1, <1>2, SumsAgree

LEMMA SumUnfolds ==
  ASSUME NEW S, IsFiniteSet(S), NEW f
  PROVE  /\ S = {} => Sum(f, S) = 0
         /\ S # {} => Sum(f, S) = f[Chosen(S)] + Sum(f, Without(S))
<1>1. PICK g : IsSum(g, f, S)
  BY SumExists
<1>2. Sum(f, S) = g[S]
  BY <1>1, SumIs
<1>3. CASE S = {}
  BY <1>1, <1>2, <1>3, SumAt
<1>4. CASE S # {}
  <2> DEFINE h == [s \in SUBSET Without(S) |-> g[s]]
  <2>1. Without(S) \subseteq S /\ IsFiniteSet(Without(S))
    BY <1>4, ChosenIn, FS_Subset
  <2>2. IsSum(h, f, Without(S))
    BY <1>1, <2>1, SumRestricts
  <2>3. h[Without(S)] = g[Without(S)]
    OBVIOUS
  <2> HIDE DEF h
  <2>4. Sum(f, Without(S)) = g[Without(S)]
    BY <2>1, <2>2, <2>3, SumIs
  <2> QED BY <1>1, <1>2, <1>4, <2>4, SumAt
<1> QED
  BY <1>3, <1>4

-----------------------------------------------------------------------------
(* What a sum is.                                                            *)

Natural(f, S) == \A x \in S : f[x] \in Nat

LEMMA SumNat ==
  ASSUME NEW S, IsFiniteSet(S), NEW f, Natural(f, S)
  PROVE  Sum(f, S) \in Nat
<1> DEFINE Bad == {s \in SUBSET S : Sum(f, s) \notin Nat}
<1>1. SUFFICES ASSUME Bad # {} PROVE FALSE
  OBVIOUS
<1>2. PICK s \in Bad : \A t \in Bad : t \subseteq s => t = s
  <2>1. Bad \subseteq SUBSET S
    OBVIOUS
  <2> HIDE DEF Bad
  <2> QED BY <1>1, <2>1, SmallestSet
<1>3. s \subseteq S /\ Sum(f, s) \notin Nat /\ IsFiniteSet(s)
  BY <1>2, FS_Subset
<1>4. s # {}
  BY <1>3, SumUnfolds
<1>5. Without(s) \notin Bad /\ Without(s) \in SUBSET S /\ Chosen(s) \in S
  BY <1>2, <1>3, <1>4, ChosenIn
<1>6. Sum(f, Without(s)) \in Nat /\ f[Chosen(s)] \in Nat
  BY <1>5 DEF Natural
<1> QED
  BY <1>3, <1>4, <1>6, SumUnfolds

\* Any element may be taken out first.
LEMMA SumRemoves ==
  ASSUME NEW S, IsFiniteSet(S), NEW f, Natural(f, S), NEW x \in S
  PROVE  Sum(f, S) = f[x] + Sum(f, S \ {x})
<1> DEFINE Bad == {s \in SUBSET S : \E y \in s : Sum(f, s) # f[y] + Sum(f, s \ {y})}
<1>1. SUFFICES ASSUME Bad # {} PROVE FALSE
  <2>1. S \in SUBSET S
    OBVIOUS
  <2> QED BY <2>1
<1>2. PICK s \in Bad : \A t \in Bad : t \subseteq s => t = s
  <2>1. Bad \subseteq SUBSET S
    OBVIOUS
  <2> HIDE DEF Bad
  <2> QED BY <1>1, <2>1, SmallestSet
<1>3. PICK y \in s : Sum(f, s) # f[y] + Sum(f, s \ {y})
  BY <1>2
<1> DEFINE c == Chosen(s)
           w == s \ {y, c}
<1>4. s \subseteq S /\ IsFiniteSet(s) /\ IsFiniteSet(w) /\ w \subseteq S
  BY <1>2, FS_Subset
<1>5. c \in s /\ Sum(f, s) = f[c] + Sum(f, s \ {c})
  <2>1. s # {} /\ Without(s) = s \ {c}
    BY <1>3 DEF Without
  <2> QED BY <1>4, <2>1, SumUnfolds, ChosenIn
<1> HIDE DEF c
<1>6. c # y
  BY <1>3, <1>5
<1>7. Sum(f, s \ {c}) = f[y] + Sum(f, w)
  <2>1. s \ {c} \notin Bad /\ s \ {c} \in SUBSET S /\ y \in s \ {c}
    BY <1>2, <1>3, <1>4, <1>5, <1>6
  <2>2. (s \ {c}) \ {y} = w
    OBVIOUS
  <2> QED BY <2>1, <2>2
<1>8. Sum(f, s \ {y}) = f[c] + Sum(f, w)
  <2>1. s \ {y} \notin Bad /\ s \ {y} \in SUBSET S /\ c \in s \ {y}
    BY <1>2, <1>3, <1>4, <1>5, <1>6
  <2>2. (s \ {y}) \ {c} = w
    OBVIOUS
  <2> QED BY <2>1, <2>2
<1>9. f[y] \in Nat /\ f[c] \in Nat /\ Sum(f, w) \in Nat
  <2>1. Natural(f, w)
    BY <1>4 DEF Natural
  <2> QED BY <1>4, <1>5, <2>1, SumNat DEF Natural
<1> QED
  BY <1>3, <1>5, <1>7, <1>8, <1>9

LEMMA SumAdds ==
  ASSUME NEW S, IsFiniteSet(S), NEW f, NEW x, x \notin S, Natural(f, S \union {x})
  PROVE  IsFiniteSet(S \union {x}) /\ Sum(f, S \union {x}) = f[x] + Sum(f, S)
<1>1. IsFiniteSet(S \union {x}) /\ (S \union {x}) \ {x} = S
  BY FS_AddElement
<1> QED
  BY <1>1, SumRemoves

LEMMA SumOfNothing == \A f : Sum(f, {}) = 0
  BY SumUnfolds, FS_EmptySet

LEMMA SumJoins ==
  ASSUME NEW S, IsFiniteSet(S), NEW T, IsFiniteSet(T), S \intersect T = {},
         NEW f, Natural(f, S \union T)
  PROVE  /\ IsFiniteSet(S \union T) /\ Sum(f, S \union T) = Sum(f, S) + Sum(f, T)
         /\ Sum(f, S) \in Nat /\ Sum(f, T) \in Nat
<1>0. Sum(f, S) \in Nat /\ Sum(f, T) \in Nat /\ IsFiniteSet(S \union T)
  BY SumNat, FS_Union DEF Natural
<1> DEFINE Bad == {t \in SUBSET T : Sum(f, S \union t) # Sum(f, S) + Sum(f, t)}
<1>1. SUFFICES ASSUME Bad # {} PROVE FALSE
  <2>1. T \in SUBSET T
    OBVIOUS
  <2> QED BY <1>0, <2>1
<1>2. PICK t \in Bad : \A u \in Bad : u \subseteq t => u = t
  <2>1. Bad \subseteq SUBSET T
    OBVIOUS
  <2> HIDE DEF Bad
  <2> QED BY <1>1, <2>1, SmallestSet
<1>3. t \subseteq T /\ IsFiniteSet(t) /\ Sum(f, S \union t) # Sum(f, S) + Sum(f, t)
  BY <1>2, FS_Subset
<1>4. PICK x \in t : TRUE
  <2>1. CASE t = {}
    <3>1. S \union t = S
      BY <2>1
    <3> QED BY <1>0, <1>3, <2>1, <3>1, SumOfNothing
  <2> QED BY <2>1
<1> DEFINE u == t \ {x}
<1>5. Sum(f, S \union u) = Sum(f, S) + Sum(f, u)
  BY <1>2, <1>3, <1>4
<1>6. IsFiniteSet(u) /\ IsFiniteSet(S \union u) /\ Natural(f, u) /\ f[x] \in Nat
  BY <1>3, <1>4, FS_Subset, FS_Union DEF Natural
<1>7. x \notin u /\ x \notin S \union u /\ t = u \union {x} /\ S \union t = (S \union u) \union {x}
  BY <1>3, <1>4
<1>8. Natural(f, u \union {x}) /\ Natural(f, (S \union u) \union {x})
  BY <1>3, <1>4 DEF Natural
<1> HIDE DEF u
<1>9. Sum(f, t) = f[x] + Sum(f, u) /\ Sum(f, S \union t) = f[x] + Sum(f, S \union u)
  BY <1>6, <1>7, <1>8, SumAdds
<1> QED
  BY <1>0, <1>3, <1>5, <1>6, <1>9, SumNat

LEMMA SumGrows ==
  ASSUME NEW T, IsFiniteSet(T), NEW S, S \subseteq T, NEW f, Natural(f, T)
  PROVE  /\ IsFiniteSet(S) /\ Sum(f, S) \in Nat /\ Sum(f, T) \in Nat
         /\ Sum(f, S) <= Sum(f, T)
<1>1. IsFiniteSet(S) /\ IsFiniteSet(T \ S) /\ S \intersect (T \ S) = {} /\ S \union (T \ S) = T
  BY FS_Subset
<1>2. Natural(f, S \union (T \ S))
  BY <1>1
<1>3. /\ Sum(f, S \union (T \ S)) = Sum(f, S) + Sum(f, T \ S)
      /\ Sum(f, S) \in Nat /\ Sum(f, T \ S) \in Nat
  BY <1>1, <1>2, SumJoins
<1>4. Sum(f, T) = Sum(f, S) + Sum(f, T \ S)
  BY <1>1, <1>3, Zenon
<1> QED
  BY <1>1, <1>3, <1>4

LEMMA SumSame ==
  ASSUME NEW S, IsFiniteSet(S), NEW f, NEW g, \A x \in S : f[x] = g[x]
  PROVE  Sum(f, S) = Sum(g, S)
<1> DEFINE Bad == {s \in SUBSET S : Sum(f, s) # Sum(g, s)}
<1>1. SUFFICES ASSUME Bad # {} PROVE FALSE
  <2>1. S \in SUBSET S
    OBVIOUS
  <2> QED BY <2>1
<1>2. PICK s \in Bad : \A t \in Bad : t \subseteq s => t = s
  <2>1. Bad \subseteq SUBSET S
    OBVIOUS
  <2> HIDE DEF Bad
  <2> QED BY <1>1, <2>1, SmallestSet
<1>3. s \subseteq S /\ Sum(f, s) # Sum(g, s) /\ IsFiniteSet(s)
  BY <1>2, FS_Subset
<1>4. s # {}
  BY <1>3, SumUnfolds
<1>5. Without(s) \notin Bad /\ Without(s) \in SUBSET S /\ Chosen(s) \in S
  BY <1>2, <1>3, <1>4, ChosenIn
<1> QED
  BY <1>3, <1>4, <1>5, SumUnfolds

-----------------------------------------------------------------------------
(* The total of allocations.                                                 *)

AmountOf == [a \in Allocation |-> a.amount]

LEMMA AllocationType ==
  ASSUME NEW a \in Allocation
  PROVE  /\ a.receipt \in Receipts /\ a.version \in Nat /\ a.order \in Orders /\ a.schedule \in Nat
         /\ a.amount \in Nat \ {0} /\ a.index \in Nat /\ a.kind \in Kinds
         /\ AmountOf[a] = a.amount
  BY DEF Allocation, AmountOf, Versions

LEMMA AmountsAreNatural ==
  ASSUME NEW rows, rows \subseteq Allocation
  PROVE  Natural(AmountOf, rows)
  BY AllocationType DEF Natural

\* Total folds over the rows themselves; it is the sum of their amounts.
LEMMA TotalIsSum ==
  ASSUME NEW rows, IsFiniteSet(rows), rows \subseteq Allocation
  PROVE  Total(rows) = Sum(AmountOf, rows)
<1> DEFINE Is(g) == g = [s \in SUBSET rows |-> IF s = {} THEN 0 ELSE Chosen(s).amount + g[Without(s)]]
<1>1. Total(rows) = (CHOOSE g : Is(g))[rows]
  BY Zenon DEF Total, MapThenSumSet, MapThenFoldSet, Chosen, Without
<1>2. \A g : Is(g) <=> IsSum(g, AmountOf, rows)
  <2> TAKE g
  <2>1. \A s \in SUBSET rows : s # {} => Chosen(s).amount = AmountOf[Chosen(s)]
    BY ChosenIn, AllocationType
  <2>2.   [s \in SUBSET rows |-> IF s = {} THEN 0 ELSE Chosen(s).amount + g[Without(s)]]
        = [s \in SUBSET rows |-> IF s = {} THEN 0 ELSE AmountOf[Chosen(s)] + g[Without(s)]]
    BY <2>1
  <2> QED BY <2>2 DEF IsSum
<1> HIDE DEF Is
<1>3. PICK g : IsSum(g, AmountOf, rows)
  BY SumExists
<1>4. Is(CHOOSE h : Is(h))
  BY <1>2, <1>3
<1>5. IsSum(CHOOSE h : Is(h), AmountOf, rows)
  BY <1>2, <1>4
<1> QED
  BY <1>1, <1>5, SumIs

\* What the proofs below use of totals.
LEMMA TotalOfNothing == Total({}) = 0
  BY TotalIsSum, SumOfNothing, FS_EmptySet

LEMMA TotalNat ==
  ASSUME NEW rows, IsFiniteSet(rows), rows \subseteq Allocation
  PROVE  Total(rows) \in Nat
  BY TotalIsSum, AmountsAreNatural, SumNat

LEMMA TotalGrows ==
  ASSUME NEW rows, IsFiniteSet(rows), rows \subseteq Allocation, NEW part, part \subseteq rows
  PROVE  /\ IsFiniteSet(part) /\ Total(part) \in Nat /\ Total(rows) \in Nat
         /\ Total(part) <= Total(rows)
<1>1. part \subseteq Allocation /\ Natural(AmountOf, rows) /\ IsFiniteSet(part)
  BY AmountsAreNatural, FS_Subset
<1> QED
  BY <1>1, TotalIsSum, SumGrows

LEMMA TotalJoins ==
  ASSUME NEW old, IsFiniteSet(old), old \subseteq Allocation,
         NEW new, IsFiniteSet(new), new \subseteq Allocation, old \intersect new = {}
  PROVE  /\ IsFiniteSet(old \union new) /\ Total(old \union new) = Total(old) + Total(new)
         /\ Total(old) \in Nat /\ Total(new) \in Nat
<1>1. old \union new \subseteq Allocation /\ Natural(AmountOf, old \union new)
  BY AmountsAreNatural
<1> QED
  BY <1>1, TotalIsSum, SumJoins

LEMMA TotalOfOne ==
  ASSUME NEW a \in Allocation
  PROVE  IsFiniteSet({a}) /\ Total({a}) = a.amount
<1>1. /\ {} \union {a} = {a} /\ a \notin {} /\ IsFiniteSet({}) /\ {a} \subseteq Allocation
      /\ Natural(AmountOf, {} \union {a})
  BY FS_EmptySet, AmountsAreNatural
<1>2. IsFiniteSet({} \union {a}) /\ Sum(AmountOf, {} \union {a}) = AmountOf[a] + Sum(AmountOf, {})
  BY <1>1, SumAdds
<1> QED
  BY <1>1, <1>2, SumOfNothing, TotalIsSum, AllocationType

\* Rows that are made from the members of a set, each from one, have the sum
\* of what they are made with.
LEMMA TotalOfMade ==
  ASSUME NEW S, IsFiniteSet(S), NEW f, NEW made,
         \A x \in S : made[x] \in Allocation /\ made[x].amount = f[x],
         \A x, y \in S : made[x] = made[y] => x = y
  PROVE  IsFiniteSet({made[x] : x \in S}) /\ Total({made[x] : x \in S}) = Sum(f, S)
<1> DEFINE Rows(s) == {made[x] : x \in s}
           Bad == {s \in SUBSET S : ~ (IsFiniteSet(Rows(s)) /\ Total(Rows(s)) = Sum(f, s))}
<1>1. SUFFICES ASSUME Bad # {} PROVE FALSE
  <2>1. S \in SUBSET S
    OBVIOUS
  <2> QED BY <2>1
<1>2. PICK s \in Bad : \A t \in Bad : t \subseteq s => t = s
  <2>1. Bad \subseteq SUBSET S
    OBVIOUS
  <2> HIDE DEF Bad
  <2> QED BY <1>1, <2>1, SmallestSet
<1>3. s \subseteq S /\ IsFiniteSet(s) /\ ~ (IsFiniteSet(Rows(s)) /\ Total(Rows(s)) = Sum(f, s))
  BY <1>2, FS_Subset
<1>4. PICK x \in s : TRUE
  <2>1. CASE s = {}
    <3>1. Rows(s) = {}
      BY <2>1
    <3> QED BY <1>3, <2>1, <3>1, SumOfNothing, TotalOfNothing, FS_EmptySet
  <2> QED BY <2>1
<1> DEFINE u == s \ {x}
<1>5. IsFiniteSet(Rows(u)) /\ Total(Rows(u)) = Sum(f, u)
  <2>1. u \in SUBSET S /\ u \subseteq s /\ u # s
    BY <1>3, <1>4
  <2>2. u \notin Bad
    BY <1>2, <2>1
  <2> HIDE DEF Rows, u
  <2> QED BY <2>1, <2>2
<1>6. Rows(s) = Rows(u) \union {made[x]} /\ Rows(u) \intersect {made[x]} = {} /\ Rows(s) \subseteq Allocation
  <2>1. Rows(s) = Rows(u) \union {made[x]}
    BY <1>4
  <2>2. made[x] \notin Rows(u)
    BY <1>3, <1>4
  <2>3. Rows(s) \subseteq Allocation
    BY <1>3
  <2> HIDE DEF Rows, u
  <2> QED BY <2>1, <2>2, <2>3
<1>7. made[x] \in Allocation /\ f[x] = made[x].amount /\ Natural(f, s)
  BY <1>3, <1>4, AllocationType DEF Natural
<1>8. Sum(f, s) = f[x] + Sum(f, u) /\ Sum(f, u) \in Nat
  <2>1. IsFiniteSet(u) /\ Natural(f, u)
    BY <1>3, <1>7, FS_Subset DEF Natural
  <2> QED BY <1>3, <1>4, <1>7, <2>1, SumRemoves, SumNat
<1> HIDE DEF Rows, u
<1>9. /\ IsFiniteSet(Rows(u) \union {made[x]})
      /\ Total(Rows(u) \union {made[x]}) = Total(Rows(u)) + Total({made[x]})
  BY <1>5, <1>6, <1>7, TotalOfOne, TotalJoins
<1>10. IsFiniteSet(Rows(s)) /\ Total(Rows(s)) = Sum(f, u) + f[x]
  BY <1>5, <1>6, <1>7, <1>9, TotalOfOne
<1> QED
  BY <1>3, <1>7, <1>8, <1>10, AllocationType

-----------------------------------------------------------------------------
(* allocatePaymentAmount.                                                    *)

LEMMA RestIs ==
  ASSUME NEW amount \in Nat, NEW rows, IsFiniteSet(rows), rows \subseteq Allocation
  PROVE  /\ Rest(amount, rows) \in Nat /\ Total(rows) \in Nat
         /\ Rest(amount, rows) > 0 => Rest(amount, rows) + Total(rows) = amount
         /\ Rest(amount, rows) = 0 <=> Total(rows) >= amount
  BY TotalNat DEF Rest

\* The allocations that count against a schedule.
Paying(rows, o, s) == {a \in rows : a.order = o /\ a.schedule = s}

LEMMA SchedulesOf ==
  ASSUME NEW o \in Orders
  PROVE  /\ Len(Plan[o]) \in Nat /\ Schedules(o) = 1..Len(Plan[o]) /\ IsFiniteSet(Schedules(o))
         /\ \A s \in Schedules(o) : Plan[o][s] \in Nat \ {0}
<1>1. Plan[o] \in Seq(Nat \ {0})
  BY LedgerAssumption
<1>2. Len(Plan[o]) \in Nat /\ \A s \in 1..Len(Plan[o]) : Plan[o][s] \in Nat \ {0}
  BY <1>1
<1> QED
  BY <1>2, FS_Interval DEF Schedules

LEMMA BalanceIs ==
  ASSUME NEW rows, IsFiniteSet(rows), rows \subseteq Allocation,
         NEW o \in Orders, NEW s \in Schedules(o)
  PROVE  /\ Balance(rows, o, s) \in Nat /\ Total(Paying(rows, o, s)) \in Nat
         /\ Balance(rows, o, s) > 0 => Balance(rows, o, s) + Total(Paying(rows, o, s)) = Plan[o][s]
<1>1. IsFiniteSet(Paying(rows, o, s)) /\ Paying(rows, o, s) \subseteq Allocation
  BY FS_Subset DEF Paying
<1>2. Plan[o][s] \in Nat
  BY SchedulesOf
<1>3. Balance(rows, o, s) = Rest(Plan[o][s], Paying(rows, o, s))
  BY DEF Balance, Paying
<1> QED
  BY <1>1, <1>2, <1>3, RestIs

Balances(rows, o) == [t \in Schedules(o) |-> Balance(rows, o, t)]

Shares(rows, o, amount) == [s \in Schedules(o) |-> Share(rows, o, s, amount)]

\* A schedule gets no more than its balance, and no more than the schedules
\* before it leave.
LEMMA ShareIs ==
  ASSUME NEW rows, IsFiniteSet(rows), rows \subseteq Allocation,
         NEW o \in Orders, NEW s \in Schedules(o), NEW amount \in Nat
  PROVE  LET before == Sum(Balances(rows, o), 1..(s - 1))
             share  == Share(rows, o, s, amount)
         IN /\ before \in Nat /\ share \in Nat /\ share <= Balance(rows, o, s)
            /\ before >= amount => share = 0
            /\ before < amount => before + share <= amount
<1> DEFINE before == Sum(Balances(rows, o), 1..(s - 1))
           prefix == [t \in 1..(s - 1) |-> Balance(rows, o, t)]
           balance == Balance(rows, o, s)
<1>1. s \in Nat \ {0} /\ IsFiniteSet(1..(s - 1)) /\ 1..(s - 1) \subseteq Schedules(o)
  <2>1. s \in Nat \ {0} /\ s - 1 \in Int /\ 1..(s - 1) \subseteq Schedules(o)
    BY SchedulesOf
  <2> QED BY <2>1, FS_Interval
<1>2. \A t \in 1..(s - 1) : prefix[t] = Balances(rows, o)[t] /\ prefix[t] \in Nat
  BY <1>1, BalanceIs DEF Balances
<1>3. Sum(prefix, 1..(s - 1)) = before
  BY <1>1, <1>2, SumSame
<1>4. before \in Nat
  BY <1>1, <1>2, SumNat DEF Natural
<1>5. balance \in Nat
  BY BalanceIs
<1>6. Share(rows, o, s, amount)
        = LET left == IF before < amount THEN amount - before ELSE 0
          IN IF left < balance THEN left ELSE balance
  BY <1>3 DEF Share
<1> HIDE DEF before, balance
<1>7. /\ Share(rows, o, s, amount) \in Nat /\ Share(rows, o, s, amount) <= balance
      /\ before >= amount => Share(rows, o, s, amount) = 0
      /\ before < amount => before + Share(rows, o, s, amount) <= amount
  BY <1>4, <1>5, <1>6
<1> QED
  BY <1>4, <1>7 DEF before, balance

Paid(rows, o, amount) == {s \in Schedules(o) : Shares(rows, o, amount)[s] > 0}

\* The shares of all schedules together are no more than the amount.
LEMMA SharesFit ==
  ASSUME NEW rows, IsFiniteSet(rows), rows \subseteq Allocation,
         NEW o \in Orders, NEW amount \in Nat
  PROVE  LET share == Shares(rows, o, amount)
             paid  == Paid(rows, o, amount)
         IN IsFiniteSet(paid) /\ Sum(share, paid) \in Nat /\ Sum(share, paid) <= amount
<1> DEFINE share == Shares(rows, o, amount)
           paid  == Paid(rows, o, amount)
           b     == Balances(rows, o)
           N     == Len(Plan[o])
           Upto(n) == {s \in paid : s <= n}
           Fits(n) == Sum(share, Upto(n)) <= amount /\ Sum(share, Upto(n)) <= Sum(b, 1..n)
           Bad   == {n \in 0..N : ~ Fits(n)}
<1>1. N \in Nat /\ Schedules(o) = 1..N /\ IsFiniteSet(Schedules(o))
  BY SchedulesOf
<1>2. \A s \in Schedules(o) : b[s] \in Nat /\ b[s] = Balance(rows, o, s)
  BY BalanceIs DEF Balances
<1>3. \A s \in Schedules(o) :
        /\ share[s] \in Nat /\ share[s] <= b[s]
        /\ Sum(b, 1..(s - 1)) >= amount => share[s] = 0
        /\ Sum(b, 1..(s - 1)) < amount => Sum(b, 1..(s - 1)) + share[s] <= amount
  BY <1>2, ShareIs DEF Shares
<1>4. paid \subseteq Schedules(o) /\ IsFiniteSet(paid) /\ \A s \in Schedules(o) \ paid : share[s] = 0
  BY <1>1, <1>3, FS_Subset DEF Paid
<1>5. Natural(share, Schedules(o)) /\ Natural(b, Schedules(o))
  BY <1>2, <1>3 DEF Natural
<1> HIDE DEF share, paid, b, N
<1>6. \A n \in 0..N :
        /\ Upto(n) \subseteq Schedules(o) /\ IsFiniteSet(Upto(n)) /\ Sum(share, Upto(n)) \in Nat
        /\ 1..n \subseteq Schedules(o) /\ IsFiniteSet(1..n) /\ Sum(b, 1..n) \in Nat
  <2> TAKE n \in 0..N
  <2>1. Upto(n) \subseteq Schedules(o) /\ 1..n \subseteq Schedules(o)
    BY <1>1, <1>4
  <2> HIDE DEF Upto
  <2>2. Natural(share, Upto(n)) /\ Natural(b, 1..n)
    BY <1>5, <2>1 DEF Natural
  <2> QED BY <1>1, <2>1, <2>2, FS_Subset, SumNat
<1>7. Bad = {}
  <2> SUFFICES ASSUME Bad # {} PROVE FALSE
    OBVIOUS
  <2>1. PICK n \in Bad : \A j \in Bad : n <= j
    <3>1. Bad \subseteq 0..N
      OBVIOUS
    <3> HIDE DEF Bad
    <3> QED BY <1>1, <3>1, SmallestNumber
  <2>2. n \in 0..N /\ ~ Fits(n)
    BY <2>1
  <2>3. CASE n = 0
    <3>1. Upto(0) = {} /\ 1..0 = {}
      BY <1>1, <1>4
    <3>2. Sum(share, Upto(0)) = 0 /\ Sum(b, 1..0) = 0
      BY <3>1, SumOfNothing
    <3> HIDE DEF Upto
    <3> QED BY <2>2, <2>3, <3>2
  <2>4. CASE n # 0
    <3>1. n - 1 \in 0..N /\ n \in Schedules(o) /\ n \in Nat
      BY <1>1, <2>2, <2>4
    <3>2. Fits(n - 1)
      BY <2>1, <3>1
    <3>3. 1..n = (1..(n - 1)) \union {n} /\ n \notin 1..(n - 1)
      BY <3>1
    <3>4. Sum(b, 1..n) = b[n] + Sum(b, 1..(n - 1))
      <4>1. Natural(b, (1..(n - 1)) \union {n})
        BY <1>5, <1>6, <3>1 DEF Natural
      <4> QED BY <1>6, <3>1, <3>3, <4>1, SumAdds
    <3>0. \A s \in paid : s <= n <=> s <= n - 1 \/ s = n
      BY <1>1, <1>4, <3>1
    <3>5. Sum(share, Upto(n)) = share[n] + Sum(share, Upto(n - 1))
      <4>1. CASE n \in paid
        <5>1. Upto(n) = Upto(n - 1) \union {n} /\ n \notin Upto(n - 1)
          <6>1. ~ (n <= n - 1)
            BY <3>1
          <6>2. \A s \in Upto(n - 1) \union {n} : s \in Upto(n)
            BY <3>0, <4>1
          <6>3. \A s \in Upto(n) : s \in Upto(n - 1) \union {n}
            BY <3>0
          <6>4. n \notin Upto(n - 1)
            BY <6>1
          <6> HIDE DEF Upto
          <6> QED BY <6>2, <6>3, <6>4
        <5>2. Natural(share, Upto(n - 1) \union {n})
          BY <1>5, <1>6, <3>1 DEF Natural
        <5> HIDE DEF Upto
        <5> QED BY <1>6, <3>1, <5>1, <5>2, SumAdds
      <4>2. CASE n \notin paid
        <5>1. Upto(n) = Upto(n - 1) /\ share[n] = 0
          <6>1. share[n] = 0
            BY <1>4, <3>1, <4>2
          <6> QED BY <3>0, <4>2, <6>1
        <5> HIDE DEF Upto
        <5> QED BY <1>6, <3>1, <5>1
      <4> QED BY <4>1, <4>2
    <3>6. /\ share[n] \in Nat /\ b[n] \in Nat /\ share[n] <= b[n]
          /\ Sum(b, 1..(n - 1)) >= amount => share[n] = 0
          /\ Sum(b, 1..(n - 1)) < amount => Sum(b, 1..(n - 1)) + share[n] <= amount
      BY <1>2, <1>3, <3>1
    <3>7. Sum(share, Upto(n - 1)) \in Nat /\ Sum(b, 1..(n - 1)) \in Nat
      BY <1>6, <3>1
    <3> HIDE DEF Upto
    <3> QED BY <2>2, <3>2, <3>4, <3>5, <3>6, <3>7
  <2> QED BY <2>3, <2>4
<1>8. Upto(N) = paid
  BY <1>1, <1>4
<1>9. Sum(share, paid) \in Nat /\ Sum(share, paid) <= amount
  <2>1. N \in 0..N /\ N \notin Bad
    BY <1>1, <1>7
  <2>2. Fits(N)
    BY <2>1
  <2> HIDE DEF Upto
  <2> QED BY <1>6, <1>8, <2>1, <2>2
<1> QED
  BY <1>4, <1>9 DEF share, paid

-----------------------------------------------------------------------------
(* applyToOrder.                                                             *)

\* The rows allocate the whole amount, and to a schedule at most what is left
\* to pay on it.
LEMMA AllocationAdds ==
  ASSUME NEW rows, IsFiniteSet(rows), rows \subseteq Allocation,
         NEW r \in Receipts, NEW v \in Nat, NEW o \in Orders, NEW amount \in Nat, NEW kind \in Kinds
  PROVE  LET new == ApplyToOrder(rows, r, v, o, amount, kind)
         IN /\ new \subseteq Allocation /\ IsFiniteSet(new) /\ Total(new) = amount
            /\ \A a \in new : a.receipt = r /\ a.version = v /\ a.order = o
            /\ \A s \in Schedules(o) :
                 Total({a \in new : a.schedule = s}) <= Balance(rows, o, s)
<1> DEFINE share == Shares(rows, o, amount)
           paid  == Paid(rows, o, amount)
           over  == amount - Sum(share, paid)
           place(s) == Cardinality({t \in paid : t < s})
           made  == [s \in paid |-> Row(r, v, o, s, share[s], place(s), kind)]
           rest  == IF over > 0 THEN {Row(r, v, o, 0, over, Cardinality(paid), kind)} ELSE {}
           shared == {made[s] : s \in paid}
           new   == ApplyToOrder(rows, r, v, o, amount, kind)
<1>1. new = shared \union rest
  BY DEF ApplyToOrder, Shares, Paid
<1>2. IsFiniteSet(paid) /\ Sum(share, paid) \in Nat /\ Sum(share, paid) <= amount
  BY SharesFit
<1>3. /\ paid \subseteq Schedules(o) /\ Schedules(o) \subseteq Nat \ {0}
      /\ \A s \in Schedules(o) : share[s] \in Nat /\ share[s] <= Balance(rows, o, s)
      /\ \A s \in paid : share[s] \in Nat \ {0}
  <2>1. \A s \in Schedules(o) : share[s] \in Nat /\ share[s] <= Balance(rows, o, s)
    BY ShareIs DEF Shares
  <2> QED BY <2>1, SchedulesOf DEF Paid
<1> HIDE DEF share, paid
<1>4. Cardinality(paid) \in Nat /\ \A s \in paid : place(s) \in Nat
  <2>1. \A s \in paid : IsFiniteSet({t \in paid : t < s})
    BY <1>2, FS_Subset
  <2> QED BY <1>2, <2>1, FS_CardinalityType
<1> HIDE DEF place
<1>5. \A s \in paid :
        /\ made[s] \in Allocation /\ made[s].amount = share[s] /\ made[s].schedule = s
        /\ made[s].receipt = r /\ made[s].version = v /\ made[s].order = o
  BY <1>3, <1>4 DEF Row, Allocation, Versions
<1>6. \A a \in rest :
        /\ a \in Allocation /\ a.amount = over /\ a.schedule = 0
        /\ a.receipt = r /\ a.version = v /\ a.order = o
  <2>1. over > 0 => over \in Nat \ {0}
    BY <1>2
  <2> HIDE DEF over
  <2> QED BY <1>4, <2>1 DEF Row, Allocation, Versions
<1>7. IsFiniteSet(rest) /\ rest \subseteq Allocation /\ Total(rest) = over
  <2>1. CASE over > 0
    <3> DEFINE a == Row(r, v, o, 0, over, Cardinality(paid), kind)
    <3>1. rest = {a} /\ a \in rest
      BY <2>1
    <3> HIDE DEF a
    <3> QED BY <1>6, <3>1, TotalOfOne
  <2>2. CASE ~ (over > 0)
    <3>1. over = 0
      BY <1>2, <2>2
    <3> QED BY <2>2, <3>1, TotalOfNothing, FS_EmptySet
  <2> QED BY <2>1, <2>2
<1> HIDE DEF made, over, rest
<1>8. IsFiniteSet(shared) /\ shared \subseteq Allocation /\ Total(shared) = Sum(share, paid)
  <2>1. \A s, t \in paid : made[s] = made[t] => s = t
    BY <1>5
  <2>2. shared \subseteq Allocation
    BY <1>5
  <2>3. \A s \in paid : made[s] \in Allocation /\ made[s].amount = share[s]
    BY <1>5
  <2>4. IsFiniteSet({made[s] : s \in paid}) /\ Total({made[s] : s \in paid}) = Sum(share, paid)
    BY <1>2, <2>1, <2>3, TotalOfMade, Zenon
  <2> QED BY <2>2, <2>4
<1>9. shared \intersect rest = {}
  <2>1. \A a \in shared : a.schedule # 0
    BY <1>3, <1>5
  <2> HIDE DEF shared
  <2> QED BY <1>6, <2>1
<1>10. /\ new \subseteq Allocation /\ IsFiniteSet(new)
       /\ Total(new) = Sum(share, paid) + over
  <2> HIDE DEF shared, new
  <2> QED BY <1>1, <1>7, <1>8, <1>9, TotalJoins
<1>11. Total(new) = amount
  <2> HIDE DEF new
  <2> QED BY <1>2, <1>10 DEF over
<1>12. \A a \in new : a.receipt = r /\ a.version = v /\ a.order = o
  <2>1. \A a \in shared : a.receipt = r /\ a.version = v /\ a.order = o
    BY <1>5
  <2> HIDE DEF shared, new
  <2> QED BY <1>1, <1>6, <2>1
<1>13. ASSUME NEW s \in Schedules(o)
       PROVE  Total({a \in new : a.schedule = s}) <= Balance(rows, o, s)
  <2>0. Balance(rows, o, s) \in Nat /\ s # 0
    BY <1>3, BalanceIs
  <2>1. CASE s \in paid
    <3>1. {a \in new : a.schedule = s} = {made[s]}
      <4>1. \A a \in shared : a.schedule = s => a = made[s]
        BY <1>5
      <4>2. made[s] \in shared /\ made[s].schedule = s
        BY <1>5, <2>1
      <4> HIDE DEF shared, new
      <4> QED BY <1>1, <1>6, <2>0, <4>1, <4>2
    <3>2. Total({made[s]}) = share[s]
      BY <1>5, <2>1, TotalOfOne
    <3> HIDE DEF new
    <3> QED BY <1>3, <3>1, <3>2
  <2>2. CASE s \notin paid
    <3>1. {a \in new : a.schedule = s} = {}
      <4>1. \A a \in shared : a.schedule # s
        BY <1>5, <2>2
      <4> HIDE DEF shared, new
      <4> QED BY <1>1, <1>6, <2>0, <4>1
    <3> HIDE DEF new
    <3> QED BY <2>0, <3>1, TotalOfNothing
  <2> QED BY <2>1, <2>2
<1> HIDE DEF new
<1> QED
  BY <1>10, <1>11, <1>12, <1>13 DEF new

-----------------------------------------------------------------------------
(* The invariant about money.                                                *)

\* There are finitely many rows, of documents that 1C has written; a receipt
\* without a row matches nothing, and a transaction reads its own receipt.
Known ==
  /\ applied \subseteq Allocation /\ IsFiniteSet(applied) /\ IsFiniteSet(invoiced)
  /\ commands \subseteq Keys
  /\ \A r \in Receipts : Written(r) <= MaxVersion[r]
  /\ \A a \in applied : a.version <= Written(a.receipt)
  /\ \A r \in Receipts : receipts[r].version = 0 => receipts[r].match = NoOrder
  /\ \A s \in Runs : \A a \in seen[s].originals : a.receipt = seen[s].receipt

MoneyInv == Known /\ AllocatedWithinItsVersion /\ SchedulesNeverOverpaid /\ MatchedMoneyIsAllocated

LEMMA KnownIsTyped == Shape /\ Known => TypeOK
<1> SUFFICES ASSUME Shape, Known PROVE TypeOK
  OBVIOUS
<1>1. seen \in [Runs -> Reading]
  <2>1. \A s \in Runs : seen[s] \in [receipt : Receipts, version : Nat, originals : SUBSET applied]
    BY DEF Shape
  <2>2. SUBSET applied \subseteq SUBSET Allocation
    BY DEF Known
  <2>3. \A s \in Runs : seen[s] \in Reading
    BY <2>1, <2>2 DEF Reading, Versions
  <2> QED BY <2>3 DEF Shape
<1> QED
  BY <1>1 DEF Shape, Known, TypeOK, Versions

LEMMA DocIs ==
  ASSUME Shape, NEW r \in Receipts
  PROVE  /\ Written(r) \in Nat
         /\ \A v \in 1..Written(r) :
              Doc(r, v) \in Fact /\ Doc(r, v).amount \in Nat /\ Doc(r, v).active \in BOOLEAN
<1>1. docs[r] \in Seq(Fact)
  BY DEF Shape
<1>2. Len(docs[r]) \in Nat /\ \A v \in 1..Len(docs[r]) : docs[r][v] \in Fact
  BY <1>1
<1> QED
  BY <1>2 DEF Written, Doc, Fact

\* The invariants for any set of rows that count.
At(live, r, v) == {a \in live : a.receipt = r /\ a.version = v}

Of(live, r) == {a \in live : a.receipt = r}

WithinDocs(live) ==
  \A r \in Receipts : \A v \in 1..Written(r) :
    At(live, r, v) # {} => Doc(r, v).active /\ Total(At(live, r, v)) <= Doc(r, v).amount

WithinPlans(live) ==
  \A o \in Orders : \A s \in Schedules(o) : Total(Paying(live, o, s)) <= Plan[o][s]

LEMMA InvariantsOfLive ==
  /\ AllocatedWithinItsVersion <=> WithinDocs(Live)
  /\ SchedulesNeverOverpaid <=> WithinPlans(Live)
  /\ AllocatedWithinItsVersion' <=> WithinDocs(Live)'
  /\ SchedulesNeverOverpaid' <=> WithinPlans(Live)'
<1>1. \A r, v : {a \in LiveOf(r) : a.version = v} = At(Live, r, v)
  BY DEF LiveOf, At
<1>2. \A r, v : {a \in LiveOf(r)' : a.version = v} = At(Live', r, v)
  BY DEF LiveOf, At
<1>3. /\ AllocatedWithinItsVersion <=> WithinDocs(Live)
      /\ SchedulesNeverOverpaid <=> WithinPlans(Live)
  BY <1>1 DEF AllocatedWithinItsVersion, SchedulesNeverOverpaid, WithinDocs, WithinPlans, Paying
<1>4. AllocatedWithinItsVersion' <=> WithinDocs(Live)'
  BY <1>2 DEF AllocatedWithinItsVersion, WithinDocs
<1>5. SchedulesNeverOverpaid' <=> WithinPlans(Live)'
  BY Zenon DEF SchedulesNeverOverpaid, WithinPlans, Paying
<1> QED
  BY <1>3, <1>4, <1>5

\* Reversals only make room.
LEMMA LessIsWithin ==
  ASSUME Shape, NEW live, IsFiniteSet(live), live \subseteq Allocation, NEW part, part \subseteq live
  PROVE  /\ WithinDocs(live) => WithinDocs(part)
         /\ WithinPlans(live) => WithinPlans(part)
<1>1. ASSUME WithinDocs(live), NEW r \in Receipts, NEW v \in 1..Written(r), At(part, r, v) # {}
      PROVE  Doc(r, v).active /\ Total(At(part, r, v)) <= Doc(r, v).amount
  <2>1. At(part, r, v) \subseteq At(live, r, v) /\ At(live, r, v) \subseteq live
    BY DEF At
  <2>2. /\ At(live, r, v) \subseteq Allocation /\ IsFiniteSet(At(live, r, v))
    BY <2>1, FS_Subset
  <2>3. /\ Total(At(part, r, v)) \in Nat /\ Total(At(live, r, v)) \in Nat
        /\ Total(At(part, r, v)) <= Total(At(live, r, v))
    BY <2>1, <2>2, TotalGrows
  <2>4. Doc(r, v).active /\ Total(At(live, r, v)) <= Doc(r, v).amount
    BY <1>1, <2>1 DEF WithinDocs
  <2> QED BY <2>3, <2>4, DocIs
<1>2. ASSUME WithinPlans(live), NEW o \in Orders, NEW s \in Schedules(o)
      PROVE  Total(Paying(part, o, s)) <= Plan[o][s]
  <2>1. Paying(part, o, s) \subseteq Paying(live, o, s) /\ Paying(live, o, s) \subseteq live
    BY DEF Paying
  <2>2. Paying(live, o, s) \subseteq Allocation /\ IsFiniteSet(Paying(live, o, s))
    BY <2>1, FS_Subset
  <2>3. /\ Total(Paying(part, o, s)) \in Nat /\ Total(Paying(live, o, s)) \in Nat
        /\ Total(Paying(part, o, s)) <= Total(Paying(live, o, s))
    BY <2>1, <2>2, TotalGrows
  <2>4. Total(Paying(live, o, s)) <= Plan[o][s] /\ Plan[o][s] \in Nat
    BY <1>2, SchedulesOf DEF WithinPlans
  <2> QED BY <2>3, <2>4
<1> QED
  BY <1>1, <1>2 DEF WithinDocs, WithinPlans

\* New rows stay within what the old ones leave of the document and of the
\* schedules.
LEMMA MoreIsWithin ==
  ASSUME Shape, NEW old, IsFiniteSet(old), old \subseteq Allocation, WithinDocs(old), WithinPlans(old),
         NEW new, IsFiniteSet(new), new \subseteq Allocation, old \intersect new = {},
         NEW r \in Receipts, NEW v \in 1..Written(r), Doc(r, v).active,
         \A a \in new : a.receipt = r /\ a.version = v,
         Total(new) <= Rest(Doc(r, v).amount, Of(old, r)), Total(new) > 0,
         \A o \in Orders : \A s \in Schedules(o) :
           Total(Paying(new, o, s)) <= Balance(old, o, s)
  PROVE  WithinDocs(old \union new) /\ WithinPlans(old \union new)
<1>1. ASSUME NEW q \in Receipts, NEW u \in 1..Written(q), At(old \union new, q, u) # {}
      PROVE  Doc(q, u).active /\ Total(At(old \union new, q, u)) <= Doc(q, u).amount
  <2>1. CASE q = r /\ u = v
    <3>1. At(old \union new, q, u) = At(old, r, v) \union new /\ At(old, r, v) \intersect new = {}
      BY <2>1 DEF At
    <3>2. At(old, r, v) \subseteq Of(old, r) /\ Of(old, r) \subseteq old
      BY DEF At, Of
    <3>3. IsFiniteSet(Of(old, r)) /\ Of(old, r) \subseteq Allocation
      BY <3>2, FS_Subset
    <3>4. /\ IsFiniteSet(At(old, r, v)) /\ At(old, r, v) \subseteq Allocation
          /\ Total(At(old, r, v)) <= Total(Of(old, r))
      BY <3>2, <3>3, TotalGrows
    <3>5. /\ Total(At(old, r, v) \union new) = Total(At(old, r, v)) + Total(new)
          /\ Total(At(old, r, v)) \in Nat /\ Total(new) \in Nat
      BY <3>1, <3>4, TotalJoins
    <3>6. Doc(r, v).amount \in Nat
      BY DocIs
    <3>7. /\ Total(Of(old, r)) \in Nat /\ Rest(Doc(r, v).amount, Of(old, r)) \in Nat
          /\ Rest(Doc(r, v).amount, Of(old, r)) > 0 =>
               Rest(Doc(r, v).amount, Of(old, r)) + Total(Of(old, r)) = Doc(r, v).amount
      BY <3>3, <3>6, RestIs
    <3>8. Total(At(old, r, v)) + Total(new) <= Doc(r, v).amount
      BY <3>4, <3>5, <3>6, <3>7
    <3>9. Total(At(old \union new, q, u)) <= Doc(q, u).amount
      BY <2>1, <3>1, <3>5, <3>8, Zenon
    <3> QED BY <2>1, <3>9
  <2>2. CASE ~ (q = r /\ u = v)
    <3>1. At(old \union new, q, u) = At(old, q, u)
      BY <2>2 DEF At
    <3> QED BY <1>1, <3>1 DEF WithinDocs
  <2> QED BY <2>1, <2>2
<1>2. ASSUME NEW o \in Orders, NEW s \in Schedules(o)
      PROVE  Total(Paying(old \union new, o, s)) <= Plan[o][s]
  <2>1. /\ Paying(old \union new, o, s) = Paying(old, o, s) \union Paying(new, o, s)
        /\ Paying(old, o, s) \intersect Paying(new, o, s) = {}
        /\ Paying(old, o, s) \subseteq old /\ Paying(new, o, s) \subseteq new
    BY DEF Paying
  <2>2. /\ IsFiniteSet(Paying(old, o, s)) /\ IsFiniteSet(Paying(new, o, s))
        /\ Paying(old, o, s) \subseteq Allocation /\ Paying(new, o, s) \subseteq Allocation
    BY <2>1, FS_Subset
  <2>3. /\ Total(Paying(old \union new, o, s)) = Total(Paying(old, o, s)) + Total(Paying(new, o, s))
        /\ Total(Paying(old, o, s)) \in Nat /\ Total(Paying(new, o, s)) \in Nat
    BY <2>1, <2>2, TotalJoins
  <2>4. /\ Balance(old, o, s) \in Nat
        /\ Balance(old, o, s) > 0 => Balance(old, o, s) + Total(Paying(old, o, s)) = Plan[o][s]
    BY BalanceIs
  <2>5. Total(Paying(old, o, s)) <= Plan[o][s] /\ Plan[o][s] \in Nat
    BY SchedulesOf DEF WithinPlans
  <2> QED BY <2>3, <2>4, <2>5
<1> QED
  BY <1>1, <1>2 DEF WithinDocs, WithinPlans

-----------------------------------------------------------------------------
(* A manual allocation, which may be split over several orders.              *)

\* Rows of an order that have a given total.
IsPart(rows, o, amount) ==
  /\ rows \subseteq Allocation /\ IsFiniteSet(rows) /\ Total(rows) = amount
  /\ \A a \in rows : a.order = o

Together(part, S) == UNION {part[o] : o \in S}

LEMMA TotalOfParts ==
  ASSUME NEW S, IsFiniteSet(S), NEW f, Natural(f, S), NEW part,
         \A o \in S : IsPart(part[o], o, f[o])
  PROVE  /\ Together(part, S) \subseteq Allocation /\ IsFiniteSet(Together(part, S))
         /\ Total(Together(part, S)) = Sum(f, S)
<1> DEFINE Rows(s) == Together(part, s)
           Bad == {s \in SUBSET S : ~ (IsFiniteSet(Rows(s)) /\ Total(Rows(s)) = Sum(f, s))}
<1>0. \A s \in SUBSET S : Rows(s) \subseteq Allocation
  BY DEF IsPart, Together
<1>1. SUFFICES ASSUME Bad # {} PROVE FALSE
  <2>1. S \in SUBSET S
    OBVIOUS
  <2>2. S \notin Bad => IsFiniteSet(Rows(S)) /\ Total(Rows(S)) = Sum(f, S)
    BY <2>1
  <2> QED BY <1>0, <2>1, <2>2
<1>2. PICK s \in Bad : \A t \in Bad : t \subseteq s => t = s
  <2>1. Bad \subseteq SUBSET S
    OBVIOUS
  <2> HIDE DEF Bad
  <2> QED BY <1>1, <2>1, SmallestSet
<1>3. s \subseteq S /\ IsFiniteSet(s) /\ ~ (IsFiniteSet(Rows(s)) /\ Total(Rows(s)) = Sum(f, s))
  BY <1>2, FS_Subset
<1>4. PICK o \in s : TRUE
  <2>1. CASE s = {}
    <3>1. Rows(s) = {}
      BY <2>1 DEF Together
    <3> QED BY <1>3, <2>1, <3>1, SumOfNothing, TotalOfNothing, FS_EmptySet
  <2> QED BY <2>1
<1> DEFINE u == s \ {o}
<1>5. IsFiniteSet(Rows(u)) /\ Total(Rows(u)) = Sum(f, u) /\ Rows(u) \subseteq Allocation
  <2>1. u \in SUBSET S /\ u \subseteq s /\ u # s
    BY <1>3, <1>4
  <2>2. u \notin Bad
    BY <1>2, <2>1
  <2>3. Rows(u) \subseteq Allocation
    BY <1>0, <2>1
  <2> HIDE DEF Rows, u
  <2> QED BY <2>1, <2>2, <2>3
<1>6. /\ part[o] \subseteq Allocation /\ IsFiniteSet(part[o]) /\ Total(part[o]) = f[o]
      /\ \A a \in part[o] : a.order = o
  BY <1>3, <1>4 DEF IsPart
<1>7. Rows(s) = Rows(u) \union part[o]
  BY <1>4 DEF Together
<1>8. Rows(u) \intersect part[o] = {}
  <2>1. \A a \in Rows(u) : a.order # o
    BY <1>3 DEF IsPart, Together
  <2> HIDE DEF Rows, u
  <2> QED BY <1>6, <2>1
<1>9. Sum(f, s) = f[o] + Sum(f, u) /\ Sum(f, u) \in Nat /\ f[o] \in Nat
  <2>1. IsFiniteSet(u) /\ Natural(f, u) /\ Natural(f, s) /\ f[o] \in Nat
    BY <1>3, <1>4, FS_Subset DEF Natural
  <2> QED BY <1>3, <1>4, <2>1, SumRemoves, SumNat
<1> HIDE DEF Rows, u
<1>10. /\ IsFiniteSet(Rows(u) \union part[o])
       /\ Total(Rows(u) \union part[o]) = Total(Rows(u)) + Total(part[o])
  BY <1>5, <1>6, <1>8, TotalJoins
<1> QED
  BY <1>3, <1>5, <1>6, <1>7, <1>9, <1>10

LEMMA TargetsAreNatural ==
  ASSUME NEW targets \in [Orders -> {0} \union Amounts]
  PROVE  \A o \in Orders : targets[o] \in Nat
<1>1. Amounts \subseteq Nat
  BY LedgerAssumption DEF Amounts, Fact
<1>2. \A x \in {0} \union Amounts : x \in Nat
  BY <1>1
<1>3. \A o \in Orders : targets[o] \in {0} \union Amounts
  OBVIOUS
<1> QED
  BY <1>2, <1>3, Zenon

ManualRows(live, r, v, targets) ==
  UNION {ApplyToOrder(live, r, v, o, targets[o], "manual") : o \in {p \in Orders : targets[p] > 0}}

LEMMA ManualAdds ==
  ASSUME NEW live, IsFiniteSet(live), live \subseteq Allocation, NEW r \in Receipts, NEW v \in Nat,
         NEW targets \in [Orders -> {0} \union Amounts],
         IsFiniteSet({o \in Orders : targets[o] > 0})
  PROVE  LET new    == ManualRows(live, r, v, targets)
             chosen == {o \in Orders : targets[o] > 0}
         IN /\ new \subseteq Allocation /\ IsFiniteSet(new) /\ Total(new) = Sum(targets, chosen)
            /\ Sum(targets, chosen) \in Nat
            /\ chosen # {} => Sum(targets, chosen) > 0
            /\ \A a \in new : a.receipt = r /\ a.version = v
            /\ \A o \in Orders : \A s \in Schedules(o) :
                 Total(Paying(new, o, s)) <= Balance(live, o, s)
<1> DEFINE chosen == {o \in Orders : targets[o] > 0}
           part == [o \in chosen |-> ApplyToOrder(live, r, v, o, targets[o], "manual")]
           new  == ManualRows(live, r, v, targets)
<1>1. \A o \in chosen : targets[o] \in Nat \ {0} /\ o \in Orders
  BY TargetsAreNatural
<1>2. \A o \in chosen :
        /\ part[o] \subseteq Allocation /\ IsFiniteSet(part[o]) /\ Total(part[o]) = targets[o]
        /\ \A a \in part[o] : a.receipt = r /\ a.version = v /\ a.order = o
        /\ \A s \in Schedules(o) : Total({a \in part[o] : a.schedule = s}) <= Balance(live, o, s)
  <2> TAKE o \in chosen
  <2>1. part[o] = ApplyToOrder(live, r, v, o, targets[o], "manual")
    OBVIOUS
  <2>2. "manual" \in Kinds /\ o \in Orders /\ targets[o] \in Nat
    BY <1>1 DEF Kinds
  <2> QED BY <2>1, <2>2, AllocationAdds
<1>3. new = Together(part, chosen)
  BY DEF ManualRows, Together
<1>4. Natural(targets, chosen)
  BY <1>1 DEF Natural
<1> HIDE DEF part, chosen, new
<1>5. IsFiniteSet(chosen)
  BY DEF chosen
<1>6. new \subseteq Allocation /\ IsFiniteSet(new) /\ Total(new) = Sum(targets, chosen)
  <2>1. \A o \in chosen : IsPart(part[o], o, targets[o])
    BY <1>2 DEF IsPart
  <2> QED BY <1>3, <1>4, <1>5, <2>1, TotalOfParts
<1>7. Sum(targets, chosen) \in Nat
  BY <1>4, <1>5, SumNat
<1>8. ASSUME chosen # {} PROVE Sum(targets, chosen) > 0
  <2>1. PICK o \in chosen : TRUE
    BY <1>8
  <2>2. Sum(targets, chosen) = targets[o] + Sum(targets, chosen \ {o})
    BY <1>4, <1>5, <2>1, SumRemoves
  <2>3. Sum(targets, chosen \ {o}) \in Nat
    BY <1>4, <1>5, SumGrows
  <2> QED BY <1>1, <2>1, <2>2, <2>3
<1>9. \A a \in new : a.receipt = r /\ a.version = v
  BY <1>2, <1>3 DEF Together
<1>10. ASSUME NEW o \in Orders, NEW s \in Schedules(o)
       PROVE  Total(Paying(new, o, s)) <= Balance(live, o, s)
  <2>1. CASE o \in chosen
    <3>1. Paying(new, o, s) = {a \in part[o] : a.schedule = s}
      BY <1>2, <1>3, <2>1 DEF Paying, Together
    <3> QED BY <1>2, <2>1, <3>1
  <2>2. CASE o \notin chosen
    <3>1. Paying(new, o, s) = {}
      BY <1>2, <1>3, <2>2 DEF Paying, Together
    <3> QED BY <3>1, TotalOfNothing, BalanceIs
  <2> QED BY <2>1, <2>2
<1> QED
  BY <1>6, <1>7, <1>8, <1>9, <1>10 DEF chosen, new

-----------------------------------------------------------------------------
(* Every step keeps the money.                                               *)

LEMMA LiveIs ==
  ASSUME Known
  PROVE  Live \subseteq applied /\ Live \subseteq Allocation /\ IsFiniteSet(Live)
<1>1. Live \subseteq applied
  BY DEF Live
<1> QED
  BY <1>1, FS_Subset DEF Known

LEMMA MatchedIs ==
  MatchedMoneyIsAllocated <=>
    \A r \in Receipts :
      AutoApply /\ receipts[r].match # NoOrder /\ Doc(r, receipts[r].version).active
        => Rest(Doc(r, receipts[r].version).amount, Of(Live, r)) = 0
<1>1. \A r : LiveOf(r) = Of(Live, r)
  BY DEF LiveOf, Of
<1> QED
  BY <1>1 DEF MatchedMoneyIsAllocated

LEMMA InitMoney == Init => MoneyInv
<1> SUFFICES ASSUME Init PROVE MoneyInv
  OBVIOUS
<1>1. applied = {} /\ Live = {}
  BY DEF Init, Live
<1>2. Known
  <2>1. \A r \in Receipts : Written(r) <= MaxVersion[r]
    BY LedgerAssumption DEF Init, Written
  <2> QED BY <1>1, <2>1, FS_EmptySet DEF Init, Known, NotStored, NoReading
<1>3. WithinDocs(Live)
  BY <1>1 DEF WithinDocs, At
<1>4. WithinPlans(Live)
  <2>1. \A o \in Orders : \A s \in Schedules(o) : Paying({}, o, s) = {} /\ Plan[o][s] \in Nat
    BY SchedulesOf DEF Paying
  <2> QED BY <1>1, <2>1, TotalOfNothing DEF WithinPlans
<1>5. MatchedMoneyIsAllocated
  BY DEF Init, NotStored, MatchedMoneyIsAllocated
<1> QED
  BY <1>2, <1>3, <1>4, <1>5, InvariantsOfLive DEF MoneyInv

\* A step that leaves 1C and the ledger alone.
LEMMA QuietMoney ==
  ASSUME MoneyInv, UNCHANGED <<docs, invoiced, ledger, commands>>,
         \A s \in Runs : \A a \in seen'[s].originals : a.receipt = seen'[s].receipt
  PROVE  MoneyInv'
<1>1. UNCHANGED <<receipts, applied, reversed>>
  BY DEF ledger
<1>2. Known'
  BY <1>1 DEF MoneyInv, Known, Written
<1>3. AllocatedWithinItsVersion' /\ SchedulesNeverOverpaid' /\ MatchedMoneyIsAllocated'
  BY <1>1 DEF MoneyInv, AllocatedWithinItsVersion, SchedulesNeverOverpaid, MatchedMoneyIsAllocated,
              LiveOf, Live, Doc, Written
<1> QED
  BY <1>2, <1>3 DEF MoneyInv

LEMMA OneCWritesMoney ==
  ASSUME IInv, MoneyInv, NEW r \in Receipts, OneCWrites(r)
  PROVE  MoneyInv'
<1>1. PICK fact \in Facts[r] : docs' = [docs EXCEPT ![r] = Append(@, fact)]
  BY DEF OneCWrites
<1>2. /\ UNCHANGED <<invoiced, receipts, applied, reversed, commands, seen>>
      /\ Written(r) < MaxVersion[r]
  BY DEF OneCWrites, ledger, memory
<1>3. fact \in Fact /\ \A q \in Receipts : docs[q] \in Seq(Fact) /\ MaxVersion[q] \in Nat
  BY LedgerAssumption DEF IInv, Shape
<1>4. /\ docs'[r] = Append(docs[r], fact) /\ \A q \in Receipts : q # r => docs'[q] = docs[q]
  BY <1>1 DEF IInv, Shape
<1>5. \A q \in Receipts : Written(q) \in Nat /\ Written(q)' \in Nat /\ Written(q) <= Written(q)'
  BY <1>3, <1>4 DEF Written
<1>6. \A q \in Receipts : \A v \in 1..Written(q) : Doc(q, v)' = Doc(q, v)
  BY <1>3, <1>4 DEF Written, Doc
<1>7. \A q \in Receipts : Written(q)' <= MaxVersion[q]
  <2>1. Written(r)' = Written(r) + 1
    BY <1>3, <1>4 DEF Written
  <2>2. \A q \in Receipts : q # r => Written(q)' = Written(q)
    BY <1>4 DEF Written
  <2> QED BY <1>2, <1>3, <1>5, <2>1, <2>2 DEF MoneyInv, Known
<1>8. \A a \in applied : a.receipt \in Receipts /\ a.version \in Nat /\ a.version <= Written(a.receipt)
  BY AllocationType DEF MoneyInv, Known
<1>9. Known'
  <2>1. \A a \in applied : a.version <= Written(a.receipt)'
    BY <1>5, <1>8
  <2> QED BY <1>2, <1>7, <2>1 DEF MoneyInv, Known
<1>10. Live' = Live
  BY <1>2 DEF Live
\* There are no rows of the new document yet.
<1>11. WithinDocs(Live)'
  <2> SUFFICES ASSUME NEW q \in Receipts, NEW v \in 1..Written(q)', At(Live, q, v) # {}
               PROVE  Doc(q, v)'.active /\ Total(At(Live, q, v)) <= Doc(q, v)'.amount
    BY <1>10 DEF WithinDocs, At
  <2>1. PICK a \in Live : a.receipt = q /\ a.version = v
    BY DEF At
  <2>2. v \in 1..Written(q)
    BY <1>5, <1>8, <2>1 DEF Live
  <2>3. WithinDocs(Live)
    BY InvariantsOfLive DEF MoneyInv
  <2> QED BY <1>6, <2>2, <2>3 DEF WithinDocs
<1>12. AllocatedWithinItsVersion'
  BY <1>11, InvariantsOfLive
<1>13. SchedulesNeverOverpaid'
  BY <1>10 DEF MoneyInv, SchedulesNeverOverpaid
<1>14. MatchedMoneyIsAllocated'
  <2> SUFFICES ASSUME NEW q \in Receipts, AutoApply, receipts[q].match # NoOrder,
                      Doc(q, receipts[q].version)'.active
               PROVE  Rest(Doc(q, receipts[q].version)'.amount, LiveOf(q)) = 0
    BY <1>2, <1>10 DEF MatchedMoneyIsAllocated, LiveOf
  <2>1. receipts[q].version \in 1..Written(q)
    <3>1. receipts[q].version \in Nat /\ receipts[q].version <= Written(q)
      BY DEF IInv, Shape, Stored, Versions, Behind
    <3>2. receipts[q].version # 0
      BY DEF MoneyInv, Known
    <3> QED BY <1>5, <3>1, <3>2
  <2>2. Doc(q, receipts[q].version)' = Doc(q, receipts[q].version)
    BY <1>2, <1>6, <2>1 DEF Doc
  <2> QED BY <1>2, <2>2 DEF MoneyInv, MatchedMoneyIsAllocated, Doc
<1> QED
  BY <1>9, <1>12, <1>13, <1>14 DEF MoneyInv

LEMMA InvoiceMovesMoney ==
  ASSUME MoneyInv, NEW o \in Orders, InvoiceMoves(o)
  PROVE  MoneyInv'
<1>1. IsFiniteSet(invoiced')
  BY FS_AddElement, FS_RemoveElement DEF InvoiceMoves, MoneyInv, Known
<1>2. UNCHANGED <<docs, receipts, applied, reversed, commands, seen>>
  BY DEF InvoiceMoves, ledger, memory
<1>3. Known'
  BY <1>1, <1>2 DEF MoneyInv, Known, Written
<1>4. AllocatedWithinItsVersion' /\ SchedulesNeverOverpaid' /\ MatchedMoneyIsAllocated'
  BY <1>2 DEF MoneyInv, AllocatedWithinItsVersion, SchedulesNeverOverpaid, MatchedMoneyIsAllocated,
              LiveOf, Live, Doc, Written
<1> QED
  BY <1>3, <1>4 DEF MoneyInv

\* New rows of a receipt are of an active document, are no more than its rest
\* and leave no schedule overpaid.
Fits(live, new, r, v) ==
  new # {} =>
    /\ Doc(r, v).active /\ Total(new) > 0
    /\ Total(new) <= Rest(Doc(r, v).amount, Of(live, r))
    /\ \A o \in Orders : \A s \in Schedules(o) :
         Total(Paying(new, o, s)) <= Balance(live, o, s)

TakesAll(live, new, r, v, match) ==
  AutoApply /\ match # NoOrder /\ Doc(r, v).active =>
    Total(new) >= Rest(Doc(r, v).amount, Of(live, r))

\* A transaction that reverses rows of a receipt and then allocates no more
\* than the rest of it; all of the rest, if the receipt is stored as matched.
LEMMA LedgerMoney ==
  ASSUME IInv, MoneyInv, UNCHANGED <<docs, invoiced>>, commands' \subseteq Keys,
         NEW r \in Receipts, NEW v \in 1..Written(r), NEW match, NEW kind,
         receipts' = [receipts EXCEPT ![r] = [version |-> v, match |-> match, kind |-> kind]],
         NEW gone, gone \subseteq applied, \A a \in gone : a.receipt = r,
         reversed' = reversed \union gone,
         NEW new, new \subseteq Allocation, IsFiniteSet(new), new \intersect applied = {},
         \A a \in new : a.receipt = r /\ a.version = v,
         applied' = applied \union new,
         Fits(Live \ gone, new, r, v), TakesAll(Live \ gone, new, r, v, match),
         \A s \in Runs : \A a \in seen'[s].originals : a.receipt = seen'[s].receipt
  PROVE  MoneyInv'
<1> DEFINE old == Live \ gone
<1>1. /\ Shape /\ Known /\ WithinDocs(Live) /\ WithinPlans(Live)
  BY InvariantsOfLive DEF IInv, MoneyInv
<1>2. old \subseteq Live /\ old \subseteq applied /\ old \subseteq Allocation /\ IsFiniteSet(old)
  BY <1>1, LiveIs, FS_Subset
<1>3. Live' = old \union new /\ old \intersect new = {}
  <2>1. reversed \subseteq applied
    BY <1>1 DEF Shape
  <2> QED BY <2>1 DEF Live
<1>4. WithinDocs(old) /\ WithinPlans(old)
  BY <1>1, <1>2, LiveIs, LessIsWithin
<1> HIDE DEF old
<1>5. WithinDocs(old \union new) /\ WithinPlans(old \union new)
  <2>1. CASE new = {}
    <3>1. old \union new = old
      BY <2>1
    <3> QED BY <1>4, <3>1
  <2>2. CASE new # {}
    BY <1>1, <1>2, <1>3, <1>4, <2>2, MoreIsWithin DEF old, Fits
  <2> QED BY <2>1, <2>2
<1>6. \A q \in Receipts : Written(q)' = Written(q)
  BY DEF Written
<1>7. \A q, u : Doc(q, u)' = Doc(q, u)
  BY DEF Doc
<1>8. AllocatedWithinItsVersion' /\ SchedulesNeverOverpaid'
  <2>1. WithinDocs(Live)'
    BY <1>3, <1>5, <1>6, <1>7 DEF WithinDocs, At
  <2>2. WithinPlans(Live)'
    BY <1>3, <1>5 DEF WithinPlans
  <2> QED BY <2>1, <2>2, InvariantsOfLive
<1>9. /\ receipts'[r].version = v /\ receipts'[r].match = match
      /\ \A q \in Receipts : q # r => receipts'[q] = receipts[q]
  BY <1>1 DEF Shape
<1>10. Known'
  <2>1. applied' \subseteq Allocation /\ IsFiniteSet(applied')
    BY <1>1, FS_Union DEF Known
  <2>2. \A a \in applied' : a.version <= Written(a.receipt)'
    BY <1>1, <1>6 DEF Known, Shape
  <2>3. \A q \in Receipts : receipts'[q].version = 0 => receipts'[q].match = NoOrder
    BY <1>1, <1>9 DEF Known
  <2>4. \A q \in Receipts : Written(q)' <= MaxVersion[q]
    BY <1>1, <1>6 DEF Known
  <2> QED BY <1>1, <2>1, <2>2, <2>3, <2>4 DEF Known
<1>11. MatchedMoneyIsAllocated'
  <2> SUFFICES ASSUME NEW q \in Receipts, AutoApply, receipts'[q].match # NoOrder,
                      Doc(q, receipts'[q].version).active
               PROVE  Rest(Doc(q, receipts'[q].version).amount, Of(Live', q)) = 0
    <3>1. \A q : LiveOf(q)' = Of(Live', q)
      BY DEF LiveOf, Of
    <3> QED BY <3>1 DEF MatchedMoneyIsAllocated, Doc
  <2>1. CASE q = r
    <3>1. /\ Of(Live', r) = Of(old, r) \union new /\ Of(old, r) \intersect new = {}
          /\ Of(old, r) \subseteq old
      BY <1>3 DEF Of
    <3>2. IsFiniteSet(Of(old, r)) /\ Of(old, r) \subseteq Allocation
      BY <1>2, <3>1, FS_Subset
    <3>3. /\ Total(Of(Live', r)) = Total(Of(old, r)) + Total(new)
          /\ Total(Of(old, r)) \in Nat /\ Total(new) \in Nat
          /\ IsFiniteSet(Of(Live', r)) /\ Of(Live', r) \subseteq Allocation
      BY <3>1, <3>2, TotalJoins
    <3>4. Doc(r, v).amount \in Nat
      BY <1>1, DocIs
    <3>5. Total(new) >= Rest(Doc(r, v).amount, Of(old, r))
      BY <1>9, <2>1 DEF old, TakesAll
    <3>6. /\ Rest(Doc(r, v).amount, Of(old, r)) \in Nat
          /\ Rest(Doc(r, v).amount, Of(old, r)) > 0 =>
               Rest(Doc(r, v).amount, Of(old, r)) + Total(Of(old, r)) = Doc(r, v).amount
          /\ Rest(Doc(r, v).amount, Of(old, r)) = 0 => Total(Of(old, r)) >= Doc(r, v).amount
      BY <3>2, <3>4, RestIs
    <3>7. Total(Of(Live', r)) >= Doc(r, v).amount
      BY <3>3, <3>4, <3>5, <3>6
    <3>8. Rest(Doc(r, v).amount, Of(Live', r)) = 0
      BY <3>3, <3>4, <3>7, RestIs
    <3> QED BY <1>9, <2>1, <3>8
  <2>2. CASE q # r
    <3>1. receipts'[q] = receipts[q]
      BY <1>9, <2>2
    <3>2. Of(Live', q) = Of(Live, q)
      BY <1>3, <2>2 DEF Of, old
    <3>3. Rest(Doc(q, receipts[q].version).amount, Of(Live, q)) = 0
      BY <3>1, MatchedIs DEF MoneyInv
    <3> QED BY <3>1, <3>2, <3>3
  <2> QED BY <2>1, <2>2
<1> QED
  BY <1>8, <1>10, <1>11 DEF MoneyInv

LEMMA ResolveMoney ==
  ASSUME IInv, MoneyInv, NEW k \in Keys, NEW r \in Receipts,
         NEW targets \in [Orders -> {0} \union Amounts], Resolve(k, r, targets)
  PROVE  MoneyInv'
<1> DEFINE v      == receipts[r].version
           chosen == {o \in Orders : targets[o] > 0}
           new    == ManualRows(Live, r, v, targets)
<1>1. /\ v # 0 /\ Doc(r, v).active /\ chosen # {} /\ chosen \subseteq invoiced
      /\ Sum(targets, chosen) <= Rest(Doc(r, v).amount, LiveOf(r))
      /\ new \intersect applied = {}
      /\ commands' = commands \union {k} /\ applied' = applied \union new
      /\ receipts' = [receipts EXCEPT ![r] = [version |-> v, match |-> NoOrder, kind |-> "manual"]]
      /\ UNCHANGED <<docs, invoiced, reversed, seen>>
  BY DEF Resolve, ManualRows, Fresh, onec, memory
<1>2. Shape /\ Known
  BY DEF IInv, MoneyInv
<1>3. v \in 1..Written(r) /\ v \in Nat
  BY <1>1, <1>2, DocIs DEF IInv, Behind, Shape, Stored, Versions
<1>4. IsFiniteSet(chosen)
  BY <1>1, <1>2, FS_Subset DEF Known
<1>5. Live \subseteq Allocation /\ IsFiniteSet(Live)
  BY <1>2, LiveIs
<1>6. /\ new \subseteq Allocation /\ IsFiniteSet(new)
      /\ Total(new) = Sum(targets, chosen) /\ Total(new) > 0
      /\ \A a \in new : a.receipt = r /\ a.version = v
      /\ \A o \in Orders : \A s \in Schedules(o) :
           Total(Paying(new, o, s)) <= Balance(Live, o, s)
  <2> HIDE DEF v
  <2> QED BY <1>1, <1>3, <1>4, <1>5, ManualAdds
<1>7. LiveOf(r) = Of(Live \ {}, r) /\ Live \ {} = Live
  BY DEF LiveOf, Of
<1>8. commands' \subseteq Keys
  BY <1>1, <1>2 DEF Known
<1>9. \A s \in Runs : \A a \in seen'[s].originals : a.receipt = seen'[s].receipt
  BY <1>1, <1>2 DEF Known
<1>10. reversed' = reversed \union {} /\ {} \subseteq applied /\ \A a \in {} : a.receipt = r
  BY <1>1
<1> HIDE DEF v, chosen, new
<1>11. Fits(Live \ {}, new, r, v)
  BY <1>1, <1>6, <1>7 DEF Fits
<1>12. TakesAll(Live \ {}, new, r, v, NoOrder)
  BY DEF TakesAll
<1> QED
  BY <1>1, <1>3, <1>6, <1>8, <1>9, <1>10, <1>11, <1>12, LedgerMoney

LEMMA CommitMoney ==
  ASSUME IInv, MoneyInv, NEW s \in Runs, Commit(s)
  PROVE  MoneyInv'
<1> DEFINE r    == seen[s].receipt
           task == plan[s][r]
           v    == task.version
           gone == Reversals(s, task)
           live == Live \ gone
           new  == AutoApplied(r, task, live)
           rest == Rest(Doc(r, v).amount, Of(live, r))
<1>1. Shape /\ Known /\ Fenced
  BY DEF IInv, MoneyInv
<1>2. /\ pc[s] = "tx" /\ new \intersect applied = {}
      /\ reversed' = reversed \union gone /\ applied' = applied \union new
      /\ receipts' = [receipts EXCEPT ![r] = [version |-> v, match |-> task.match, kind |-> "auto"]]
      /\ seen' = [seen EXCEPT ![s] = NoReading]
      /\ UNCHANGED <<docs, invoiced, commands>>
  BY DEF Commit, Fresh, onec
<1>3. r \in Receipts /\ task \in Task /\ v # 0
  BY <1>1, <1>2 DEF Shape, Fenced
<1>4. v \in 1..Written(r) /\ v \in Nat /\ task.match \in Orders \union {NoOrder}
  <2>1. v = pulled[s][r] /\ pulled[s][r] <= Written(r)
    BY <1>3 DEF IInv, Remaining, Behind
  <2>2. v \in Nat /\ task.match \in Orders \union {NoOrder}
    BY <1>3 DEF Task, Versions, Matches
  <2> HIDE DEF r, v
  <2> QED BY <1>1, <1>3, <2>1, <2>2, DocIs
<1>5. gone \subseteq applied /\ \A a \in gone : a.receipt = r
  <2>1. gone \subseteq seen[s].originals
    BY DEF Reversals
  <2>2. seen[s].originals \subseteq applied
    BY <1>1 DEF Shape
  <2> QED BY <1>1, <2>1, <2>2 DEF Known
<1>6. live \subseteq Allocation /\ IsFiniteSet(live)
  BY <1>1, LiveIs, FS_Subset
<1>7. new = IF ~AutoApply \/ ~Doc(r, v).active \/ task.match = NoOrder \/ rest = 0 THEN {}
            ELSE ApplyToOrder(live, r, v, task.match, rest, "auto")
  BY DEF AutoApplied, Of
<1>8. \A a \in seen'[s].originals : a.receipt = seen'[s].receipt
  BY <1>1, <1>2 DEF Shape, NoReading
<1>9. \A t \in Runs : \A a \in seen'[t].originals : a.receipt = seen'[t].receipt
  BY <1>1, <1>2, <1>8 DEF Shape, Known
<1> HIDE DEF r, task, v, gone, new
<1>10. rest \in Nat
  <2>1. IsFiniteSet(Of(live, r)) /\ Of(live, r) \subseteq Allocation /\ Doc(r, v).amount \in Nat
    BY <1>1, <1>3, <1>4, <1>6, DocIs, FS_Subset DEF Of
  <2> QED BY <2>1, RestIs
<1> HIDE DEF live, rest
<1>11. /\ new \subseteq Allocation /\ IsFiniteSet(new)
       /\ \A a \in new : a.receipt = r /\ a.version = v
       /\ Fits(live, new, r, v) /\ TakesAll(live, new, r, v, task.match)
  <2>1. CASE ~AutoApply \/ ~Doc(r, v).active \/ task.match = NoOrder \/ rest = 0
    <3>1. new = {}
      BY <1>7, <2>1
    <3>2. TakesAll(live, new, r, v, task.match)
      BY <2>1, <3>1, TotalOfNothing DEF TakesAll, rest
    <3> QED BY <3>1, <3>2, FS_EmptySet DEF Fits
  <2>2. CASE ~ (~AutoApply \/ ~Doc(r, v).active \/ task.match = NoOrder \/ rest = 0)
    <3>1. new = ApplyToOrder(live, r, v, task.match, rest, "auto") /\ Doc(r, v).active
      BY <1>7, <2>2
    <3>2. task.match \in Orders /\ rest > 0 /\ "auto" \in Kinds
      BY <1>4, <1>10, <2>2 DEF Kinds
    <3>3. /\ new \subseteq Allocation /\ IsFiniteSet(new) /\ Total(new) = rest
          /\ \A a \in new : a.receipt = r /\ a.version = v /\ a.order = task.match
          /\ \A sch \in Schedules(task.match) :
               Total({a \in new : a.schedule = sch}) <= Balance(live, task.match, sch)
      BY <1>3, <1>4, <1>6, <1>10, <3>1, <3>2, AllocationAdds
    <3>4. ASSUME NEW o \in Orders, NEW sch \in Schedules(o)
          PROVE  Total(Paying(new, o, sch)) <= Balance(live, o, sch)
      <4>1. CASE o = task.match
        <5>1. Paying(new, o, sch) = {a \in new : a.schedule = sch}
          BY <3>3, <4>1 DEF Paying
        <5> QED BY <3>3, <4>1, <5>1
      <4>2. CASE o # task.match
        <5>1. Paying(new, o, sch) = {}
          BY <3>3, <4>2 DEF Paying
        <5> QED BY <1>6, <5>1, TotalOfNothing, BalanceIs
      <4> QED BY <4>1, <4>2
    <3>5. Fits(live, new, r, v)
      BY <1>10, <3>1, <3>2, <3>3, <3>4 DEF Fits, rest
    <3>6. TakesAll(live, new, r, v, task.match)
      BY <1>10, <3>3 DEF TakesAll, rest
    <3> QED BY <3>3, <3>5, <3>6
  <2> QED BY <2>1, <2>2
<1>12. Fits(Live \ gone, new, r, v) /\ TakesAll(Live \ gone, new, r, v, task.match)
  BY <1>11 DEF live
<1>13. commands' \subseteq Keys
  BY <1>1, <1>2 DEF Known
<1> QED
  BY <1>2, <1>3, <1>4, <1>5, <1>9, <1>11, <1>12, <1>13, LedgerMoney

\* What a run keeps of its readings: those of others, its own or nothing, or
\* what it has just read of a receipt.
LEMMA SeenMoney ==
  ASSUME IInv, MoneyInv, NEW s \in Runs, UNCHANGED <<docs, invoiced, ledger, commands>>,
         \/ UNCHANGED seen
         \/ seen' = [seen EXCEPT ![s] = NoReading]
         \/ \E r \in Receipts :
              seen' = [seen EXCEPT ![s] = [receipt |-> r, version |-> receipts[r].version,
                                           originals |-> LiveOf(r)]]
  PROVE  MoneyInv'
<1>1. \A t \in Runs : \A a \in seen[t].originals : a.receipt = seen[t].receipt
  BY DEF MoneyInv, Known
<1>2. DOMAIN seen = Runs
  BY DEF IInv, Shape
<1>3. \A t \in Runs : \A a \in seen'[t].originals : a.receipt = seen'[t].receipt
  <2>1. CASE UNCHANGED seen
    BY <1>1, <2>1
  <2>2. CASE seen' = [seen EXCEPT ![s] = NoReading]
    BY <1>1, <1>2, <2>2 DEF NoReading
  <2>3. ASSUME NEW r \in Receipts,
               seen' = [seen EXCEPT ![s] = [receipt |-> r, version |-> receipts[r].version,
                                            originals |-> LiveOf(r)]]
        PROVE  \A t \in Runs : \A a \in seen'[t].originals : a.receipt = seen'[t].receipt
    <3>1. seen'[s].receipt = r /\ seen'[s].originals = LiveOf(r)
      BY <1>2, <2>3
    <3>2. \A t \in Runs : t # s => seen'[t] = seen[t]
      BY <1>2, <2>3
    <3> QED BY <1>1, <3>1, <3>2 DEF LiveOf
  <2> QED BY <2>1, <2>2, <2>3
<1> QED
  BY <1>3, QuietMoney

LEMMA NextMoney ==
  ASSUME IInv, MoneyInv, [Next]_vars
  PROVE  MoneyInv'
<1>1. CASE UNCHANGED vars
  <2>1. UNCHANGED <<docs, invoiced, ledger, commands, seen>>
    BY <1>1 DEF vars, onec, memory
  <2>2. \A s \in Runs : \A a \in seen'[s].originals : a.receipt = seen'[s].receipt
    BY <2>1 DEF MoneyInv, Known
  <2> QED BY <2>1, <2>2, QuietMoney
<1>2. CASE \E r \in Receipts : OneCWrites(r)
  BY <1>2, OneCWritesMoney
<1>3. CASE \E o \in Orders : InvoiceMoves(o)
  BY <1>3, InvoiceMovesMoney
<1>4. CASE \E k \in Keys, r \in Receipts, targets \in [Orders -> {0} \union Amounts] :
             Resolve(k, r, targets)
  BY <1>4, ResolveMoney
<1>5. CASE Lapse
  <2>1. UNCHANGED <<docs, invoiced, ledger, commands, seen>>
    BY <1>5 DEF Lapse, onec, memory
  <2>2. \A s \in Runs : \A a \in seen'[s].originals : a.receipt = seen'[s].receipt
    BY <2>1 DEF MoneyInv, Known
  <2> QED BY <2>1, <2>2, QuietMoney
<1>6. ASSUME NEW s \in Runs,
             \/ Claim(s) \/ Pull(s) \/ Compare(s) \/ Complete(s) \/ Fail(s)
             \/ Abort(s) \/ Crash(s)
             \/ \E r \in Receipts : Begin(s, r)
      PROVE  MoneyInv'
  <2>1. CASE Claim(s) \/ Pull(s) \/ Compare(s) \/ Complete(s) \/ Fail(s)
    <3>1. UNCHANGED <<docs, invoiced, ledger, commands, seen>>
      BY <2>1 DEF Claim, Pull, Compare, Complete, Fail, onec, memory
    <3> QED BY <3>1, SeenMoney
  <2>2. CASE Abort(s) \/ Crash(s)
    <3>1. UNCHANGED <<docs, invoiced, ledger, commands>> /\ seen' = [seen EXCEPT ![s] = NoReading]
      BY <2>2 DEF Abort, Crash, Forget, onec
    <3> QED BY <3>1, SeenMoney
  <2>3. CASE \E r \in Receipts : Begin(s, r)
    <3>1. PICK r \in Receipts : Begin(s, r)
      BY <2>3
    <3>2. /\ UNCHANGED <<docs, invoiced, ledger, commands>>
          /\ seen' = [seen EXCEPT ![s] = [receipt |-> r, version |-> receipts[r].version,
                                          originals |-> LiveOf(r)]]
      BY <3>1 DEF Begin, onec
    <3> QED BY <3>2, SeenMoney
  <2> QED BY <1>6, <2>1, <2>2, <2>3
<1>7. ASSUME NEW s \in Runs, Commit(s)
      PROVE  MoneyInv'
  BY <1>7, CommitMoney
<1> QED
  BY <1>1, <1>2, <1>3, <1>4, <1>5, <1>6, <1>7 DEF Next

-----------------------------------------------------------------------------
\* The rows are finitely many and of documents 1C has written, and the totals
\* agree with the documents, the schedules and the matches.
THEOREM MoneyInvariance == Spec => [](IInv /\ MoneyInv)
<1>1. Init => IInv /\ MoneyInv
  BY InitInvariant, InitMoney
<1>2. (IInv /\ MoneyInv) /\ [Next]_vars => (IInv /\ MoneyInv)'
  BY StepInvariant, NextMoney
<1> QED
  BY <1>1, <1>2, PTL DEF Spec

\* Every row the services write is a row of the schema: of a receipt and an
\* order that exist, with an amount above zero.
THEOREM TypeCorrect == Spec => []TypeOK
<1>1. IInv /\ MoneyInv => TypeOK
  BY KnownIsTyped DEF IInv, MoneyInv
<1> QED
  BY <1>1, MoneyInvariance, PTL

\* The money of one state of a receipt is not allocated twice, by managers and
\* syncs together (PAYMENT_ALLOCATION_EXCEEDS_RECEIPT), and none of it when the
\* receipt is not active.
THEOREM NeverBeyondItsVersion == Spec => []AllocatedWithinItsVersion
<1>1. IInv /\ MoneyInv => AllocatedWithinItsVersion
  BY DEF MoneyInv
<1> QED
  BY <1>1, MoneyInvariance, PTL

\* A schedule is not paid twice, whatever receipts, syncs and managers pay it
\* at the same time: allocatePaymentAmount sees what counts under the locks.
THEOREM NeverOverpaid == Spec => []SchedulesNeverOverpaid
<1>1. IInv /\ MoneyInv => SchedulesNeverOverpaid
  BY DEF MoneyInv
<1> QED
  BY <1>1, MoneyInvariance, PTL

\* A receipt that is stored as matched has no money left, also after it has
\* changed in 1C and what had been allocated of it was reversed.
THEOREM MatchedIsAllocated == Spec => []MatchedMoneyIsAllocated
<1>1. IInv /\ MoneyInv => MatchedMoneyIsAllocated
  BY DEF MoneyInv
<1> QED
  BY <1>1, MoneyInvariance, PTL

\* allocatePaymentAmount and the overpayment together allocate exactly the
\* amount, to a schedule never more than what is left to pay on it.
THEOREM AllocationIsExact ==
  ASSUME NEW rows, IsFiniteSet(rows), rows \subseteq Allocation,
         NEW r \in Receipts, NEW v \in Nat, NEW o \in Orders, NEW amount \in Nat, NEW kind \in Kinds
  PROVE  LET new == ApplyToOrder(rows, r, v, o, amount, kind)
         IN /\ Total(new) = amount
            /\ \A s \in Schedules(o) :
                 Total({a \in new : a.schedule = s}) <= Balance(rows, o, s)
  BY AllocationAdds
================================================================================

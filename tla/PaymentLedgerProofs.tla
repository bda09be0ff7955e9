-------------------------- MODULE PaymentLedgerProofs --------------------------
(***************************************************************************)
(* Theorems about the ledger of received money, for every number of        *)
(* receipts, orders, syncs and documents.  They need no arithmetic of      *)
(* sums: they are about who may write a receipt, and with what knowledge.  *)
(***************************************************************************)
EXTENDS PaymentLedger, TLAPS

-----------------------------------------------------------------------------
(* The inductive invariant. *)

Shape ==
  /\ docs \in [Receipts -> Seq(Fact)]
  /\ invoiced \subseteq Orders
  /\ receipts \in [Receipts -> Stored]
  /\ reversed \subseteq applied
  /\ \A a \in applied : a.receipt \in Receipts /\ a.version \in Nat \ {0}
  /\ journal \in [Runs -> Statuses]
  /\ holder \in Runs \union {NoRun} /\ lapsed \in BOOLEAN
  /\ pc \in [Runs -> Places]
  /\ pulled \in [Runs -> [Receipts -> Nat]]
  /\ plan \in [Runs -> [Receipts -> Task]]
  /\ seen \in [Runs -> [receipt : Receipts, version : Nat, originals : SUBSET applied]]

\* Only the holder of the claim is in a transaction, and its lease holds.
Fenced ==
  \A s \in Runs : pc[s] = "tx" =>
    holder = s /\ ~lapsed /\ plan[s][seen[s].receipt].version # 0

\* No receipt and no snapshot is ahead of 1C, and what is stored is not ahead
\* of the snapshot of the holder.
Behind ==
  /\ \A r \in Receipts : receipts[r].version <= Written(r)
  /\ \A s \in Runs, r \in Receipts : pulled[s][r] <= Written(r)
  /\ \A s \in Runs, r \in Receipts :
       holder = s /\ pc[s] \in {"pulled", "applying", "tx"} => receipts[r].version <= pulled[s][r]

\* What is left to import is of the snapshot, and the rest is imported.
Remaining ==
  \A s \in Runs, r \in Receipts :
    /\ plan[s][r].version # 0 => plan[s][r].version = pulled[s][r] /\ pc[s] \in {"applying", "tx"}
    /\ pc[s] \in {"applying", "tx"} /\ plan[s][r].version = 0 => receipts[r].version >= pulled[s][r]

Ready ==
  \A s \in Runs : journal[s] = "ready" =>
    pc[s] = "over" /\ \A r \in Receipts : receipts[r].version >= pulled[s][r]

\* A transaction knows the version of its receipt and every automatic
\* allocation of it, although it has read both without a lock.
Reads ==
  \A s \in Runs : pc[s] = "tx" =>
    /\ seen[s].version = receipts[seen[s].receipt].version
    /\ \A a \in Live : a.receipt = seen[s].receipt /\ a.kind = "auto" => a \in seen[s].originals

IInv == Shape /\ Fenced /\ Behind /\ Remaining /\ Ready /\ Reads /\ StaleRowsAreManual

-----------------------------------------------------------------------------
(* The operators. *)

\* A row carries the receipt, the version and the kind of its allocation.
IsRow(a, r, v, kind) == a.receipt = r /\ a.version = v /\ a.kind = kind

LEMMA RowsOfAllocation ==
  ASSUME NEW rows, NEW r, NEW v, NEW o, NEW amount, NEW kind
  PROVE  \A a \in ApplyToOrder(rows, r, v, o, amount, kind) :
           IsRow(a, r, v, kind)
<1>1. \A a \in ApplyToOrder(rows, r, v, o, amount, kind) :
        \E s, share, index : a = Row(r, v, o, s, share, index, kind)
  BY Zenon DEF ApplyToOrder
<1> QED
  BY <1>1 DEF Row, IsRow

LEMMA AutoRows ==
  ASSUME NEW r, NEW task, NEW live
  PROVE  \A a \in AutoApplied(r, task, live) :
           IsRow(a, r, task.version, "auto")
<1>1. \/ AutoApplied(r, task, live) = {}
      \/ \E rest : AutoApplied(r, task, live)
                      = ApplyToOrder(live, r, task.version, task.match, rest, "auto")
  BY Zenon DEF AutoApplied
<1>2. CASE AutoApplied(r, task, live) = {}
  BY <1>2
<1>3. CASE \E rest : AutoApplied(r, task, live)
                        = ApplyToOrder(live, r, task.version, task.match, rest, "auto")
  <2>1. PICK rest : AutoApplied(r, task, live)
                      = ApplyToOrder(live, r, task.version, task.match, rest, "auto")
    BY <1>3
  <2>2. \A a \in ApplyToOrder(live, r, task.version, task.match, rest, "auto") :
          IsRow(a, r, task.version, "auto")
    BY RowsOfAllocation, Zenon
  <2> QED BY <2>1, <2>2, Zenon
<1> QED
  BY <1>1, <1>2, <1>3

\* A manual allocation adds manual rows of the stored version of its receipt.
LEMMA ResolveAdds ==
  ASSUME Shape, NEW k \in Keys, NEW r \in Receipts, NEW targets, Resolve(k, r, targets)
  PROVE  /\ receipts' \in [Receipts -> Stored]
         /\ \A q \in Receipts : receipts'[q].version = receipts[q].version
         /\ receipts[r].version # 0
         /\ applied \subseteq applied' /\ reversed' = reversed
         /\ \A a \in applied' \ applied :
              IsRow(a, r, receipts[r].version, "manual")
<1>1. receipts' = [receipts EXCEPT ![r] =
                     [version |-> receipts[r].version, match |-> NoOrder, kind |-> "manual"]]
  BY DEF Resolve
<1>2. /\ receipts' \in [Receipts -> Stored]
      /\ \A q \in Receipts : receipts'[q].version = receipts[q].version
  BY <1>1 DEF Shape, Stored, Kinds, Matches, Versions
<1> DEFINE Rows(o) == ApplyToOrder(Live, r, receipts[r].version, o, targets[o], "manual")
<1>3. \E chosen : applied' = applied \union UNION {Rows(o) : o \in chosen}
  BY DEF Resolve
<1>5. \A o : \A a \in Rows(o) : IsRow(a, r, receipts[r].version, "manual")
  BY RowsOfAllocation, Zenon
<1> HIDE DEF Rows
<1>4. \A a \in applied' \ applied :
         IsRow(a, r, receipts[r].version, "manual")
  BY <1>3, <1>5
<1> QED
  BY <1>2, <1>3, <1>4 DEF Resolve, ledger

\* What a transaction of a sync does to its receipt and to the ledger.
LEMMA CommitWrites ==
  ASSUME Shape, Fenced, NEW s \in Runs, Commit(s)
  PROVE  LET r    == seen[s].receipt
             task == plan[s][r]
         IN /\ r \in Receipts /\ task \in Task /\ task.version # 0
            /\ receipts' = [receipts EXCEPT ![r] =
                 [version |-> task.version, match |-> task.match, kind |-> "auto"]]
            /\ applied \subseteq applied'
            /\ reversed' = reversed \union Reversals(s, task)
            /\ \A a \in applied' \ applied :
                 IsRow(a, r, task.version, "auto")
            /\ plan' = [plan EXCEPT ![s][r] = NoTask]
            /\ pc' = [pc EXCEPT ![s] = "applying"]
            /\ seen' = [seen EXCEPT ![s] = NoReading]
            /\ UNCHANGED <<onec, commands, claim, pulled>>
<1> DEFINE r    == seen[s].receipt
           task == plan[s][r]
<1>1. r \in Receipts /\ task \in Task
  BY DEF Shape
<1>2. task.version # 0
  BY DEF Fenced, Commit
<1>3. applied' = applied \union AutoApplied(r, task, Live \ Reversals(s, task))
  BY DEF Commit
<1>4. \A a \in AutoApplied(r, task, Live \ Reversals(s, task)) :
        IsRow(a, r, task.version, "auto")
  BY AutoRows, Zenon
<1>5. \A a \in applied' \ applied : IsRow(a, r, task.version, "auto")
  BY <1>3, <1>4
<1> QED
  BY <1>1, <1>2, <1>3, <1>5 DEF Commit, Goto

LEMMA NothingRead ==
  ASSUME NEW rows
  PROVE  NoReading \in [receipt : Receipts, version : Nat, originals : SUBSET rows]
<1>1. (CHOOSE r \in Receipts : TRUE) \in Receipts
  BY LedgerAssumption
<1> QED
  BY <1>1 DEF NoReading

LEMMA NothingToDo == NoTask \in Task /\ NoTask.version = 0
BY DEF NoTask, Task, Versions, Matches

-----------------------------------------------------------------------------
(* Every step keeps the invariant. *)

LEMMA InitInvariant == Init => IInv
<1> SUFFICES ASSUME Init PROVE IInv
  OBVIOUS
<1>1. Shape
  <2>1. NotStored \in Stored
    BY DEF NotStored, Stored, Versions, Matches, Kinds
  <2>2. NoReading \in [receipt : Receipts, version : Nat, originals : SUBSET applied]
    BY NothingRead, Zenon
  <2>3. seen \in [Runs -> [receipt : Receipts, version : Nat, originals : SUBSET applied]]
    BY <2>2 DEF Init
  <2>4. plan \in [Runs -> [Receipts -> Task]]
    BY NothingToDo DEF Init
  <2>5. journal \in [Runs -> Statuses] /\ pc \in [Runs -> Places]
    BY DEF Init, Statuses, Places
  <2>6. docs \in [Receipts -> Seq(Fact)]
    BY DEF Init
  <2> QED
    BY <2>1, <2>3, <2>4, <2>5, <2>6 DEF Init, Shape
<1>2. Fenced /\ Remaining /\ Ready /\ Reads /\ StaleRowsAreManual
  BY DEF Init, Fenced, Remaining, Ready, Reads, StaleRowsAreManual, Live, NoTask
<1>3. Behind
  BY DEF Init, Behind, Written, NotStored
<1> QED
  BY <1>1, <1>2, <1>3 DEF IInv

\* Documents of 1C only become more.
LEMMA OneCWritesStep ==
  ASSUME IInv, NEW r \in Receipts, OneCWrites(r)
  PROVE  IInv'
<1> USE DEF IInv, OneCWrites, ledger, claim, memory
<1>1. PICK fact \in Facts[r] : docs' = [docs EXCEPT ![r] = Append(@, fact)]
  OBVIOUS
<1>2. fact \in Fact
  BY LedgerAssumption
<1>3. docs' \in [Receipts -> Seq(Fact)]
  BY <1>1, <1>2 DEF Shape
<1>4. \A q \in Receipts : Written(q) <= Written(q)' /\ Written(q) \in Nat /\ Written(q)' \in Nat
  BY <1>1, <1>2 DEF Shape, Written
<1>5. Shape'
  BY <1>3 DEF Shape
<1>6. Behind'
  <2>1. \A q \in Receipts : receipts[q].version \in Nat
    BY DEF Shape, Stored, Versions
  <2>2. \A s \in Runs, q \in Receipts : pulled[s][q] \in Nat
    BY DEF Shape
  <2> QED BY <1>4, <2>1, <2>2 DEF Behind
<1>7. Fenced' /\ Remaining' /\ Ready' /\ Reads' /\ StaleRowsAreManual'
  BY DEF Fenced, Remaining, Ready, Reads, StaleRowsAreManual, Live
<1> QED
  BY <1>5, <1>6, <1>7

LEMMA InvoiceMovesStep ==
  ASSUME IInv, NEW o \in Orders, InvoiceMoves(o)
  PROVE  IInv'
BY DEF IInv, InvoiceMoves, ledger, claim, memory, Shape, Fenced, Behind, Remaining, Ready, Reads,
       StaleRowsAreManual, Live, Written

\* A manual allocation keeps the versions and adds no automatic row.
LEMMA ResolveStep ==
  ASSUME IInv, NEW k \in Keys, NEW r \in Receipts, NEW targets, Resolve(k, r, targets)
  PROVE  IInv'
<1> USE DEF IInv
<1>1. /\ receipts' \in [Receipts -> Stored]
      /\ \A q \in Receipts : receipts'[q].version = receipts[q].version
      /\ receipts[r].version # 0
      /\ applied \subseteq applied' /\ reversed' = reversed
      /\ \A a \in applied' \ applied : IsRow(a, r, receipts[r].version, "manual")
  BY ResolveAdds
<1>2. UNCHANGED <<onec, reversed, claim, pc, memory>>
  BY DEF Resolve
<1>3. receipts[r].version \in Nat
  BY DEF Shape, Stored, Versions
<1>4. \A a \in applied' : a.receipt \in Receipts /\ a.version \in Nat \ {0}
  BY <1>1, <1>3 DEF Shape, IsRow
<1>5. Shape'
  BY <1>1, <1>2, <1>4 DEF Shape, onec, claim, memory
<1>6. Fenced' /\ Behind' /\ Remaining' /\ Ready'
  BY <1>1, <1>2 DEF Fenced, Behind, Remaining, Ready, onec, claim, memory, Written
<1>7. \A a \in Live' : a.kind = "auto" => a \in Live
  BY <1>1 DEF Live, IsRow
<1>8. StaleRowsAreManual'
  BY <1>1, <1>7 DEF StaleRowsAreManual, Shape, Live
<1>9. Reads'
  <2> SUFFICES ASSUME NEW s \in Runs, pc'[s] = "tx"
               PROVE  /\ seen'[s].version = receipts'[seen'[s].receipt].version
                      /\ \A a \in Live' : a.receipt = seen'[s].receipt /\ a.kind = "auto"
                                             => a \in seen'[s].originals
    BY DEF Reads
  <2>1. seen' = seen /\ pc' = pc /\ seen[s].receipt \in Receipts
    BY <1>2 DEF memory, Shape
  <2> QED BY <1>1, <1>7, <2>1 DEF Reads
<1> QED
  BY <1>5, <1>6, <1>8, <1>9

LEMMA LapseStep ==
  ASSUME IInv, Lapse
  PROVE  IInv'
<1> USE DEF IInv, Lapse, onec, ledger, memory
<1>1. Shape' /\ Behind' /\ Remaining' /\ Ready' /\ Reads' /\ StaleRowsAreManual'
  BY DEF Shape, Behind, Remaining, Ready, Reads, StaleRowsAreManual, Live, Written
<1>2. Fenced'
  BY DEF Fenced
<1> QED
  BY <1>1, <1>2

\* A run that starts, ends, fails or dies imports nothing: the ledger and 1C
\* stay, its memory stays or is forgotten, and it is not in a transaction.
LEMMA ForgetStep ==
  ASSUME IInv, NEW s \in Runs, Forget(s), UNCHANGED <<onec, ledger>>,
         NEW place \in Places \ {"pulled", "applying", "tx"}, Goto(s, place),
         journal' \in [Runs -> Statuses],
         \A t \in Runs : journal'[t] = "ready" => journal[t] = "ready" /\ pc[s] # "over",
         holder' \in Runs \union {NoRun}, lapsed' \in BOOLEAN,
         \A t \in Runs : t # s /\ pc[t] = "tx" => holder' = holder /\ lapsed' = lapsed,
         \A t \in Runs : t # s /\ holder' = t => holder = t
  PROVE  IInv'
<1> USE DEF IInv
<1>1. /\ pulled' = [pulled EXCEPT ![s] = [r \in Receipts |-> 0]]
      /\ plan' = [plan EXCEPT ![s] = [r \in Receipts |-> NoTask]]
      /\ seen' = [seen EXCEPT ![s] = NoReading]
      /\ pc' = [pc EXCEPT ![s] = place]
  BY DEF Forget, Goto
<1>2. UNCHANGED <<docs, invoiced, receipts, applied, reversed>>
  BY DEF onec, ledger
<1>3. Shape'
  <2>1. NoReading \in [receipt : Receipts, version : Nat, originals : SUBSET applied]
    BY NothingRead, Zenon
  <2> QED BY <1>1, <1>2, <2>1, NothingToDo DEF Shape
<1>4. Fenced'
  <2> SUFFICES ASSUME NEW t \in Runs, pc'[t] = "tx"
               PROVE  (holder = t /\ ~lapsed /\ plan[t][seen[t].receipt].version # 0)'
    BY DEF Fenced
  <2>1. t # s /\ pc[t] = "tx"
    BY <1>1 DEF Shape
  <2> QED BY <1>1, <2>1 DEF Fenced, Shape
<1>5. Behind'
  <2>1. \A r \in Receipts : receipts'[r].version <= Written(r)' /\ Written(r)' \in Nat
    BY <1>2 DEF Behind, Written, Shape
  <2>2. \A t \in Runs, r \in Receipts : pulled'[t][r] <= Written(r)'
    BY <1>1, <1>2, <2>1 DEF Behind, Shape, Written
  <2>3. \A t \in Runs, r \in Receipts :
          holder' = t /\ pc'[t] \in {"pulled", "applying", "tx"} => receipts'[r].version <= pulled'[t][r]
    BY <1>1, <1>2 DEF Behind, Shape
  <2> QED BY <2>1, <2>2, <2>3 DEF Behind
<1>6. Remaining'
  BY <1>1, <1>2, NothingToDo DEF Remaining, Shape
<1>7. Ready'
  <2> SUFFICES ASSUME NEW t \in Runs, journal'[t] = "ready"
               PROVE  (pc[t] = "over" /\ \A r \in Receipts : receipts[r].version >= pulled[t][r])'
    BY DEF Ready
  <2>1. journal[t] = "ready" /\ pc[s] # "over"
    OBVIOUS
  <2>2. t # s
    BY <2>1 DEF Ready
  <2> QED BY <1>1, <1>2, <2>1, <2>2 DEF Ready, Shape
<1>8. Reads'
  BY <1>1, <1>2 DEF Reads, Live, Shape
<1>9. StaleRowsAreManual'
  BY <1>2 DEF StaleRowsAreManual, Live
<1> QED
  BY <1>3, <1>4, <1>5, <1>6, <1>7, <1>8, <1>9

LEMMA AbortStep ==
  ASSUME IInv, NEW s \in Runs, Abort(s) \/ Crash(s)
  PROVE  IInv'
<1>1. PICK place \in Places \ {"pulled", "applying", "tx"} : Goto(s, place)
  BY DEF Abort, Crash, Places
<1>2. Forget(s) /\ UNCHANGED <<onec, ledger, claim>> /\ pc[s] # "over"
  BY DEF Abort, Crash, onec, ledger
<1> QED
  BY <1>1, <1>2, ForgetStep DEF IInv, Shape, claim

\* The same when the memory stays.
LEMMA KeepStep ==
  ASSUME IInv, NEW s \in Runs, UNCHANGED <<onec, ledger, memory>>,
         \A r \in Receipts : plan[s][r].version = 0,
         NEW place \in Places \ {"pulled", "applying", "tx"}, Goto(s, place),
         journal' \in [Runs -> Statuses],
         \A t \in Runs : journal'[t] = "ready" =>
           \/ t # s /\ journal[t] = "ready"
           \/ t = s /\ place = "over" /\ \A r \in Receipts : receipts[r].version >= pulled[s][r],
         holder' \in Runs \union {NoRun}, lapsed' \in BOOLEAN,
         \A t \in Runs : t # s /\ pc[t] = "tx" => holder' = holder /\ lapsed' = lapsed,
         \A t \in Runs : t # s /\ holder' = t => holder = t
  PROVE  IInv'
<1> USE DEF IInv
<1>1. UNCHANGED <<docs, invoiced, receipts, applied, reversed, pulled, plan, seen>>
  BY DEF onec, ledger, memory
<1>2. pc' = [pc EXCEPT ![s] = place]
  BY DEF Goto
<1>3. Shape'
  BY <1>1, <1>2 DEF Shape
<1>4. Fenced'
  BY <1>1, <1>2 DEF Fenced, Shape
<1>5. Behind'
  BY <1>1, <1>2 DEF Behind, Shape, Written
<1>6. Remaining'
  BY <1>1, <1>2 DEF Remaining, Shape
<1>7. Ready'
  <2> SUFFICES ASSUME NEW t \in Runs, journal'[t] = "ready"
               PROVE  (pc[t] = "over" /\ \A r \in Receipts : receipts[r].version >= pulled[t][r])'
    BY DEF Ready
  <2> QED BY <1>1, <1>2 DEF Ready, Shape
<1>8. Reads'
  BY <1>1, <1>2 DEF Reads, Live, Shape
<1>9. StaleRowsAreManual'
  BY <1>1 DEF StaleRowsAreManual, Live
<1> QED
  BY <1>3, <1>4, <1>5, <1>6, <1>7, <1>8, <1>9

LEMMA ClaimStep ==
  ASSUME IInv, NEW s \in Runs, Claim(s)
  PROVE  IInv'
<1> USE DEF IInv
<1>1. \A r \in Receipts : plan[s][r].version = 0
  BY DEF Claim, Remaining
<1>2. journal' \in [Runs -> Statuses]
  BY DEF Claim, Statuses, Shape
<1>3. \A t \in Runs : journal'[t] = "ready" => t # s /\ journal[t] = "ready"
  BY DEF Claim
<1>4. holder' = s /\ lapsed' = FALSE /\ Goto(s, "claimed") /\ UNCHANGED <<onec, ledger, memory>>
  BY DEF Claim, onec, ledger, memory
<1>5. \A t \in Runs : pc[t] # "tx"
  BY LedgerAssumption DEF Claim, Fenced
<1>6. "claimed" \in Places \ {"pulled", "applying", "tx"}
  BY DEF Places
<1> QED
  BY <1>1, <1>2, <1>3, <1>4, <1>5, <1>6, KeepStep

LEMMA FailStep ==
  ASSUME IInv, NEW s \in Runs, Fail(s)
  PROVE  IInv'
<1> USE DEF IInv
<1>1. \A r \in Receipts : plan[s][r].version = 0
  BY DEF Fail, Remaining
<1>2. UNCHANGED <<onec, ledger, memory>> /\ Goto(s, "over") /\ pc[s] = "failing"
  BY DEF Fail, onec, ledger, memory
<1>3. /\ journal' \in [Runs -> Statuses]
      /\ \A t \in Runs : journal'[t] = "ready" => t # s /\ journal[t] = "ready"
      /\ holder' \in Runs \union {NoRun} /\ lapsed' \in BOOLEAN
      /\ \A t \in Runs : t # s /\ holder' = t => holder = t
      /\ holder = s \/ UNCHANGED <<holder, lapsed>>
  <2>1. CASE holder = s /\ Release(s, "error")
    BY <2>1, LedgerAssumption DEF Release, Shape, Statuses
  <2>2. CASE UNCHANGED claim
    BY <2>2, <1>2 DEF claim, Shape, Ready
  <2> QED BY <2>1, <2>2 DEF Fail
<1>4. \A t \in Runs : t # s /\ pc[t] = "tx" => holder' = holder /\ lapsed' = lapsed
  BY <1>3 DEF Fenced
<1>5. "over" \in Places \ {"pulled", "applying", "tx"}
  BY DEF Places
<1> QED
  BY <1>1, <1>2, <1>3, <1>4, <1>5, KeepStep

LEMMA CompleteStep ==
  ASSUME IInv, NEW s \in Runs, Complete(s)
  PROVE  IInv'
<1> USE DEF IInv
<1>1. \A r \in Receipts : plan[s][r].version = 0 /\ receipts[r].version >= pulled[s][r]
  BY DEF Complete, Remaining
<1>2. UNCHANGED <<onec, ledger, memory>> /\ Goto(s, "over") /\ holder = s /\ Release(s, "ready")
  BY DEF Complete, onec, ledger, memory
<1>3. /\ journal' \in [Runs -> Statuses]
      /\ \A t \in Runs : t # s /\ journal'[t] = "ready" => journal[t] = "ready"
      /\ holder' \in Runs \union {NoRun} /\ lapsed' \in BOOLEAN
      /\ \A t \in Runs : t # s /\ holder' = t => holder = t
  BY <1>2, LedgerAssumption DEF Release, Shape, Statuses
<1>4. \A t \in Runs : t # s => pc[t] # "tx"
  BY <1>2 DEF Fenced
<1>5. "over" \in Places \ {"pulled", "applying", "tx"}
  BY DEF Places
<1> QED
  BY <1>1, <1>2, <1>3, <1>4, <1>5, KeepStep

\* The snapshot of the holder is at least as new as what is stored.
LEMMA PullStep ==
  ASSUME IInv, NEW s \in Runs, Pull(s)
  PROVE  IInv'
<1> USE DEF IInv
<1>1. /\ pc[s] = "claimed" /\ pc' = [pc EXCEPT ![s] = "pulled"]
      /\ holder = s /\ lapsed' = FALSE /\ UNCHANGED <<journal, holder>>
      /\ pulled' = [pulled EXCEPT ![s] = [r \in Receipts |-> Written(r)]]
      /\ UNCHANGED <<docs, invoiced, receipts, applied, reversed, plan, seen>>
  BY DEF Pull, Renewed, Goto, onec, ledger
<1>2. \A r \in Receipts : Written(r) \in Nat /\ Written(r)' = Written(r)
  BY <1>1 DEF Shape, Written
<1>3. Shape'
  BY <1>1, <1>2 DEF Shape, Places
<1>4. Fenced'
  BY <1>1 DEF Fenced, Shape
<1>5. Behind'
  BY <1>1, <1>2 DEF Behind, Shape
<1>6. Remaining'
  BY <1>1 DEF Remaining, Shape
<1>7. Ready'
  BY <1>1 DEF Ready, Shape
<1>8. Reads' /\ StaleRowsAreManual'
  BY <1>1 DEF Reads, StaleRowsAreManual, Live, Shape
<1> QED
  BY <1>3, <1>4, <1>5, <1>6, <1>7, <1>8

\* What is not left to import was stored as pulled, or was never written.
LEMMA CompareStep ==
  ASSUME IInv, NEW s \in Runs, Compare(s)
  PROVE  IInv'
<1> USE DEF IInv
<1> DEFINE Chosen(r) == IF pulled[s][r] = 0 \/ CanSkip(r, pulled[s][r]) THEN NoTask
                        ELSE [version |-> pulled[s][r], match |-> Match(r, pulled[s][r])]
<1>1. /\ pc[s] = "pulled" /\ pc' = [pc EXCEPT ![s] = "applying"]
      /\ plan' = [plan EXCEPT ![s] = [r \in Receipts |-> Chosen(r)]]
      /\ UNCHANGED <<docs, invoiced, receipts, applied, reversed, journal, holder, lapsed, pulled, seen>>
  BY DEF Compare, Goto, onec, ledger, claim
<1>2. \A r \in Receipts : pulled[s][r] \in Nat /\ receipts[r].version \in Nat
  BY DEF Shape, Stored, Versions
<1>3. \A r \in Receipts : Match(r, pulled[s][r]) \in Matches
  BY DEF Match, Matches, Shape
<1>4. \A r \in Receipts : Chosen(r) \in Task /\ Chosen(r).version \in {0, pulled[s][r]}
  BY <1>2, <1>3, NothingToDo DEF Task, Versions
<1>5. \A r \in Receipts : Chosen(r).version = 0 => receipts[r].version >= pulled[s][r]
  BY <1>2 DEF CanSkip
<1> HIDE DEF Chosen
<1>6. Shape'
  BY <1>1, <1>4 DEF Shape, Places
<1>7. Fenced' /\ Reads' /\ StaleRowsAreManual'
  BY <1>1 DEF Fenced, Reads, StaleRowsAreManual, Live, Shape
<1>8. Behind'
  BY <1>1 DEF Behind, Shape, Written
<1>9. Remaining'
  BY <1>1, <1>4, <1>5 DEF Remaining, Shape
<1>10. Ready'
  BY <1>1 DEF Ready, Shape
<1> QED
  BY <1>6, <1>7, <1>8, <1>9, <1>10

LEMMA BeginStep ==
  ASSUME IInv, NEW s \in Runs, NEW r \in Receipts, Begin(s, r)
  PROVE  IInv'
<1> USE DEF IInv
<1> DEFINE reading == [receipt |-> r, version |-> receipts[r].version, originals |-> LiveOf(r)]
<1>1. /\ pc[s] = "applying" /\ pc' = [pc EXCEPT ![s] = "tx"]
      /\ plan[s][r].version # 0 /\ holder = s /\ lapsed' = FALSE /\ UNCHANGED <<journal, holder>>
      /\ seen' = [seen EXCEPT ![s] = reading]
      /\ UNCHANGED <<docs, invoiced, receipts, applied, reversed, pulled, plan>>
  BY DEF Begin, Renewed, Goto, onec, ledger
<1>2. reading \in [receipt : Receipts, version : Nat, originals : SUBSET applied]
  BY DEF Shape, Stored, Versions, LiveOf, Live
<1>3. /\ reading.receipt = r /\ reading.version = receipts[r].version
      /\ \A a \in Live : a.receipt = r => a \in reading.originals
  BY DEF LiveOf
<1> HIDE DEF reading
<1>4. Shape'
  BY <1>1, <1>2 DEF Shape, Places
<1>5. Fenced'
  BY <1>1, <1>3 DEF Fenced, Shape
<1>6. Behind'
  BY <1>1 DEF Behind, Shape, Written
<1>7. Remaining' /\ Ready'
  BY <1>1 DEF Remaining, Ready, Shape
<1>8. Reads'
  <2> SUFFICES ASSUME NEW t \in Runs, pc'[t] = "tx"
               PROVE  /\ seen'[t].version = receipts'[seen'[t].receipt].version
                      /\ \A a \in Live' : a.receipt = seen'[t].receipt /\ a.kind = "auto"
                                             => a \in seen'[t].originals
    BY DEF Reads
  <2>1. Live' = Live
    BY <1>1 DEF Live
  <2>2. CASE t = s
    BY <1>1, <1>3, <2>1, <2>2 DEF Shape
  <2>3. CASE t # s
    BY <1>1, <2>1, <2>3 DEF Reads, Shape
  <2> QED BY <2>2, <2>3
<1>9. StaleRowsAreManual'
  BY <1>1 DEF StaleRowsAreManual, Live
<1> QED
  BY <1>4, <1>5, <1>6, <1>7, <1>8, <1>9

\* The transaction stores the version it pulled, which is not behind what is
\* stored, and leaves no automatic row of another version.
LEMMA CommitStep ==
  ASSUME IInv, NEW s \in Runs, Commit(s)
  PROVE  IInv' /\ \A q \in Receipts : receipts'[q].version >= receipts[q].version
<1> USE DEF IInv
<1> DEFINE r    == seen[s].receipt
           task == plan[s][r]
<1>1. /\ r \in Receipts /\ task \in Task /\ task.version # 0
      /\ receipts' = [receipts EXCEPT ![r] =
           [version |-> task.version, match |-> task.match, kind |-> "auto"]]
      /\ applied \subseteq applied'
      /\ reversed' = reversed \union Reversals(s, task)
      /\ \A a \in applied' \ applied : IsRow(a, r, task.version, "auto")
      /\ plan' = [plan EXCEPT ![s][r] = NoTask]
      /\ pc' = [pc EXCEPT ![s] = "applying"]
      /\ seen' = [seen EXCEPT ![s] = NoReading]
      /\ UNCHANGED <<onec, commands, claim, pulled>>
  BY CommitWrites
<1> HIDE DEF r, task
<1>2. /\ pc[s] = "tx" /\ holder = s /\ r = seen[s].receipt /\ task = plan[s][r]
      /\ \A t \in Runs : t # s => pc[t] # "tx"
  BY DEF Commit, Fenced, r, task
<1>3. task.version \in Nat /\ task.version = pulled[s][r] /\ receipts[r].version <= task.version
  BY <1>1, <1>2 DEF Remaining, Behind, Task, Versions
<1>4. \A q \in Receipts : receipts[q].version \in Nat
  BY DEF Shape, Stored, Versions
<1>5. /\ receipts' \in [Receipts -> Stored]
      /\ receipts'[r].version = task.version
      /\ \A q \in Receipts : q # r => receipts'[q] = receipts[q]
  BY <1>1, <1>3 DEF Shape, Stored, Versions, Kinds, Task
<1>6. \A q \in Receipts : receipts'[q].version >= receipts[q].version
  BY <1>3, <1>4, <1>5
<1>7. Reversals(s, task) \subseteq applied
  BY DEF Reversals, Shape
<1>8. \A a \in applied' : a.receipt \in Receipts /\ a.version \in Nat \ {0}
  BY <1>1, <1>3 DEF Shape, IsRow
<1>9. Shape'
  <2>1. NoReading \in [receipt : Receipts, version : Nat, originals : SUBSET applied']
    BY NothingRead, Zenon
  <2>2. seen' \in [Runs -> [receipt : Receipts, version : Nat, originals : SUBSET applied']]
    BY <1>1, <2>1 DEF Shape
  <2>3. plan' \in [Runs -> [Receipts -> Task]]
    BY <1>1, NothingToDo DEF Shape
  <2>4. pc' \in [Runs -> Places]
    BY <1>1 DEF Shape, Places
  <2> QED
    BY <1>1, <1>5, <1>7, <1>8, <2>2, <2>3, <2>4 DEF Shape, onec, claim
<1>10. Fenced'
  BY <1>1, <1>2 DEF Fenced, Shape
<1>11. Behind'
  <2>1. \A q \in Receipts : Written(q)' = Written(q)
    BY <1>1 DEF Written, onec
  <2>2. \A q \in Receipts : receipts'[q].version <= Written(q)
    BY <1>1, <1>3, <1>5 DEF Behind
  <2>3. \A q \in Receipts : receipts'[q].version <= pulled[s][q]
    BY <1>2, <1>3, <1>5 DEF Behind
  <2> QED BY <1>1, <1>2, <2>1, <2>2, <2>3 DEF Behind, claim
<1>12. Remaining'
  <2> SUFFICES ASSUME NEW t \in Runs, NEW q \in Receipts
               PROVE  /\ plan'[t][q].version # 0 => plan'[t][q].version = pulled'[t][q]
                                                      /\ pc'[t] \in {"applying", "tx"}
                      /\ pc'[t] \in {"applying", "tx"} /\ plan'[t][q].version = 0
                           => receipts'[q].version >= pulled'[t][q]
    BY DEF Remaining
  <2>1. pulled'[t][q] = pulled[t][q] /\ pulled[t][q] \in Nat
    BY <1>1 DEF Shape
  <2>2. CASE t = s /\ q = r
    BY <1>1, <1>3, <1>5, <2>1, <2>2, NothingToDo DEF Shape
  <2>3. CASE ~(t = s /\ q = r)
    <3>1. plan'[t][q] = plan[t][q] /\ (pc'[t] \in {"applying", "tx"} <=> pc[t] \in {"applying", "tx"})
      BY <1>1, <1>2, <2>3 DEF Shape
    <3> QED BY <1>4, <1>5, <1>6, <2>1, <3>1 DEF Remaining, Stored, Versions
  <2> QED BY <2>2, <2>3
<1>13. Ready'
  <2> SUFFICES ASSUME NEW t \in Runs, journal'[t] = "ready"
               PROVE  pc'[t] = "over" /\ \A q \in Receipts : receipts'[q].version >= pulled'[t][q]
    BY DEF Ready
  <2>1. journal[t] = "ready" /\ t # s /\ pc'[t] = pc[t] /\ pulled' = pulled
    BY <1>1, <1>2 DEF Ready, claim, Shape
  <2>2. \A q \in Receipts : receipts'[q].version \in Nat /\ pulled[t][q] \in Nat
    BY <1>5 DEF Stored, Versions, Shape
  <2> QED BY <1>4, <1>6, <2>1, <2>2 DEF Ready
<1>14. Reads'
  BY <1>1, <1>2 DEF Reads, Shape
<1>15. StaleRowsAreManual'
  <2> SUFFICES ASSUME NEW a \in Live', a.kind = "auto"
               PROVE  a.version = receipts'[a.receipt].version
    BY DEF StaleRowsAreManual
  <2>1. a \in applied' /\ a \notin reversed /\ a \notin Reversals(s, task)
    BY <1>1 DEF Live
  <2>2. CASE a \notin applied
    BY <1>1, <1>5, <2>1, <2>2 DEF IsRow
  <2>3. CASE a \in applied
    <3>1. a \in Live /\ a.version = receipts[a.receipt].version /\ a.receipt \in Receipts /\ a.version # 0
      BY <2>1, <2>3 DEF Live, StaleRowsAreManual, Shape
    <3>2. CASE a.receipt # r
      BY <1>5, <3>1, <3>2
    <3>3. CASE a.receipt = r
      <4>1. a \in seen[s].originals /\ seen[s].version = a.version
        BY <1>2, <3>1, <3>3 DEF Reads
      <4>2. seen[s].version = task.version
        BY <2>1, <3>1, <4>1 DEF Reversals
      <4> QED BY <1>5, <3>3, <4>1, <4>2
    <3> QED BY <3>2, <3>3
  <2> QED BY <2>2, <2>3
<1> QED
  BY <1>6, <1>9, <1>10, <1>11, <1>12, <1>13, <1>14, <1>15

-----------------------------------------------------------------------------
(* The theorems. *)

LEMMA StepInvariant == IInv /\ [Next]_vars => IInv'
<1> SUFFICES ASSUME IInv, [Next]_vars PROVE IInv'
  OBVIOUS
<1>1. CASE UNCHANGED vars
  BY <1>1 DEF IInv, vars, onec, ledger, claim, memory, Shape, Fenced, Behind, Remaining, Ready,
              Reads, StaleRowsAreManual, Live, Written
<1>2. CASE \E r \in Receipts : OneCWrites(r)
  BY <1>2, OneCWritesStep
<1>3. CASE \E o \in Orders : InvoiceMoves(o)
  BY <1>3, InvoiceMovesStep
<1>4. CASE \E k \in Keys, r \in Receipts, targets \in [Orders -> {0} \union Amounts] :
             Resolve(k, r, targets)
  BY <1>4, ResolveStep
<1>5. CASE Lapse
  BY <1>5, LapseStep
<1>6. ASSUME NEW s \in Runs,
             \/ Claim(s) \/ Pull(s) \/ Compare(s)
             \/ \E r \in Receipts : Begin(s, r)
             \/ Commit(s) \/ Complete(s)
             \/ Abort(s) \/ Fail(s) \/ Crash(s)
      PROVE  IInv'
  BY <1>6, ClaimStep, PullStep, CompareStep, BeginStep, CommitStep, CompleteStep, AbortStep, FailStep
<1> QED
  BY <1>1, <1>2, <1>3, <1>4, <1>5, <1>6 DEF Next

\* The versions of a receipt only grow: every other step keeps them.
LEMMA StepVersions ==
  IInv /\ [Next]_vars => \A r \in Receipts : receipts'[r].version >= receipts[r].version
<1> SUFFICES ASSUME IInv, [Next]_vars
             PROVE  \A r \in Receipts : receipts'[r].version >= receipts[r].version
  OBVIOUS
<1>1. \A r \in Receipts : receipts[r].version \in Nat
  BY DEF IInv, Shape, Stored, Versions
<1>2. CASE UNCHANGED receipts
  BY <1>1, <1>2
<1>3. ASSUME NEW k \in Keys, NEW r \in Receipts, NEW targets, Resolve(k, r, targets)
      PROVE  \A q \in Receipts : receipts'[q].version >= receipts[q].version
  BY <1>1, <1>3, ResolveAdds DEF IInv
<1>4. ASSUME NEW s \in Runs, Commit(s)
      PROVE  \A q \in Receipts : receipts'[q].version >= receipts[q].version
  BY <1>4, CommitStep
<1>5. \/ UNCHANGED receipts
      \/ \E k \in Keys, r \in Receipts, targets \in [Orders -> {0} \union Amounts] :
           Resolve(k, r, targets)
      \/ \E s \in Runs : Commit(s)
  BY DEF Next, vars, ledger, OneCWrites, InvoiceMoves, Lapse, Claim, Pull, Compare, Begin, Complete,
         Abort, Fail, Crash
<1> QED
  BY <1>2, <1>3, <1>4, <1>5

\* The inductive invariant holds in every state: who writes holds the claim, and
\* neither a snapshot nor what is stored is ahead of its source.
THEOREM Invariance == Spec => []IInv
BY InitInvariant, StepInvariant, PTL DEF Spec

\* An automatic allocation never outlives the state of the receipt in 1C from
\* which it was made, although syncs read it without a lock, lose their claim
\* and wake up later, and managers allocate at the same time.
THEOREM AutomaticRowsFollowTheSource == Spec => []StaleRowsAreManual
BY Invariance, PTL DEF IInv

\* A sync that ended well has imported all it pulled.
THEOREM ReadySyncsImported == Spec => []ReadyMeansImported
<1>1. IInv => ReadyMeansImported
  BY DEF IInv, Ready, ReadyMeansImported
<1> QED
  BY Invariance, <1>1, PTL

\* The claim fences a sync that was overtaken: no receipt goes back.
THEOREM ReceiptsNeverGoBack == Spec => VersionNeverGoesBack
<1>1. IInv /\ [Next]_vars => [\A r \in Receipts : receipts'[r].version >= receipts[r].version]_vars
  BY StepVersions
<1> QED
  BY Invariance, <1>1, PTL DEF Spec, VersionNeverGoesBack
=============================================================================

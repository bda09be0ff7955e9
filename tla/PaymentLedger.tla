----------------------------- MODULE PaymentLedger -----------------------------
(***************************************************************************)
(* The ledger of received money: PaymentAllocationService and              *)
(* OneCPaymentSyncService.  A sync pulls the bank receipts of 1C under a   *)
(* leased claim and imports them one transaction per receipt: it reverses  *)
(* the allocations of a receipt that changed in 1C, stores the receipt and *)
(* allocates its money to the order it matches.  A manager allocates the   *)
(* rest by hand.                                                           *)
(*                                                                         *)
(* The database runs READ COMMITTED.  Once a transaction has written a row *)
(* of a receipt or of an order the others wait for its end: a manual       *)
(* allocation (which locks the receipt and then its orders) is one step,   *)
(* and the transaction of a sync is two, because it reads the receipt      *)
(* first without a lock.  1C is external: it may change a document at any  *)
(* time, and the numbers of its versions stand for what it wrote.          *)
(***************************************************************************)
EXTENDS Naturals, Sequences, FiniteSets, FiniteSetsExt

CONSTANTS
  Receipts,    \* bank receipts of 1C
  Orders,      \* finance orders
  Keys,        \* operation keys of manual allocations
  Runs,        \* syncs, each with an operation key of its own
  Plan,        \* the amounts of an order's payment schedules, by due date
  Facts,       \* what 1C may write about each receipt
  MaxVersion,  \* bound: documents written for each receipt
  NoOrder,     \* the receipt matches no order
  NoRun,       \* nobody holds the claim
  AutoApply    \* onecPaymentAutoApplyEnabled

VARIABLES
  docs,      \* the documents of a receipt in 1C, oldest first
  invoiced,  \* orders whose invoice is posted in 1C
  receipts,  \* finance_payment_receipts: version 0 is no row yet
  applied,   \* positive rows of finance_payment_allocations
  reversed,  \* those of them that a negative row reverses
  commands,  \* finance_payment_allocation_commands
  journal,   \* sync_journals, by operation key
  holder,    \* the run of the row with the active scope key
  lapsed,    \* leaseExpiresAt of that row is over
  pc,        \* where a run is
  pulled,    \* the versions a run pulled from 1C, 0 for none
  plan,      \* what a run has yet to import: version 0 is nothing
  seen       \* what the transaction of a run has read of its receipt

onec   == <<docs, invoiced>>
ledger == <<receipts, applied, reversed>>
claim  == <<journal, holder, lapsed>>
memory == <<pulled, plan, seen>>
vars   == <<onec, ledger, commands, claim, pc, memory>>

Fact     == [amount : Nat, active : BOOLEAN, match : Orders \union {NoOrder}]
Versions == Nat
Kinds    == {"auto", "manual"}
Matches  == Orders \union {NoOrder}

ASSUME LedgerAssumption ==
  /\ MaxVersion \in [Receipts -> Nat \ {0}]
  /\ Facts \in [Receipts -> SUBSET Fact]
  /\ Plan \in [Orders -> Seq(Nat \ {0})]
  /\ Receipts # {}
  /\ NoOrder \notin Orders
  /\ NoRun \notin Runs
  /\ AutoApply \in BOOLEAN

\* An allocation of [amount] of a receipt, as it stood at [version], to a
\* schedule of an order; schedule 0 is the order itself.
Allocation == [receipt : Receipts, version : Versions, order : Orders, schedule : Nat,
               amount : Nat \ {0}, index : Nat, kind : Kinds]
Stored     == [version : Versions, match : Matches, kind : Kinds]
Task       == [version : Versions, match : Matches]
Reading    == [receipt : Receipts, version : Versions, originals : SUBSET Allocation]
Places     == {"idle", "claimed", "pulled", "applying", "tx", "failing", "over"}
Statuses   == {"none", "retry_requested", "ready", "error"}

NotStored == [version |-> 0, match |-> NoOrder, kind |-> "auto"]
NoTask    == [version |-> 0, match |-> NoOrder]
NoReading == [receipt |-> CHOOSE r \in Receipts : TRUE, version |-> 0, originals |-> {}]

-----------------------------------------------------------------------------
\* Amounts.

Total(rows) == MapThenSumSet(LAMBDA a : a.amount, rows)
Sum(f, S)   == MapThenSumSet(LAMBDA x : f[x], S)
Live        == applied \ reversed
LiveOf(r)   == {a \in Live : a.receipt = r}

\* The part of a receipt that no row allocates; never below nothing.
Rest(amount, rows) == IF Total(rows) < amount THEN amount - Total(rows) ELSE 0

\* Mutant: what earlier receipts paid on a schedule is not looked at.
MutantBalance(rows, o, s) == Plan[o][s]

\* What is left to pay on a schedule, given the rows that count.
Balance(rows, o, s) ==
  Rest(Plan[o][s], {a \in rows : a.order = o /\ a.schedule = s})

Schedules(o) == 1..Len(Plan[o])

\* allocatePaymentAmount: the schedules by due date, each up to its balance.
Share(rows, o, s, amount) ==
  LET before == Sum([t \in 1..(s - 1) |-> Balance(rows, o, t)], 1..(s - 1))
      left   == IF before < amount THEN amount - before ELSE 0
  IN IF left < Balance(rows, o, s) THEN left ELSE Balance(rows, o, s)

Row(r, v, o, s, amount, index, kind) ==
  [receipt |-> r, version |-> v, order |-> o, schedule |-> s, amount |-> amount,
   index |-> index, kind |-> kind]

\* Mutant: an overpayment of nothing gets a row too.
ApplyWithOverpayment(rows, r, v, o, amount, kind) ==
  LET share == [s \in Schedules(o) |-> Share(rows, o, s, amount)]
      paid  == {s \in Schedules(o) : share[s] > 0}
      over  == amount - Sum(share, paid)
  IN {Row(r, v, o, s, share[s], Cardinality({t \in paid : t < s}), kind) : s \in paid}
     \union {Row(r, v, o, 0, over, Cardinality(paid), kind)}

\* The rows applyToOrder creates: one per schedule, the overpayment last.
ApplyToOrder(rows, r, v, o, amount, kind) ==
  LET share == [s \in Schedules(o) |-> Share(rows, o, s, amount)]
      paid  == {s \in Schedules(o) : share[s] > 0}
      over  == amount - Sum(share, paid)
  IN {Row(r, v, o, s, share[s], Cardinality({t \in paid : t < s}), kind) : s \in paid}
     \union (IF over > 0 THEN {Row(r, v, o, 0, over, Cardinality(paid), kind)} ELSE {})

-----------------------------------------------------------------------------
\* 1C.

Doc(r, v) == docs[r][v]

Written(r) == Len(docs[r])

\* Somebody writes the document of a receipt in 1C.
OneCWrites(r) ==
  /\ Written(r) < MaxVersion[r]
  /\ \E fact \in Facts[r] : docs' = [docs EXCEPT ![r] = Append(@, fact)]
  /\ UNCHANGED <<invoiced, ledger, commands, claim, pc, memory>>

\* The invoice of an order is posted or unposted, as the invoice sync sees it.
InvoiceMoves(o) ==
  /\ invoiced' = IF o \in invoiced THEN invoiced \ {o} ELSE invoiced \union {o}
  /\ UNCHANGED <<docs, ledger, commands, claim, pc, memory>>

\* matchPaymentReceipt over matchOrders: only posted invoices are candidates.
Match(r, v) == IF Doc(r, v).match \in invoiced THEN Doc(r, v).match ELSE NoOrder

-----------------------------------------------------------------------------
\* resolve: a manager allocates money of a stored receipt by hand.

\* Rows of an allocation key that is taken cannot be created.
Fresh(rows) == rows \intersect applied = {}

\* Mutant: the remaining money of the receipt is not compared.
ResolveAnything(k, r, targets) ==
  LET v    == receipts[r].version
      rows == UNION {ApplyToOrder(Live, r, v, o, targets[o], "manual") : o \in {p \in Orders : targets[p] > 0}}
  IN /\ v # 0 /\ Doc(r, v).active /\ k \notin commands
     /\ rows # {} /\ Fresh(rows)
     /\ \A o \in Orders : targets[o] > 0 => o \in invoiced
     /\ commands' = commands \union {k} /\ applied' = applied \union rows
     /\ receipts' = [receipts EXCEPT ![r] = [version |-> v, match |-> NoOrder, kind |-> "manual"]]
     /\ UNCHANGED <<onec, reversed, claim, pc, memory>>

\* A used key is a replay or a conflict and changes nothing.
Resolve(k, r, targets) ==
  LET v         == receipts[r].version
      chosen    == {o \in Orders : targets[o] > 0}
      requested == Sum(targets, chosen)
      rows      == UNION {ApplyToOrder(Live, r, v, o, targets[o], "manual") : o \in chosen}
  IN /\ v # 0 /\ Doc(r, v).active
     /\ k \notin commands
     /\ chosen # {} /\ chosen \subseteq invoiced
     /\ requested <= Rest(Doc(r, v).amount, LiveOf(r))
     /\ Fresh(rows)
     /\ commands' = commands \union {k}
     /\ applied' = applied \union rows
     /\ receipts' = [receipts EXCEPT ![r] = [version |-> v, match |-> NoOrder, kind |-> "manual"]]
     /\ UNCHANGED <<onec, reversed, claim, pc, memory>>

-----------------------------------------------------------------------------
\* sync: the claim.

Goto(s, place) == pc' = [pc EXCEPT ![s] = place]

\* The active scope key is free, or its lease is over and the holder has no
\* transaction that keeps its row locked.
Claim(s) ==
  /\ pc[s] = "idle"
  /\ holder = NoRun \/ lapsed
  /\ journal' = [t \in Runs |-> IF t = s THEN "retry_requested"
                                ELSE IF t = holder THEN "error" ELSE journal[t]]
  /\ holder' = s /\ lapsed' = FALSE
  /\ Goto(s, "claimed")
  /\ UNCHANGED <<onec, ledger, commands, memory>>

\* The lease outlasts every transaction of its holder: each renews it first.
Lapse ==
  /\ holder # NoRun /\ pc[holder] # "tx"
  /\ ~lapsed /\ lapsed' = TRUE
  /\ UNCHANGED <<onec, ledger, commands, journal, holder, pc, memory>>

\* renewClaim: only the holder renews, also after its lease is over.
Renewed(s) == holder = s /\ lapsed' = FALSE /\ UNCHANGED <<journal, holder>>

\* The memory of a run that imports nothing more.
Forget(s) ==
  /\ pulled' = [pulled EXCEPT ![s] = [r \in Receipts |-> 0]]
  /\ plan' = [plan EXCEPT ![s] = [r \in Receipts |-> NoTask]]
  /\ seen' = [seen EXCEPT ![s] = NoReading]

\* PAYMENT_SYNC_CLAIM_LOST, an error of 1C, or a transaction that is rolled
\* back: a unique key that is taken, an order that is not posted any more, a
\* deadlock, a timeout.
Abort(s) ==
  /\ pc[s] \in {"claimed", "pulled", "applying", "tx"}
  /\ Goto(s, "failing")
  /\ Forget(s)
  /\ UNCHANGED <<onec, ledger, commands, claim>>

Release(s, status) ==
  /\ journal' = [journal EXCEPT ![s] = status]
  /\ holder' = NoRun /\ lapsed' = FALSE

\* fail: the journal is closed if the claim still stands.
Fail(s) ==
  /\ pc[s] = "failing"
  /\ IF holder = s THEN Release(s, "error") ELSE UNCHANGED claim
  /\ Goto(s, "over")
  /\ UNCHANGED <<onec, ledger, commands, memory>>

\* The process dies; the claim stays until its lease is over.
Crash(s) ==
  /\ pc[s] \notin {"idle", "over"}
  /\ Goto(s, "over")
  /\ Forget(s)
  /\ UNCHANGED <<onec, ledger, commands, claim>>

-----------------------------------------------------------------------------
\* sync: pull, compare, import, complete.

Pull(s) ==
  /\ pc[s] = "claimed"
  /\ Renewed(s)
  /\ pulled' = [pulled EXCEPT ![s] = [r \in Receipts |-> Written(r)]]
  /\ Goto(s, "pulled")
  /\ UNCHANGED <<onec, ledger, commands, plan, seen>>

\* Mutant: a receipt allocated by hand is left alone whatever 1C says.
SkipManual(r, v) ==
  \/ receipts[r].kind = "manual"
  \/ /\ receipts[r].version = v /\ receipts[r].match = Match(r, v)
     /\ \/ ~AutoApply \/ ~Doc(r, v).active \/ Match(r, v) = NoOrder
        \/ Rest(Doc(r, v).amount, LiveOf(r)) = 0

\* canSkipUnchangedReceipt.
CanSkip(r, v) ==
  /\ receipts[r].version = v
  /\ \/ receipts[r].kind = "manual"
     \/ /\ receipts[r].match = Match(r, v)
        /\ \/ ~AutoApply \/ ~Doc(r, v).active \/ Match(r, v) = NoOrder
           \/ Rest(Doc(r, v).amount, LiveOf(r)) = 0

\* The orders and the receipts are read once, before the first import: what
\* has changed and what it matches is decided here.
Compare(s) ==
  /\ pc[s] = "pulled"
  /\ plan' = [plan EXCEPT ![s] =
       [r \in Receipts |->
          LET v == pulled[s][r]
          IN IF v = 0 \/ CanSkip(r, v) THEN NoTask
             ELSE [version |-> v, match |-> Match(r, v)]]]
  /\ Goto(s, "applying")
  /\ UNCHANGED <<onec, ledger, commands, claim, pulled, seen>>

\* Mutant: the claim is not checked in the transaction.
BeginUnfenced(s, r) ==
  /\ pc[s] = "applying"
  /\ plan[s][r].version # 0
  /\ UNCHANGED claim
  /\ seen' = [seen EXCEPT ![s] = [receipt |-> r, version |-> receipts[r].version,
                                  originals |-> LiveOf(r)]]
  /\ Goto(s, "tx")
  /\ UNCHANGED <<onec, ledger, commands, pulled, plan>>

\* A transaction begins: it renews the claim and reads the receipt.
Begin(s, r) ==
  /\ pc[s] = "applying"
  /\ plan[s][r].version # 0
  /\ Renewed(s)
  /\ seen' = [seen EXCEPT ![s] = [receipt |-> r, version |-> receipts[r].version,
                                  originals |-> LiveOf(r)]]
  /\ Goto(s, "tx")
  /\ UNCHANGED <<onec, ledger, commands, pulled, plan>>

\* Mutant: a receipt that changed keeps its allocations.
NoReversals(s, task) == {}

\* reverseReceipt: every original read before, if the source has changed.
Reversals(s, task) ==
  IF seen[s].version # 0 /\ seen[s].version # task.version THEN seen[s].originals ELSE {}

\* Mutant: the rows read before the reversal are still subtracted.
AutoApplyToOld(r, task, live) ==
  LET rest == Rest(Doc(r, task.version).amount, LiveOf(r))
  IN IF ~AutoApply \/ ~Doc(r, task.version).active \/ task.match = NoOrder \/ rest = 0 THEN {}
     ELSE ApplyToOrder(live, r, task.version, task.match, rest, "auto")

\* autoApply: the rest of an active receipt to the order it matches.
AutoApplied(r, task, live) ==
  LET rest == Rest(Doc(r, task.version).amount, {a \in live : a.receipt = r})
  IN IF ~AutoApply \/ ~Doc(r, task.version).active \/ task.match = NoOrder \/ rest = 0 THEN {}
     ELSE ApplyToOrder(live, r, task.version, task.match, rest, "auto")

\* The rest of the transaction, under the locks of the receipt and the order.
Commit(s) ==
  LET r    == seen[s].receipt
      task == plan[s][r]
      gone == Reversals(s, task)
      rows == AutoApplied(r, task, Live \ gone)
  IN /\ pc[s] = "tx"
     /\ Fresh(rows)
     /\ rows # {} => task.match \in invoiced
     /\ reversed' = reversed \union gone
     /\ applied' = applied \union rows
     /\ receipts' = [receipts EXCEPT ![r] =
          [version |-> task.version, match |-> task.match, kind |-> "auto"]]
     /\ plan' = [plan EXCEPT ![s][r] = NoTask]
     /\ seen' = [seen EXCEPT ![s] = NoReading]
     /\ Goto(s, "applying")
     /\ UNCHANGED <<onec, commands, claim, pulled>>

\* complete: the claim must still stand.
Complete(s) ==
  /\ pc[s] = "applying"
  /\ \A r \in Receipts : plan[s][r].version = 0
  /\ holder = s
  /\ Release(s, "ready")
  /\ Goto(s, "over")
  /\ UNCHANGED <<onec, ledger, commands, memory>>

-----------------------------------------------------------------------------
Init ==
  /\ docs = [r \in Receipts |-> <<>>]
  /\ invoiced = {}
  /\ receipts = [r \in Receipts |-> NotStored]
  /\ applied = {} /\ reversed = {}
  /\ commands = {}
  /\ journal = [s \in Runs |-> "none"]
  /\ holder = NoRun /\ lapsed = FALSE
  /\ pc = [s \in Runs |-> "idle"]
  /\ pulled = [s \in Runs |-> [r \in Receipts |-> 0]]
  /\ plan = [s \in Runs |-> [r \in Receipts |-> NoTask]]
  /\ seen = [s \in Runs |-> NoReading]

Amounts == {fact.amount : fact \in UNION {Facts[r] : r \in Receipts}}

Next ==
  \/ \E r \in Receipts : OneCWrites(r)
  \/ \E o \in Orders : InvoiceMoves(o)
  \/ \E k \in Keys, r \in Receipts, targets \in [Orders -> {0} \union Amounts] : Resolve(k, r, targets)
  \/ Lapse
  \/ \E s \in Runs :
       \/ Claim(s) \/ Pull(s) \/ Compare(s)
       \/ \E r \in Receipts : Begin(s, r)
       \/ Commit(s) \/ Complete(s)
       \/ Abort(s) \/ Fail(s) \/ Crash(s)

Spec == Init /\ [][Next]_vars

-----------------------------------------------------------------------------
TypeOK ==
  /\ docs \in [Receipts -> Seq(Fact)]
  /\ \A r \in Receipts : Written(r) <= MaxVersion[r]
  /\ invoiced \subseteq Orders
  /\ receipts \in [Receipts -> Stored]
  /\ applied \subseteq Allocation /\ reversed \subseteq applied
  /\ commands \subseteq Keys
  /\ journal \in [Runs -> Statuses]
  /\ holder \in Runs \union {NoRun} /\ lapsed \in BOOLEAN
  /\ pc \in [Runs -> Places]
  /\ pulled \in [Runs -> [Receipts -> Versions]]
  /\ plan \in [Runs -> [Receipts -> Task]]
  /\ seen \in [Runs -> Reading]

\* The allocations made from one state of a receipt never exceed its amount,
\* and are only made from an active one, whoever makes them: a manager, a sync
\* or both, with reversals in between (PAYMENT_ALLOCATION_EXCEEDS_RECEIPT).
AllocatedWithinItsVersion ==
  \A r \in Receipts : \A v \in 1..Written(r) :
    LET rows == {a \in LiveOf(r) : a.version = v}
    IN rows # {} => Doc(r, v).active /\ Total(rows) <= Doc(r, v).amount

\* An automatic allocation never outlives the state of the receipt it was made
\* from; only one made by hand can, while a sync was importing the receipt.
StaleRowsAreManual ==
  \A a \in Live : a.kind = "auto" => a.version = receipts[a.receipt].version

\* All receipts and syncs together never pay a schedule twice: what exceeds it
\* stays on the order.
SchedulesNeverOverpaid ==
  \A o \in Orders : \A s \in Schedules(o) :
    Total({a \in Live : a.order = o /\ a.schedule = s}) <= Plan[o][s]

\* A receipt stored as matched to an order has no money left, also after it
\* changed in 1C and its former allocations were reversed.
MatchedMoneyIsAllocated ==
  \A r \in Receipts :
    LET row == receipts[r]
    IN AutoApply /\ row.match # NoOrder /\ Doc(r, row.version).active
         => Rest(Doc(r, row.version).amount, LiveOf(r)) = 0

\* A sync that reports success has brought every receipt it pulled at least to
\* the state it pulled, the skipped ones included.
ReadyMeansImported ==
  \A s \in Runs : journal[s] = "ready" =>
    \A r \in Receipts : receipts[r].version >= pulled[s][r]

\* A sync that lost its claim, asleep with an older snapshot, never puts a
\* receipt back.
VersionNeverGoesBack ==
  [][\A r \in Receipts : receipts'[r].version >= receipts[r].version]_vars

\* What the importer promises of a receipt that was unposted or reduced in 1C:
\* no more is allocated than it holds.  Violated: a manual allocation that
\* commits after a sync has read the receipt and before it writes it is not
\* reversed, then or later.
NothingBeyondTheReceipt ==
  \A r \in Receipts : receipts[r].version # 0 =>
    LET doc == Doc(r, receipts[r].version)
    IN Total(LiveOf(r)) <= IF doc.active THEN doc.amount ELSE 0
================================================================================

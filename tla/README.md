# PlenkaCover: models, model checks and proofs

PlenkaCover is the manufacturing execution system of a plastic-film factory: a
NestJS API over PostgreSQL (`apps/api`), an agent at every machine post that
drives scale, printer and scanner (`apps/gateway-agent`), a shared package of
contracts (`packages/contracts`) and a React front end (`frontend-siemens`). It
exchanges orders, invoices, payments and stock with 1C:Enterprise.

The API is mostly transactional request/response code; what can go wrong beyond
a unit test lies where it meets the physical world and other systems: a label
that must not be printed twice, a document in 1C that must not be posted twice,
results and events that are lost, late or repeated, and API or agent processes
that die in between. The modules here model that part, from the source, and are
kept beside it.

## 1. Inventory

### Command protocol between platform and post

*Platform side* - `modules/gateway/gateway.service.ts`. State: the table
`gateway_commands` (status, lease token and its end, deadline, attempt, result
with fingerprint) and, in process memory, the map `pending` of business requests
that wait for an answer, each with a timer. Operations: `dispatchCommand`
(insert, register, look again), `pollCommands` (agent: settle what is overdue,
claim the oldest queued command under the lock of the post row),
`resolveCommand` (agent: accept, recover, dedupe or reject a result),
`handlePendingTimeout` (timer), `reconcileExpiredCommands` (sweeper),
`onModuleInit`/`onModuleDestroy`. Hard: at READ COMMITTED each of these reads,
decides and writes under a guard while the others commit; a command with a
physical effect (`print`, `device_recover`) must never be handed out twice; the
clock decides between "was not sent" and "nobody knows". Correct means: one
command in flight per post; a definite answer is durable; an acknowledged result
is stored; everything is settled; no request hangs.

*Agent side* - `apps/gateway-agent/src/agent.ts` (`pollOnce`,
`hasExecutionGrant`, `flushResults`), `result-outbox.ts`, `commands.ts`,
`api-client.ts`. State: the outbox file and its quarantine, `pollAllowed`, the
command at hand. Hard: the process may die between the effect and the stored
result; a request may be lost or served after the agent gave up on it. Correct
means: a label is printed at most once per command, never after the deadline,
and the row does not contradict the paper.

### Device events

`apps/gateway-agent/src/offline-buffer.ts` and the heartbeat loop of the agent;
`ingest` and `heartbeat` of the gateway service. State: events in memory and in
`events.jsonl`, `lastDeviceStatus`; on the platform `gateway_events` (unique per
post and event) and `device_runtime.status`. Hard: two asynchronous loops share
the buffer, the file is written once per flush, stale statuses arrive late.
Correct means: nothing is lost or reordered while there is room, and the
platform ends up with the status of the device.

### Push of the stock into 1C

`modules/warehouse/warehouse-onec-stock-push.service.ts`,
`integrations/onec/onec-import.service.ts`, `http-onec.adapter.ts`: the only
write into 1C. State: `onec_stock_push_operations` (unique by operation key and
by snapshot hash) and the revisions of the stock rows. Hard: two users push the
same snapshot at once; 1C serves late; create and post are two requests; the
update that records the success may fail after 1C has posted. Correct means: one
attempt per snapshot, a success is real, and the table is evidence an
administrator can rely on.

### The label of a roll

`modules/operator/operator-physical.service.ts` (`printQr` and the other steps
of a roll), `operator-operation.service.ts` (the journal of operations),
`operator-step-back.service.ts`, `operator-shift.service.ts` (close),
`operator-session.service.ts` (take-over of the backlog),
`common/printing/gateway-print-failure-reconciliation.ts` and
`modules/admin/admin-label-print-reconciliation.service.ts`. State: the roll line
with its dispatch item (step, label state, status, owner),
`operator_roll_operations` (status, error, lease; one in progress per roll by a
partial unique index) and `label_print_jobs`. Hard: between the transaction that
claims a print and the one that records it lie a printer, a lease, a shift that
may end and a process that may die; the outcome may stay unknown, and the
request, a repeated request, the sweeper and the administrator may all settle
it. Correct means: journal and job agree, labels of a roll come out one at a
time, a settled job is never contradicted, no roll passes without a label, and
the weight on the label stays the recorded one.

### The ledger of received money

`modules/finance/onec-payment-sync.service.ts` (`sync`, `claimSync`,
`renewClaim`, `importReceipt`, `reverseReceipt`, `autoApply`, `complete`,
`fail`), `payment-allocation.service.ts` (`resolve`, `applyToOrder`) and the
shared helpers of both. State: `finance_payment_receipts` (a mirror of the bank
documents of 1C with match and match kind), `finance_payment_allocations`
(positive rows and negative rows that reverse them), the commands of managers,
and `sync_journals` with the active scope key and its lease. Hard: a sync pulls
once and imports one transaction per receipt, its lease may lapse and a second
sync overtake it, receipts change in 1C in between, invoices are posted and
unposted, and managers allocate the same receipts; transactions are READ
COMMITTED and read before they lock. Correct means: no state of a receipt is
allocated beyond its amount, no schedule is paid twice, what 1C has withdrawn is
reversed, a sync that lost its claim changes nothing, and a success is complete.

### Pallets and the hand-off of an order

`modules/warehouse`: `warehouse-intake-integrity.service.ts` (scan),
`warehouse-pallet-selection.service.ts` (select, deselect, annul),
`warehouse-pallet.service.ts` (positions, seal), `pallet-print.service.ts`,
`warehouse-pallet-handoff.service.ts` and `warehouse-pallet-delivery.service.ts`
(scans of the pallet list), `warehouse.service.ts` (closing of tasks);
`common/order-fulfillment` (what is complete, the delivery task and its rows);
the administrator's and the gateway's reconciliation of pallet prints. State:
intake and delivery task with a row per roll, `warehouseStatus` of the rolls,
pallets with items by position, `PalletListDocument`, `pallet_print_jobs`, the
command journal and `readyForShipmentAt`. Hard: most transactions are
SERIALIZABLE, the claim of a print is not; a pallet is annulled while others
print, close or deliver; the hand-off is tried in several transactions,
whichever first sees the order far enough. Correct means: a list describes its
pallet, a closed intake stays covered, delivery rows, stock and journal agree,
and an order is ready when it is whole.

### Not modelled yet

| component | state | hard behaviour | what makes it correct |
|---|---|---|---|
| The rest of the operator's work (defects, labels of defect bags and big bags with `admin-print-recovery`) | print jobs of their own | three parties settle one unknown print | a settled job is never contradicted |
| Operator sessions, shifts, defect bags (`operator-session`, `operator-shift`, `operator-defect-bag`, `common/shift-bag`, `common/weight-capture`) | post sessions, shifts, backlog of a post, weight intents | racing opens, hand-over of the backlog, a breakdown during a shift, a stale weight intent | one active session per operator, the backlog of a post has one owner |
| The rest of the warehouse (control weights, damage, big bags, reservations, legacy lists) | operation rows with a 30 s lease, bags, reservations | expiry against completion | a scan row is accepted once |
| Warehouse coverage (`modules/warehouse-coverage`) | coverage decisions, reservations, recheck cases | decisions over stock that moves, lock order | a roll covers at most one order |
| The rest of finance (`modules/finance`, `common/invoice-boundary`) | payment states, production clearance, deferrals, corrections | clearance derived from the ledger | production starts on money that is there |
| The rest of the 1C synchronisation (`integrations/onec`, orders and invoices) | imported orders and invoices | two schedulers, partial imports | an import is idempotent |
| Commercial and production (`modules/commercial`, `modules/production`) | orders, tasks, plans | amendment during hand-off | a hand-off happens once |
| Device drivers (`apps/gateway-agent/src/devices`) | serial exchange, frame decoder, printer | a late frame answers the wrong request | an answer belongs to its request |
| Incidents, role inbox, projections, payroll tariffs, platform QR | derived rows | best-effort reporters | views only; a failing reporter changes nothing |
| Authentication, administration, audit, health | sessions, accounts, audit | - | one row per request |
| Contracts, front end, deployment and release scripts | none | - | - |

More than half of the repository's lines are the front end, scripts, tests of
both, types and CRUD code: they hold no protocol that a state model could check.

How they interact: a business request of the operator or warehouse modules
creates a print job or weight intent and calls `dispatchCommand`; the agent of
the post polls it, executes it and reports; `resolveCommand` settles the row and
answers the request, or, if the request is gone, the reconciliation of print
jobs and the administrator settle the job later. Heartbeats and statuses feed
device readiness and incidents. The stock push is called from the warehouse
module and talks to 1C through the adapter. A roll that production has sent is
scanned at the intake, leaves on a delivery task that the fulfilment of its order
creates, and its pallet list is printed through the gateway. Payments of the
order come from 1C; its payment state follows from their allocations.

## 2. Modules

| module | models | kind |
|---|---|---|
| `CommandContract` | what the platform promises about a command, without polls, leases, clocks and transactions | abstract specification |
| `GatewayCommands` | the table and all transactions of `GatewayService` on it; the agent is an arbitrary environment | component, implements `CommandContract` |
| `GatewayCommandsProofs` | theorems about `GatewayCommands` | proofs |
| `LabelCommand` | what platform and agent together promise the request that prints one label | abstract specification |
| `GatewayAgent` | `pollOnce` with outbox, grant, device and crashes | component |
| `GatewayLink` | `GatewayCommands` and `GatewayAgent` over a network that loses, delays and repeats | composition, implements `GatewayCommands` and, for each print, `LabelCommand` |
| `GatewayLinkProofs` | theorems about `GatewayLink`, both refinements included | proofs |
| `EventBuffer` | buffer, heartbeat pass, ingest, heartbeat | component |
| `EventBufferProofs` | theorems about `EventBuffer` | proofs |
| `OneCStockPush` | the push, its table, and 1C as an external that may be late | component |
| `OneCStockPushProofs` | theorems about `OneCStockPush` | proofs |
| `PrintJobContract` | the promise about the labels of one thing: jobs, one after another, that end once and truthfully | abstract specification |
| `RollPrint` | the prints of one roll with journal, leases, shift changes and reconcilers, over `LabelCommand` | component, implements `PrintJobContract` |
| `RollPrintProofs` | theorems about `RollPrint`, the refinement included | proofs |
| `PaymentLedger` | receipts, allocations and reversals, manual allocation, the leased payment sync; 1C as an external that changes documents at any time | component |
| `PaymentLedgerProofs` | theorems about the versions of `PaymentLedger` | proofs |
| `PaymentSumsProofs` | theorems about the amounts of `PaymentLedger` | proofs |
| `WarehousePallets` | one order from the intake scan to the delivery, with pallets, pallet lists, prints and annulments | component, implements `PrintJobContract` for each pallet list |
| `WarehousePalletsProofs` | theorems about `WarehousePallets`, the refinement included | proofs |
| `MC*` | instances for TLC | model checking |

Every definition that stands for code is listed in `PROJECT.json` under `map`
with the lines it translates. The operators marked *Mutant* are plausible bugs
of the definition after them; a property counts only because one of them breaks
it.

### From the code to the modules

*Transactions.* PostgreSQL runs the gateway transactions at READ COMMITTED. A
poll transaction updates rows before it commits and is split into `PollBegin`
(lock of the post row, settle, claim: the new row versions are in `draft`, which
is also the set of row locks it holds) and `PollCommit`/`PollAbort`. A result or
timeout transaction reads a row, decides, and writes under a guard; it is split
into the read, which records the row it saw, and the commit, where the guard is
evaluated on the newest version (`View` against `Base` in `Outcome`). A guarded
update waits for a locked row. The four statements of the sweeper each look at
rows of different status or kind and are one step, `Sweep`.

*Values.* A lease token is the attempt that minted it. A result is its status
and a reason; `Replies` tells apart two results with the same status, which
differ by fingerprint in the code. Time is one clock in ticks. A lease lasts
60% of the timeout and never outlives the deadline; for an unsafe command it is
the deadline, which is why the branch of the sweeper that looks for abandoned
unsafe leases coincides with the deadline.

*Process memory.* `caller`, `firing` and `verdict` are the pending map and the
open callbacks of timers; `acks` are results between their commit and their HTTP
answer. `Restart` forgets them and rolls open transactions back.

*The agent.* One variable `pc` walks `pollOnce`: deliver stored results, poll,
decide by `HasExecutionGrant`, execute, store, deliver. `Crash` keeps the files
and the physical facts. The device is external: at most one effect per
invocation, "failed" only if there was none, "done" only if there was one.
`GatewayLink` keeps every result that was put on the wire in `sent`, from where
it may be served again and late; `late` counts abandoned polls.

*Events.* `SendHead`, `Serve` and `Acknowledged` are the await inside `flush`;
`StoreWeight` is the other loop of the agent; the file is written by `Enqueue`
and once at the end of a flush.

*Stock.* The hash of a snapshot covers the revision of every stock row and a
trigger increases a revision on every change, so a hash stands for one state of
the stock: a number. `seen` is the row a call has read by its key and uses after
the second lookup. `wire`, `served`, `created` and `posted` are 1C: it may serve
a request after the platform has given up, refuse it, or lose it.

*The roll.* `RollPrint` follows one roll; nothing relates two rolls. All
transactions are SERIALIZABLE and lock the roll, so each is one step; `call` is
where the request that claimed a print stands between its transactions, and
`linked` the jobs that stored the id of their command. A key claims one print;
its later uses are `Retry` (the same request, lease lapsed) and `SettleExpired`
(a request that fails and settles a lapsed print of the same user and reason). A
lease token never matters on its own: a repeated print request ends the
operation it took over, and a repeated weighing reads the scale anew. The
gateway command is used through the operators of `LabelCommand`: how its row
moves (`Moves`), what the agent does (`Works`) and what the request may be told
(`Tells`), which is what `GatewayLink` is proved to keep; that one command of a
post is in flight comes from `CommandContract`. `Reported` is what
`GatewayPrinterAdapter` makes of what it is told: only "failed" and "not
dispatched" are a failure, and an error that is not a timeout loses the id of
the command. `printed` and `submitted` are treated alike by the code
and are one state. Two assumptions are about the world: the lease does not lapse
between the claim and the dispatch of a process that lives (it outlasts the
longest command by a minute), and the administrator looks at the printer while
it is not printing and reports what he saw. Other operations on the roll claim
and complete their journal row in one transaction and appear as guards (`Free`)
only; weighing has the scale in between and is `weighing`.

*Payments.* A document of 1C is a sequence of versions; a receipt row is the
version it was imported from (0 for no row), so comparing fingerprints of sources
is comparing versions. An allocation carries the version it was made from, which
the table does not; only the properties read it. `applied` holds positive rows
and `reversed` those that have their negative row. `resolve` locks the receipt
first and is one step. The transaction of an import is two, `Begin` (renew the
claim, read the receipt with its allocations, no lock) and `Commit`; while it is
open the lease does not lapse, because it has just been renewed for longer than
the transaction may take. `Compare` fixes the matches of all receipts before the
first import, as the code does. `Fresh` is the unique allocation key. `Abort` is
every way a transaction fails, `Fail` and `Crash` end the run with and without
closing the journal. `VersionNeverGoesBack` relies on 1C answering a pull with
its present state; a pull that answers late is not modelled.

*Pallets.* SERIALIZABLE transactions, and those that lock and change the row of
the task, are one step. An annulment is `VoidBegin` (its first statement locks
the task and takes the snapshot: only what it sees of prints matters later) and
`VoidCommit` or `VoidAbort`; in between only prints, deliveries of single rolls
and the closing of the delivery task move, the others wait for the task
(`TaskFree`). Those do not touch the row an annulment reads except the status of
rolls, which it does not ask for. A print is `Claim`, `CallPrinter`, `Record`,
with `Die` in between; the printer's command is external and may be alive after
an unknown answer (`pending`). Positions of items are those of the sequence
`items[p]`; a pallet list is a function from positions to rolls, because a roll
taken off before sealing leaves a gap, and `Valid` asks for positions without
one as `validatedPhysicalPallet` does. Requests that repeat a stored operation
key return the stored answer and are stutters. `TryHandoff` is
`reconcileInTransaction` where the caller tolerates that nothing is handed off;
`HandoffFits` are its refusals.

## 3. Runs

| run | question | bounds and why they are enough |
|---|---|---|
| `commands` | do all interleavings keep the protocol's promises; is an answer lost before its request has registered; does a pair of commands implement the contract? | a print and a scale read at one post (the rules differ by kind, posts do not share rows), timeout 2, clock up to 2, one result transaction at a time; one distinct reply |
| `live` | is everything settled, and does every request end, without an agent? | the pair of commands, no results (the agent may never answer); fair specification. That an answer of the agent is not missed is `NoAnswerIsMissed` of `commands`: the timer ends the request either way |
| `link` | at most once, in time, truthful; is the promise to a print request kept? | one print, one result transaction, one abandoned poll under way, clock up to 3; every request may be lost, late, repeated |
| `buffer` | nothing lost or reordered; does the platform converge? | capacity 2, four events, two changes of status: the buffer overflows, reloads and retries within them; fair specification |
| `bufferDrop` (violation) | does only overflow drop events? | as `buffer` |
| `stockPush` | one attempt per snapshot, true evidence | three calls (a race of two and a late third), two keys, two users, two states of the stock |
| `rollPrint` | journal, labels and weight of a roll; the contract of a print job | two prints by two users over two sessions, with and without a reason: a reprint, a lapsed print under a new owner and a repair followed by a print all fit; a third key adds states only |
| `rollPrintStuck` (violation) | is a job of unknown delivery on a marked roll? | as `rollPrint` |
| `payments` | is money allocated once, reversed when withdrawn, and a sync complete? | two syncs (one overtakes the other), a manager with one command, two receipts of which one changes once (unposted, or reduced and of another order), two orders with two schedules and one: overpayment, partial payment and reversal with a new allocation all occur |
| `paymentsRace` (violation) | is everything reversed that 1C has withdrawn? | as `payments` |
| `pallets` | lists, coverage, delivery and readiness; the contract of a print job for each list | two rolls, two pallets (one packed anew after an annulment, or two side by side), two print requests, five journal rows: enough to select both rolls, annul, select again and hand off |
| `palletVoidRace` (violation) | is no print under way for an annulled list? | as `pallets` |

Deadlock is not checked where the bounded clock, the bounded number of commands
or calls really ends every behaviour; in `buffer` a crash is always possible and
deadlock is checked.

Bounds that appear in guards: `MaxTime` (clock; a command is created only if its
deadline is reached), `MaxResolving`, `MaxLate`, `MaxEvents`, `MaxChanges`,
`MaxRevision`, `MaxSession` (sessions that own the roll), `MaxVersion` (documents
of a receipt), `MaxPallets`, `MaxCommands` (rows of the command journal).

### What the runs found

* `bufferDrop`: `flush` shifts the head after an await during which `enqueue`
  may have dropped that head from a full buffer; an event nobody delivered is
  removed instead.
* `rollPrintStuck`: a shift closed during a print defers the roll under it.
  `markPrintDeliveryUnknown` then marks the job but not the roll, whose step has
  changed, and both reconcilers ask for a marked roll: the job stays unknown and
  every further print of the roll is refused.
  The same happens when, after a reprint of unknown delivery, `verifyQr`
  accepts the older label.
* `paymentsRace`: the import reads a receipt with its allocations before it locks
  it. A manual allocation that commits in between is not reversed, the receipt is
  stored as unposted or reduced, and later syncs skip it as unchanged
  (`onec-payment-sync.service.ts:434`). Automatic rows are never left behind
  (`StaleRowsAreManual`, proved).
* `palletVoidRace`: the lookup of queued prints in `executeVoid` uses the snapshot
  of its first statement; a claim that commits after it and before the document
  is locked is not seen, and conflicts with nothing because it changes no row the
  annulment reads. The annulment commits while the label is printed. The
  contract of the print job is not touched by this.

### Fairness

`GatewayCommands!Fairness`: time passes; the sweeper runs on an interval that
`onModuleInit` starts again after every restart; timers of registered requests
fire; a transaction ends, by commit or rollback, because statements have
timeouts; an update that waits for a row lock is queued behind its holder, hence
strong fairness where a new poll could overtake it again and again. Nothing is
assumed of the agent, and restarts are not bounded: a request whose process died
has ended, too.

`EventBuffer!Fairness` (`FairSpec`): the heartbeat interval fires; a request ends; the
network is good again and again (strong fairness of a served heartbeat, a served
event and its answer). Crashes may happen for ever, and `DeviceChanges` is
bounded, so "the device stops changing" is part of the instance.

## 4. Proofs

TLAPS checks the theorems for every number of commands, posts, calls, users,
keys, receipts, orders, syncs, rolls and pallets, every timeout and every clock.
They rest on the named assumptions of the modules (`ConstantsAssumption`,
`LinkAssumption`, `BufferAssumption`, `StockAssumption`, `RollAssumption`,
`LedgerAssumption`, `BoundsAssumption`) only: the constants have their types, and
the values that stand for "absent" are not values of the type. The bounds of the
runs (`MaxTime`, `MaxResolving`, `MaxLate`, `MaxEvents`, `MaxChanges`, `MaxRevision`,
`MaxSession`, `MaxVersion`, `MaxPallets`, `MaxCommands`) are arbitrary in the proofs and play no
part in them. TLC evaluates every assumption in the runs.

How the results build on each other:

    GatewayCommands ==> CommandContract          (Refinement)
    GatewayLink     ==> GatewayCommands          (LinkImplementsPlatform)
    GatewayLink     ==> LabelCommand, per print  (PrintsKeepPromise)
    RollPrint, over LabelCommand    ==> PrintJobContract  (PrintsKeepContract)
    WarehousePallets, per pallet list ==> PrintJobContract  (PrintsKeepContract)

*`GatewayCommandsProofs`.* None of the properties is inductive. The invariant is

    IInv == TypeOK /\ DraftsAreLegal /\ OneInFlightPerPost /\ ClaimIsAlone
              /\ UnsafeIsNeverRequeued /\ CopiesAreTrue

`DraftsAreLegal` says that what a poll has written and not committed is over an
open row, because every other writer waits for it; `ClaimIsAlone` carries "one
in flight" from the claim to the commit; `UnsafeIsNeverRequeued` makes a queued
unsafe row one that was never handed out; `CopiesAreTrue` says that a final row,
once read by a transaction, a timer, an acknowledgement or an answer, is still
what it was, which is what makes an answer durable: the only settled row that
may change is an unknown delivery left by the deadline. Theorems: `TypeCorrect`,
`OneInFlight`, `DurableAnswers`, `StoredAcknowledgements`, and `Refinement`,
which shows that every step maps to a step of `CommandContract` or a stutter
under `fate <- [c \in Commands |-> cmd[c].status]`. A second invariant,

    History == RowsRemember /\ DraftsRemember /\ WaitersInStep /\ ResultsInStep

is inductive together with the first and says what the agent's side rests on: how
often a row was handed out and under which lease, what an uncommitted version may
be, that a timer fires after the deadline of a row that exists, and that a
rejected result of a print meets a settled row. `HandedOutOnce` is its part for a
reader.

`NoAnswerLost` is proved on top of both. A command can be polled, executed and
answered between its insert and its registration in the pending map; the proof
follows the three ways `NoAnswerIsMissed` could break: a request starts to wait
only while its row is open (`WaitingStarts`, the look of `activateCommand`), the
transaction that makes a row definite leaves an acknowledgement behind
(`DefiniteIsAcknowledged`), and that goes away only with the wait (`AcksServe`).

*`GatewayLinkProofs`.* The agent and the wire are the environment that
`GatewayCommands` leaves arbitrary, so a step of the link is a step of the
platform or leaves its variables alone (`LinkImplementsPlatform`), and the
invariant contains those of the platform:

    IInv    == Platform!IInv /\ Platform!History /\ LinkInv
    LinkInv == TypeOK /\ AgentTypes /\ InPlace /\ InvokedInTime /\ OnlyWhatWasGiven
                 /\ OneCourse /\ BudgetInTime /\ ExpiredIsOver /\ InHandIsInFlight
                 /\ RowsRepeatResults

`OneCourse` (a print is on its way, in hand, or written down with what really
happened) gives `PrintAtMostOnce`; it needs `OnlyWhatWasGiven` and the single
handout of `RowsRemember`. `BudgetInTime` carries the deadline from the commit of
a poll over the wire to the execution grant and gives `InvokedInTime`.
`ExpiredIsOver` is the subtle one: a timer that read a queued row tells "expired"
although a poll has claimed the command meanwhile; the claim can no longer be
executed because the deadline has passed and the grant compares with it.
`RowsRepeatResults` makes a definite row a copy of a result the agent has sent.
The theorems of the platform are imported as lemmas of a second instance with the
same substitution (`Proved`); the lemmas named `Same...` say that the two
instances are one. `PrintsKeepPromise` maps the printer's part to what the agent
holds and has written (`AtPrinter`), and counts a print whose request was told
"expired" as over (`Paper`), because it is: that is `ExpiredIsOver` again.
Theorems: `Invariance`, `TypeCorrect`, `AtMostOneLabel`, `DeviceInTime`,
`ExpiredIsSafeToRepeat`, `SettledRowsAreTrue`, `RejectionLosesNothing`,
`LinkImplementsPlatform`, `LinkKeepsContract`, `PrintsKeepPromise`.

*`EventBufferProofs`.* The invariant is

    IInv == TypeOK /\ Loadable /\ (overflown = {} => Ordered)

`Ordered` sees the buffer, the file and the journal as windows of one numbered
queue: buffer and file both end with the newest event, the file may begin earlier
than the buffer because it is written once per flush, and the journal reaches at
least to where the buffer begins. From this follow `NothingIsLost` and
`JournalInOrder`. Once a full buffer has dropped an event neither is claimed:
`bufferDrop` shows why. Theorems: `Invariance`,
`TypeCorrect`, `NothingLost`, `JournalledInOrder`.

*`OneCStockPushProofs`.* The invariant is

    IInv == TypeOK /\ RowsAreClaims /\ ClaimComesFirst /\ ConfirmationsAreTrue
              /\ SuccessIsPosted /\ LedgerTellsTheTruth

`RowsAreClaims` (a row is the request of the call that inserted it, and no two
rows are about one snapshot) and `ClaimComesFirst` (who talks to 1C has a row)
together give `OneAttemptPerSnapshot`: two requests of one step for one snapshot
come from one call. `ConfirmationsAreTrue` includes the row a call remembers
from its second lookup: it may be outdated, but what it says of 1C still holds.
The proof goes through lemmas that say what a step does to requests, rows,
program counters, memories, 1C and answers; each part of the invariant is then
preserved by these few facts instead of by every action. Theorems:
`TypeCorrect`, `OneAttemptOnly`, `SuccessIsReal` (a success has its posted
document; no run checks it, it breaks with `LedgerTellsTheTruth`), `LedgerIsTrue`.

*`PaymentLedgerProofs`.* The invariant is

    IInv == Shape /\ Fenced /\ Behind /\ Remaining /\ Ready /\ Reads /\ StaleRowsAreManual

`Fenced` (who is in a transaction holds the claim and its lease) makes the claim
a mutual exclusion of importing transactions, although `Begin` reads without a
lock; `Behind` and `Remaining` say how store, snapshot and 1C are ordered;
`Reads` says that a transaction knows the stored version of its receipt and every
automatic allocation of it, since only another import could have added one. That
is what `StaleRowsAreManual` needs, and it is false of manual allocations, which
is `paymentsRace`. Theorems: `Invariance`, `AutomaticRowsFollowTheSource`,
`ReadySyncsImported`, `ReceiptsNeverGoBack`.

*`PaymentSumsProofs`.* The amounts. The invariant is `IInv /\ MoneyInv` with

    MoneyInv == Known /\ AllocatedWithinItsVersion /\ SchedulesNeverOverpaid
                  /\ MatchedMoneyIsAllocated

`Known` says that rows are finitely many and of versions 1C has written, so that
the rows of a new version start from nothing. A sum over a set of rows is a fold;
what it computes is shown without a theorem that takes an operator: among the
subsets for which a sum would be wrong there is a smallest one
(`FS_StrictSubsetOrderingWellFounded`, `WFMin`), and it leads to a smaller one. From
this come the lemmas about sums of disjoint sets, of subsets and of one row more,
and about the walk of `allocatePaymentAmount` over the schedules
(`AllocationIsExact`). Each step then changes a sum by rows it adds or reverses.
Theorems: `MoneyInvariance`, `TypeCorrect`, `NeverBeyondItsVersion`, `NeverOverpaid`,
`MatchedIsAllocated`, `AllocationIsExact`.

*`RollPrintProofs`.* The invariant is

    IInv == TypeOK /\ LineFits /\ JournalMatchesJob /\ InStepAll
              /\ OneUndecided /\ WeighedFirst /\ NoLabelNoPassage

`InStepAll` ties the request, its operation, its job, its command and the printer
together (a failed job is blank: no label came out and none can), `OneUndecided`
allows one open or unknown job per roll, and both give `OneLabelAtATime`.
`LineFits` and `WeighedFirst` carry the step of the roll over deferrals, close of
shift and take-over for `NoLabelNoPassage` and `WeightIsFrozen`. Every step is
first reduced to what it does to one key and to the roll (`Effect`, `Walks`); the
parts follow from these. Theorems: `Invariance`, `TypeCorrect`,
`JournalAgreesWithJob`, `LabelsOneAtATime`, `PassageNeedsLabel`, `WeightStaysFrozen`,
and `PrintsKeepContract`, the refinement of `PrintJobContract`.

*`WarehousePalletsProofs`.* The invariant is

    IInv == TypeOK /\ VoidHoldsTask /\ RowsFollowStock /\ ListMatchesPallet
              /\ ClosedIntakeIsCovered /\ DeliveryMatchesStock /\ ReadyIsWhole
              /\ PrintsInStep /\ OneUndecided

`VoidHoldsTask` (no annulment is under way once the intake is closed) carries
`ClosedIntakeIsCovered` over `VoidCommit`; `RowsFollowStock` ties the two tasks
of a roll together for `DeliveryMatchesStock`; `PrintsInStep` and `OneUndecided`
are what the contract of a print job needs. `AttachEffect`, `ReleaseEffect`,
`HandoffEffect` and `DeliveryEffect` say what the operations do to items, rows
and stock, and `JobsMove` what a step does to a print job; the parts follow from
these. Theorems: `Invariance`, `TypeCorrect`, `ListsMatchPallets`,
`ClosedIntakeStaysCovered`, `DeliveryAgreesWithStock`, `ReadyOrdersAreWhole`, and
`PrintsKeepContract`, the refinement of `PrintJobContract` for every pallet list.

Only model-checked: the liveness properties `EveryCommandSettles`,
`NoRequestHangs` and `PlatformConverges`, because TLAPS has no rule for fairness and
ENABLED here. Every invariant and every action property of a passing run, and
every refinement, is proved.

## 5. What is left out of the modelled parts

* `dispatchCommand` in simulator mode (answers at once, no agent) and the error
  paths before the insert.
* The orderly stop of the service: it rejects the waiting requests as `Restart`
  does.
* The check of a result against its command's contract (422): such a result
  changes nothing, and a result that fails it is one more rejected answer.
* An agent whose protocol is refused polls nothing: `PollNotAllowed` on its
  side.
* What a settled command writes beside its row: audit facts, device recovery
  state and incidents. The reporter of incidents swallows its errors; the audit
  record of a conflict does not, and is `ConflictUnaudited`.
* Corrupt records of the two files of the agent are set aside on load.
* Heartbeats that are served late, and more than one device.
* An empty or invalid snapshot, the conversion of quantities, the catalogue item
  that is created before the first document (a request to 1C that posts no
  stock), a stored result that was damaged by hand.
* Of a roll: defects, cancelled orders, the spool, the reweighing at hand-over
  that repairs rows of an invalid weight (a weight this code refuses to record),
  blocking defects and provenance checks of the hand-over, and what it writes in
  the warehouse. The journal does not remember an operation that was completed
  in its own transaction, because its repetition only returns the stored result.
* Of the payments: corrections and deferrals, payment states and the production
  clearance derived from allocations, invoice amounts, the confirmation of a match
  by hand, and the switch-off of automatic application during a sync.
* Of the pallets: damage and control weights (the capture of a weight is refused
  by this code), reservations, big bags, legacy lists, browser and system prints,
  cancelled orders, production problems, rolls taken from stock, and the
  projections.

### Observed while modelling

Statements about the code that no run checks, because they are consequences of a
single condition or of what is left out:

* `resolveCommand` rejects the exact late answer of an expired command if it has
  read the row in flight and the sweeper settled it before the guarded update
  (`gateway.service.ts:822`); the row stays unknown (`RejectedLeavesUnknown`).
* A stock push whose key has succeeded is refused instead of replayed once the
  stock has changed, because the snapshot is compared first.
* A roll deselected before sealing leaves a gap in the positions; the sealed
  list prints and closes the intake, but `validatedPhysicalPallet` refuses every
  hand-off and delivery scan of it.
* A pallet print whose process died stays queued: nothing settles it, and it
  blocks further prints and the annulment of its list.
* An annulment does not ask whether rolls of the pallet were delivered, and
  their delivery rows stay; a delivery task may be closed as full before the
  order is complete, after which the remaining rolls have no open task.
* `allocationKey` does not contain the key of the command, so two equal manual
  allocations of one receipt collide; an order whose invoice is unposted between
  the matching and the import of its receipt fails the whole sync; a manual
  decision taken between the comparison and the import of a changed receipt is
  overwritten.

## 6. Plan

1. Operator sessions: openings that race, the hand-over of the backlog of a post,
   breakdowns and the close of a shift; the labels of defect bags and big bags.
2. Coverage: recheck and reservation recovery, with the lock order of its parts.
3. Warehouse operations with the 30 s lease; big bags.
4. Production clearance from the ledger; amendment of orders during hand-off.
5. Device drivers: the serial exchange and the frame decoder; pure functions
   (canonical JSON, payroll tariffs) against reference definitions.
6. Proofs: the new components with their invariants; that the requests of
   `WarehousePallets` get from the gateway what `LabelCommand` promises, as those of
   `RollPrint` do. Runs: liveness of the link ("the outbox drains").

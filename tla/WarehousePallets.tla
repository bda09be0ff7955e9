---------------------------- MODULE WarehousePallets ----------------------------
(***************************************************************************)
(* The way of one order through the warehouse: its rolls are scanned at    *)
(* the intake, collected on pallets, sealed into pallet lists, printed,    *)
(* perhaps annulled, handed off and delivered.  One intake task and one    *)
(* delivery task belong to the order; each roll has one row in either.     *)
(*                                                                         *)
(* The transactions of the warehouse are SERIALIZABLE, or lock and change  *)
(* the task they depend on, and are one step each.  Two things are longer: *)
(*   - a print is claimed (READ COMMITTED, document row locked but not     *)
(*     changed), sent to a printer, and recorded by another transaction;   *)
(*   - an annulment reads in a snapshot taken at its first statement and   *)
(*     commits later.  Everything but prints waits for it at the task row. *)
(* A request that repeats a stored key returns the stored answer and       *)
(* changes nothing: it is a stutter.  Production problems, cancelled       *)
(* orders and rolls produced for another order are left out.               *)
(***************************************************************************)
EXTENDS Naturals, Sequences

CONSTANTS
  Rolls,       \* the rolls of the order
  MaxPallets,  \* bound: pallets of the order (sequenceNo)
  Requests,    \* request ids of prints
  MaxCommands, \* bound: rows of the command journal
  NoVoid       \* no annulment is under way

Pallets == 1..MaxPallets

ASSUME BoundsAssumption == MaxPallets \in Nat /\ MaxCommands \in Nat

VARIABLES
  task,     \* status of the intake task
  row,      \* its scan rows
  stock,    \* warehouse_rolls.warehouseStatus
  pallet,   \* warehouse_pallets.status
  items,    \* warehouse_pallet_items of a pallet, by position
  document, \* rollIds of the pallet list of a pallet by position, NoList without one
  commands, \* number of rows of warehouse_pallet_commands
  void,     \* the annulment under way, with what its snapshot shows
  job,      \* pallet_print_jobs by request
  call,     \* where the request that claimed a job is
  paper,    \* what the printer made of the command of a job
  delivery, \* status of the delivery task
  dRow,     \* its scan rows
  shipped,  \* succeeded delivery_scan operations of a row
  ready     \* commercial_orders.readyForShipmentAt is set

intake  == <<task, row>>
piles   == <<pallet, items, document>>
prints  == <<job, call, paper>>
leaving == <<delivery, dRow, shipped, ready>>
vars    == <<intake, stock, piles, commands, void, prints, leaving>>

Item    == [roll : Rolls, state : {"active", "released"}]
NoList  == [i \in {} |-> i]
Void    == [pallet : Pallets, printing : {"yes", "no"}]
JobRow  == [pallet : Pallets, status : {"queued", "submitted", "failed", "delivery_unknown"}]
NoJob   == [pallet |-> 0, status |-> "none"]
Answers == {"submitted", "failed", "delivery_unknown"}

TypeOK ==
  /\ task \in {"open", "partial", "closed"}
  /\ row \in [Rolls -> {"expected", "accepted"}]
  /\ stock \in [Rolls -> {"sent", "received", "delivered"}]
  /\ pallet \in [Pallets -> {"none", "open", "sealed", "voided"}]
  /\ items \in [Pallets -> Seq(Item)]
  /\ DOMAIN document = Pallets
  /\ \A p \in Pallets : /\ DOMAIN document[p] \subseteq 1..Len(items[p])
                        /\ document[p] \in [DOMAIN document[p] -> Rolls]
  /\ commands \in 0..MaxCommands
  /\ void \in Void \union {NoVoid}
  /\ job \in [Requests -> JobRow \union {NoJob}]
  /\ call \in [Requests -> {"idle", "claimed", "over"} \union Answers]
  /\ paper \in [Requests -> {"none", "pending", "label", "nothing"}]
  /\ delivery \in {"none", "open", "partial", "closed"}
  /\ dRow \in [Rolls -> {"none", "expected", "accepted"}]
  /\ shipped \in [Rolls -> Nat]
  /\ ready \in BOOLEAN

Init ==
  /\ task = "open"
  /\ row = [r \in Rolls |-> "expected"]
  /\ stock = [r \in Rolls |-> "sent"]
  /\ pallet = [p \in Pallets |-> "none"]
  /\ items = [p \in Pallets |-> << >>]
  /\ document = [p \in Pallets |-> NoList]
  /\ commands = 0
  /\ void = NoVoid
  /\ job = [q \in Requests |-> NoJob]
  /\ call = [q \in Requests |-> "idle"]
  /\ paper = [q \in Requests |-> "none"]
  /\ delivery = "none"
  /\ dRow = [r \in Rolls |-> "none"]
  /\ shipped = [r \in Rolls |-> 0]
  /\ ready = FALSE

\* An annulment under way holds the row of the intake task.
TaskFree == void = NoVoid
TaskOpen == task \in {"open", "partial"}

-----------------------------------------------------------------------------
\* Intake and pallets

Active(p)    == {i \in 1..Len(items[p]) : items[p][i].state = "active"}
Members(p)   == {items[p][i].roll : i \in Active(p)}
\* The rolls on a pallet, by position.
RollsOn(p)   == [i \in Active(p) |-> items[p][i].roll]
OpenPallets  == {p \in Pallets : pallet[p] = "open"}
Unused       == {p \in Pallets : pallet[p] = "none"}
OnPallet(r)  == \E p \in Pallets : r \in Members(p)
Voided(p)    == pallet[p] = "voided" /\ document[p] # NoList

Release(p, S) ==
  [items EXCEPT ![p] =
    [i \in 1..Len(items[p]) |->
       IF items[p][i].roll \in S THEN [items[p][i] EXCEPT !.state = "released"]
                                 ELSE items[p][i]]]

Journal == commands < MaxCommands /\ commands' = commands + 1

\* A roll that production has sent is scanned at the intake.
Scan(r) ==
  /\ TaskFree /\ TaskOpen
  /\ row[r] = "expected" /\ stock[r] = "sent"
  /\ row' = [row EXCEPT ![r] = "accepted"]
  /\ stock' = [stock EXCEPT ![r] = "received"]
  /\ UNCHANGED <<task, piles, commands, void, prints, leaving>>

Selectable(r) == TaskFree /\ TaskOpen /\ row[r] = "accepted"

\* The next position is one more than the last ever used, released or not.
Attach(p, r) ==
  /\ pallet' = [pallet EXCEPT ![p] = "open"]
  /\ items' = [items EXCEPT ![p] = Append(@, [roll |-> r, state |-> "active"])]

\* prepareOpenPallet: the open pallet of the task, or the next of the order.
Select(r) ==
  /\ Selectable(r) /\ ~OnPallet(r)
  /\ \E p \in IF OpenPallets # {} THEN OpenPallets
              ELSE {p \in Unused : \A other \in Unused : p <= other} : Attach(p, r)
  /\ Journal
  /\ UNCHANGED <<intake, stock, document, void, prints, leaving>>

\* Mutant: the state of the pallet is not asked.
DeselectAnywhere(r) ==
  /\ Selectable(r)
  /\ \E p \in Pallets : r \in Members(p) /\ items' = Release(p, {r})
  /\ Journal
  /\ UNCHANGED <<intake, stock, pallet, document, void, prints, leaving>>

\* An open pallet that loses its last roll is voided without a document.
Deselect(r) ==
  /\ Selectable(r)
  /\ \E p \in OpenPallets :
       /\ r \in Members(p)
       /\ items' = Release(p, {r})
       /\ pallet' = [pallet EXCEPT ![p] = IF Members(p) = {r} THEN "voided" ELSE "open"]
  /\ Journal
  /\ UNCHANGED <<intake, stock, document, void, prints, leaving>>

\* The roll is, or is not, on the open pallet already: only the journal grows.
SelectAgain(r) ==
  /\ Selectable(r)
  /\ OnPallet(r) => \E p \in OpenPallets : r \in Members(p)
  /\ Journal
  /\ UNCHANGED <<intake, stock, piles, void, prints, leaving>>

-----------------------------------------------------------------------------
\* The hand-off of the order to its delivery task

Received == {r \in Rolls : stock[r] # "sent"}
Listed   == {r \in Rolls : dRow[r] # "none"}

\* Mutant: an open intake does not count.
CompleteWhenReceived(status) == Received = Rolls

\* ready_for_shipment: every roll is in and the intake is closed.
Complete(status) == status = "closed" /\ Received = Rolls

Target(status, rolls) == IF Complete(status) THEN Rolls ELSE Listed \union rolls

RowFits(r) == \/ dRow[r] = "expected" /\ stock[r] = "received"
              \/ dRow[r] = "accepted" /\ stock[r] = "delivered"

\* reconcileInTransaction and syncDeliveryRows: the facts that let it proceed.
HandoffFits(status, rolls) ==
  /\ Complete(status) \/ rolls # {}
  /\ rolls \union Listed \subseteq Received
  /\ delivery \in {"none", "open", "partial"}
  /\ \A r \in Listed : RowFits(r)
  /\ \A r \in Target(status, rolls) \ Listed : stock[r] = "received"

\* Mutant: rows that exist already are written anew.
RowsRewritten(status, rolls) ==
  [r \in Rolls |-> IF r \in Target(status, rolls) THEN "expected" ELSE dRow[r]]

RowsAfter(status, rolls) ==
  [r \in Rolls |-> IF r \in Target(status, rolls) /\ dRow[r] = "none" THEN "expected" ELSE dRow[r]]

DeliveryAfter(status, rolls) ==
  IF Target(status, rolls) \subseteq Listed THEN delivery ELSE "open"

\* Its caller may be content with no hand-off.
TryHandoff(status, rolls) ==
  /\ UNCHANGED shipped
  /\ IF HandoffFits(status, rolls)
     THEN /\ dRow' = RowsAfter(status, rolls)
          /\ delivery' = DeliveryAfter(status, rolls)
          /\ ready' = (ready \/ Complete(status))
     ELSE UNCHANGED <<dRow, delivery, ready>>

\* sealCurrentPallet: the composition becomes the pallet list, for good.
Seal ==
  /\ TaskFree
  /\ \E p \in OpenPallets :
       /\ \A r \in Members(p) : row[r] = "accepted"
       /\ pallet' = [pallet EXCEPT ![p] = "sealed"]
       /\ document' = [document EXCEPT ![p] = RollsOn(p)]
       /\ TryHandoff(task, Members(p))
  /\ UNCHANGED <<intake, stock, items, commands, void, prints>>

\* validatedPhysicalPallet: positions run from 1 without a gap.
Valid(p) ==
  /\ pallet[p] = "sealed"
  /\ document[p] = RollsOn(p)
  /\ \A i \in Active(p) : 1..i \subseteq Active(p)
  /\ \A r \in Members(p) : row[r] = "accepted"

\* A scan of the pallet list that only hands the pallet off.
HandoffScan(p) ==
  /\ TaskFree /\ Valid(p)
  /\ \A r \in Members(p) : stock[r] = "received"
  /\ HandoffFits(task, Members(p))
  /\ TryHandoff(task, Members(p))
  /\ Journal
  /\ UNCHANGED <<intake, stock, piles, void, prints>>

-----------------------------------------------------------------------------
\* Closing the intake

Covered(r) == \E p \in Pallets : pallet[p] = "sealed" /\ r \in Members(p)

ClosePartial ==
  /\ TaskFree /\ task = "open"
  /\ task' = "partial"
  /\ UNCHANGED <<row, stock, piles, commands, void, prints, leaving>>

\* Every row is scanned and on a sealed pallet; the order is reconciled.
CloseFull ==
  /\ TaskFree /\ TaskOpen
  /\ \A p \in OpenPallets : Members(p) = {}
  /\ \A r \in Rolls : row[r] = "accepted" /\ Covered(r)
  /\ task' = "closed"
  /\ TryHandoff("closed", {})
  /\ UNCHANGED <<row, stock, piles, commands, void, prints>>

-----------------------------------------------------------------------------
\* Annulment

Printing(p) == \E q \in Requests : job[q] = [pallet |-> p, status |-> "queued"]

\* Mutant: a closed intake can be reopened this way.
VoidAfterClose(p) ==
  /\ TaskFree /\ pallet[p] = "sealed"
  /\ void' = [pallet |-> p, printing |-> IF Printing(p) THEN "yes" ELSE "no"]
  /\ UNCHANGED <<intake, stock, piles, commands, prints, leaving>>

\* The first statement locks the task and takes the snapshot.
VoidBegin(p) ==
  /\ TaskFree /\ TaskOpen /\ pallet[p] = "sealed"
  /\ void' = [pallet |-> p, printing |-> IF Printing(p) THEN "yes" ELSE "no"]
  /\ UNCHANGED <<intake, stock, piles, commands, prints, leaving>>

\* Prints are looked up in the snapshot, after the document was locked.
VoidCommit ==
  /\ void # NoVoid
  /\ void.printing = "no"
  /\ document[void.pallet] = RollsOn(void.pallet)
  /\ items' = Release(void.pallet, Members(void.pallet))
  /\ pallet' = [pallet EXCEPT ![void.pallet] = "voided"]
  /\ void' = NoVoid
  /\ Journal
  /\ UNCHANGED <<intake, stock, document, prints, leaving>>

\* It is refused, fails to serialize, or its process dies.
VoidAbort ==
  /\ void # NoVoid
  /\ void' = NoVoid
  /\ UNCHANGED <<intake, stock, piles, commands, prints, leaving>>

-----------------------------------------------------------------------------
\* Prints

JobsOf(p, statuses) == {q \in Requests : job[q].pallet = p /\ job[q].status \in statuses}

\* Mutant: only a print in progress blocks the next one.
ClaimDespiteUnknown(q, p) ==
  /\ job[q] = NoJob /\ call[q] = "idle"
  /\ document[p] # NoList /\ ~Voided(p) /\ JobsOf(p, {"queued"}) = {}
  /\ job' = [job EXCEPT ![q] = [pallet |-> p, status |-> "queued"]]
  /\ call' = [call EXCEPT ![q] = "claimed"]
  /\ UNCHANGED <<intake, stock, piles, commands, void, paper, leaving>>

\* Under the lock of the document, which must not be voided.
Claim(q, p) ==
  /\ job[q] = NoJob /\ call[q] = "idle"
  /\ document[p] # NoList /\ ~Voided(p)
  /\ JobsOf(p, {"queued", "delivery_unknown"}) = {}
  /\ job' = [job EXCEPT ![q] = [pallet |-> p, status |-> "queued"]]
  /\ call' = [call EXCEPT ![q] = "claimed"]
  /\ UNCHANGED <<intake, stock, piles, commands, void, paper, leaving>>

\* The label cannot be rendered: nothing is sent.
RenderFails(q) ==
  /\ call[q] = "claimed"
  /\ call' = [call EXCEPT ![q] = "failed"]
  /\ paper' = [paper EXCEPT ![q] = "nothing"]
  /\ UNCHANGED <<intake, stock, piles, commands, void, job, leaving>>

\* Mutant: the status of the adapter is stored as it comes.
CallPrinterRaw(q) ==
  /\ call[q] = "claimed"
  /\ call' = [call EXCEPT ![q] = "printed"]
  /\ paper' = [paper EXCEPT ![q] = "label"]
  /\ UNCHANGED <<intake, stock, piles, commands, void, job, leaving>>

\* A definite answer tells the truth; after an unknown one the command may be alive.
CallPrinter(q) ==
  /\ call[q] = "claimed"
  /\ \E answer \in Answers, made \in {"pending", "label", "nothing"} :
       /\ answer = "submitted" => made = "label"
       /\ answer = "failed" => made = "nothing"
       /\ call' = [call EXCEPT ![q] = answer]
       /\ paper' = [paper EXCEPT ![q] = made]
  /\ UNCHANGED <<intake, stock, piles, commands, void, job, leaving>>

\* The agent decides a command that its caller has given up.
CommandSettles(q) ==
  /\ paper[q] = "pending"
  /\ \E made \in {"label", "nothing"} : paper' = [paper EXCEPT ![q] = made]
  /\ UNCHANGED <<intake, stock, piles, commands, void, job, call, leaving>>

Recorded(q, status) ==
  /\ job' = [job EXCEPT ![q].status = status]
  /\ UNCHANGED <<intake, stock, piles, commands, void, paper, leaving>>

\* The answer is stored; a failure to store success makes the job unknown.
Record(q) ==
  /\ call[q] \in Answers
  /\ \/ Recorded(q, call[q])
     \/ call[q] = "submitted" /\ Recorded(q, "delivery_unknown")
  /\ call' = [call EXCEPT ![q] = "over"]

\* The process dies, or cannot store anything: the job stays queued.
Die(q) ==
  /\ call[q] \in {"claimed"} \union Answers
  /\ call' = [call EXCEPT ![q] = "over"]
  /\ UNCHANGED <<intake, stock, piles, commands, void, job, paper, leaving>>

\* An administrator who has looked at the printer decides, when no command is alive.
AdminReconcile(q) ==
  /\ job[q].status = "delivery_unknown"
  /\ paper[q] \in {"label", "nothing"}
  /\ Recorded(q, IF paper[q] = "label" THEN "submitted" ELSE "failed")
  /\ UNCHANGED call

\* The gateway has proof that nothing was printed.
GatewayReconcile(q) ==
  /\ job[q].status = "delivery_unknown"
  /\ paper[q] = "nothing"
  /\ Recorded(q, "failed")
  /\ UNCHANGED call

-----------------------------------------------------------------------------
\* Delivery

\* A row that may stand in the delivery task, with its operations.
DeliveryFits(rows, r) ==
  \/ rows[r] = "none"
  \/ rows[r] = "expected" /\ stock[r] = "received" /\ shipped[r] = 0
  \/ rows[r] = "accepted" /\ stock[r] = "delivered" /\ shipped[r] = 1

Deliver(S, rows) ==
  /\ dRow' = [r \in Rolls |-> IF r \in S THEN "accepted" ELSE rows[r]]
  /\ stock' = [r \in Rolls |-> IF r \in S THEN "delivered" ELSE stock[r]]
  /\ shipped' = [r \in Rolls |-> IF r \in S THEN shipped[r] + 1 ELSE shipped[r]]

\* The last expected row closes the delivery, for good if the order is complete.
ClosedBy(S, rows, status) ==
  IF \E r \in Rolls \ S : rows[r] = "expected" THEN status
  ELSE IF Complete(task) THEN "closed" ELSE "partial"

\* A scan of the pallet list delivers what is left on the pallet.
DeliverPallet(p) ==
  /\ TaskFree /\ Valid(p)
  /\ delivery # "closed" => HandoffFits(task, Members(p))
  /\ LET open   == delivery # "closed"
         rows   == IF open THEN RowsAfter(task, Members(p)) ELSE dRow
         status == IF open THEN DeliveryAfter(task, Members(p)) ELSE delivery
         S      == {r \in Members(p) : rows[r] = "expected"}
     IN  /\ \A r \in Members(p) : rows[r] # "none"
         /\ \A r \in Rolls : DeliveryFits(rows, r)
         /\ (open \/ \A r \in Rolls : rows[r] # "expected")
         /\ Deliver(S, rows)
         /\ delivery' = IF open THEN ClosedBy(S, rows, status) ELSE status
         /\ ready' = (ready \/ (open /\ Complete(task)))
  /\ Journal
  /\ UNCHANGED <<intake, piles, void, prints>>

\* A roll is scanned by itself in the delivery task.
DeliverRoll(r) ==
  /\ delivery \in {"open", "partial"}
  /\ dRow[r] = "expected" /\ stock[r] = "received"
  /\ Deliver({r}, dRow)
  /\ UNCHANGED <<intake, piles, commands, void, prints, delivery, ready>>

CloseDelivery(status) ==
  /\ delivery \in {"open", "partial"} \ {status}
  /\ status = "closed" => \A r \in Listed : dRow[r] = "accepted" /\ shipped[r] > 0
  /\ delivery' = status
  /\ UNCHANGED <<intake, stock, piles, commands, void, prints, dRow, shipped, ready>>

-----------------------------------------------------------------------------
Next ==
  \/ \E r \in Rolls : Scan(r) \/ Select(r) \/ Deselect(r) \/ SelectAgain(r) \/ DeliverRoll(r)
  \/ Seal \/ ClosePartial \/ CloseFull
  \/ \E p \in Pallets : HandoffScan(p) \/ VoidBegin(p) \/ DeliverPallet(p)
  \/ VoidCommit \/ VoidAbort
  \/ \E q \in Requests : \/ \E p \in Pallets : Claim(q, p)
                         \/ RenderFails(q) \/ CallPrinter(q) \/ CommandSettles(q)
                         \/ Record(q) \/ Die(q) \/ AdminReconcile(q) \/ GatewayReconcile(q)
  \/ \E status \in {"partial", "closed"} : CloseDelivery(status)

Spec == Init /\ [][Next]_vars

-----------------------------------------------------------------------------
\* What a pallet list says is what lies on the pallet, through selections,
\* annulments and deliveries: a sealed pallet holds exactly the listed rolls in
\* their order, all accepted, a voided one holds nothing, an open one is not
\* empty, and no roll is on two pallets.
ListMatchesPallet ==
  /\ \A p \in Pallets :
       /\ pallet[p] = "sealed" => /\ document[p] # NoList /\ document[p] = RollsOn(p)
                                  /\ \A r \in Members(p) : row[r] = "accepted"
       /\ pallet[p] \in {"none", "voided"} => Members(p) = {}
       /\ pallet[p] \in {"none", "open"} => document[p] = NoList
       /\ pallet[p] = "open" => Members(p) # {}
       /\ \A i, j \in Active(p) : items[p][i].roll = items[p][j].roll => i = j
  /\ \A p, other \in Pallets : p # other => Members(p) \intersect Members(other) = {}
  /\ \A p, other \in OpenPallets : p = other

\* A closed intake stays covered: whatever annulments, selections and deliveries
\* come later, each of its rolls is on a valid pallet list.
ClosedIntakeIsCovered == task = "closed" => \A r \in Rolls : row[r] = "accepted" /\ Covered(r)

\* Delivery task, stock and journal agree: a roll has left the stock exactly if
\* its row is accepted, by exactly one delivery scan, and no row was added for
\* a roll the warehouse does not have.
DeliveryMatchesStock == \A r \in Rolls :
  /\ (stock[r] = "delivered") <=> (dRow[r] = "accepted")
  /\ shipped[r] = (IF stock[r] = "delivered" THEN 1 ELSE 0)
  /\ dRow[r] = "expected" => stock[r] = "received" /\ row[r] = "accepted"

\* An order is shown as ready for shipment only with its whole intake closed and
\* every roll on its delivery task.
ReadyIsWhole == ready => task = "closed" /\ Listed = Rolls

\* What a stored status says of the job.
Fate == [queued |-> "open", delivery_unknown |-> "unknown",
         submitted |-> "submitted", failed |-> "failed"]

Label(p) == INSTANCE PrintJobContract WITH
  Keys  <- Requests,
  fate  <- [q \in Requests |-> IF job[q].pallet = p THEN Fate[job[q].status] ELSE "none"],
  paper <- [q \in Requests |-> job[q].pallet = p /\ paper[q] = "label"]

\* What a print contract is about: a step that leaves these alone is a stutter.
printed == <<job, paper>>

\* For each pallet list the print jobs keep the contract of a print job: one
\* undecided job at a time, one decision each, labels as the decisions say.
ImplementsPrintJob ==
  /\ \A p \in Pallets : Label(p)!Init
  /\ [][printed' # printed => \A p \in Pallets : Label(p)!Step]_printed

-----------------------------------------------------------------------------
\* What these rest on: the parts of the inductive invariant.

\* An annulment keeps the intake open.
VoidHoldsTask == void # NoVoid => task # "closed"

\* A row is accepted when, and only when, its roll has entered the stock.
RowsFollowStock == \A r \in Rolls : (row[r] = "accepted") <=> (stock[r] # "sent")

\* A request at work has a queued job, and definite words are true of the paper.
PrintsInStep == \A q \in Requests :
  /\ (job[q] = NoJob) <=> (call[q] = "idle")
  /\ call[q] \in {"claimed"} \union Answers => job[q].status = "queued"
  /\ call[q] \in {"idle", "claimed"} => paper[q] = "none"
  /\ "submitted" \in {call[q], job[q].status} => paper[q] = "label"
  /\ "failed" \in {call[q], job[q].status} => paper[q] = "nothing"

\* A pallet list has one undecided job at a time.
Undecided(q) == job[q].status \in {"queued", "delivery_unknown"}
OneUndecided == \A q, other \in Requests :
  Undecided(q) /\ Undecided(other) /\ job[q].pallet = job[other].pallet => q = other

IInv ==
  /\ TypeOK /\ VoidHoldsTask /\ RowsFollowStock
  /\ ListMatchesPallet /\ ClosedIntakeIsCovered
  /\ DeliveryMatchesStock /\ ReadyIsWhole
  /\ PrintsInStep /\ OneUndecided

-----------------------------------------------------------------------------
\* After the annulment of a pallet list no print of it is under way.
NothingPrintsForVoided ==
  \A q \in Requests : call[q] = "claimed" => ~Voided(job[q].pallet)
================================================================================

------------------------ MODULE WarehousePalletsProofs ------------------------
(***************************************************************************)
(* Theorems about the way of an order through the warehouse, for every     *)
(* number of rolls, pallets, print requests and commands: pallet lists     *)
(* describe their pallets, a closed intake stays covered, the delivery     *)
(* agrees with the stock, and print jobs keep the contract of a print job. *)
(***************************************************************************)
EXTENDS WarehousePallets, TLAPS

-----------------------------------------------------------------------------
(* What becomes of the items of the pallets. *)

LEMMA FunctionIsSequence ==
  ASSUME NEW S, NEW n \in Nat, NEW f \in [1..n -> S]
  PROVE  f \in Seq(S) /\ Len(f) = n
<1>1. f \in Seq(S)
  OBVIOUS
<1> QED
  BY <1>1

\* Only items that are appended or released change.
LEMMA ReleaseEffect ==
  ASSUME TypeOK, NEW p \in Pallets, NEW S, items' = Release(p, S)
  PROVE  /\ items' \in [Pallets -> Seq(Item)]
         /\ \A other \in Pallets : Len(items'[other]) = Len(items[other])
         /\ \A other \in Pallets \ {p} : items'[other] = items[other]
         /\ Active(p)' = {i \in Active(p) : items[p][i].roll \notin S}
         /\ \A i \in Active(p)' : items'[p][i] = items[p][i]
<1> DEFINE new == [i \in 1..Len(items[p]) |->
                     IF items[p][i].roll \in S
                     THEN [items[p][i] EXCEPT !.state = "released"] ELSE items[p][i]]
<1>1. items[p] \in Seq(Item)
  BY DEF TypeOK
<1>2. \A i \in 1..Len(items[p]) : items[p][i] \in Item
  BY <1>1
<1>3. \A i \in 1..Len(items[p]) : new[i] \in Item
  BY <1>2 DEF Item
<1>4. new \in Seq(Item) /\ Len(new) = Len(items[p])
  <2>1. Len(items[p]) \in Nat
    BY <1>1
  <2>2. new \in [1..Len(items[p]) -> Item]
    BY <1>3
  <2> HIDE DEF new
  <2> QED BY <2>1, <2>2, FunctionIsSequence
<1>5. items' = [items EXCEPT ![p] = new]
  BY DEF Release
<1>6. items'[p] = new
  BY <1>5 DEF TypeOK
<1>7. \A i \in 1..Len(items[p]) :
        (new[i].state = "active") <=> (items[p][i].state = "active" /\ items[p][i].roll \notin S)
  BY <1>2 DEF Item
<1>8. \A i \in 1..Len(items[p]) : items[p][i].roll \notin S => new[i] = items[p][i]
  OBVIOUS
<1> HIDE DEF new
<1>9. Active(p)' = {i \in Active(p) : items[p][i].roll \notin S}
  BY <1>4, <1>6, <1>7 DEF Active
<1>10. \A i \in Active(p)' : items'[p][i] = items[p][i]
  BY <1>6, <1>8, <1>9 DEF Active
<1>11. \A other \in Pallets \ {p} : items'[other] = items[other]
  BY <1>5 DEF TypeOK
<1>12. \A other \in Pallets : Len(items'[other]) = Len(items[other])
  BY <1>4, <1>6, <1>11
<1>13. items' \in [Pallets -> Seq(Item)]
  BY <1>4, <1>5 DEF TypeOK
<1> QED
  BY <1>9, <1>10, <1>11, <1>12, <1>13

LEMMA AttachEffect ==
  ASSUME TypeOK, NEW p \in Pallets, NEW r \in Rolls, Attach(p, r)
  PROVE  /\ items' \in [Pallets -> Seq(Item)]
         /\ \A other \in Pallets : Len(items[other]) <= Len(items'[other])
         /\ \A other \in Pallets \ {p} : items'[other] = items[other]
         /\ Active(p)' = Active(p) \union {Len(items[p]) + 1}
         /\ \A i \in Active(p) : items'[p][i] = items[p][i]
         /\ items'[p][Len(items[p]) + 1].roll = r
<1> DEFINE item == [roll |-> r, state |-> "active"]
<1>1. items[p] \in Seq(Item) /\ item \in Item
  BY DEF TypeOK, Item
<1>2. items' = [items EXCEPT ![p] = Append(items[p], item)]
  BY DEF Attach
<1>3. items'[p] = Append(items[p], item)
  BY <1>2 DEF TypeOK
<1>4. /\ Append(items[p], item) \in Seq(Item)
      /\ Len(Append(items[p], item)) = Len(items[p]) + 1
      /\ \A i \in 1..Len(items[p]) : Append(items[p], item)[i] = items[p][i]
      /\ Append(items[p], item)[Len(items[p]) + 1] = item
      /\ Len(items[p]) \in Nat
  BY <1>1
<1>5. item.state = "active" /\ item.roll = r
  OBVIOUS
<1> HIDE DEF item
<1>6. Active(p)' = Active(p) \union {Len(items[p]) + 1}
  BY <1>3, <1>4, <1>5 DEF Active
<1>7. \A i \in Active(p) : items'[p][i] = items[p][i]
  BY <1>3, <1>4 DEF Active
<1>8. \A other \in Pallets \ {p} : items'[other] = items[other]
  BY <1>2 DEF TypeOK
<1>9. \A other \in Pallets : Len(items[other]) <= Len(items'[other])
  <2>1. \A other \in Pallets : Len(items[other]) \in Nat
    BY DEF TypeOK
  <2> QED BY <1>3, <1>4, <1>8, <2>1
<1>10. items' \in [Pallets -> Seq(Item)]
  BY <1>2, <1>4 DEF TypeOK
<1> QED
  BY <1>3, <1>4, <1>5, <1>6, <1>7, <1>8, <1>9, <1>10

-----------------------------------------------------------------------------
(* Types. *)

\* A hand-off adds expected rows, and says ready only of a complete order.
LEMMA HandoffEffect ==
  ASSUME TypeOK, NEW status, NEW S, TryHandoff(status, S)
  PROVE  /\ dRow' \in [Rolls -> {"none", "expected", "accepted"}]
         /\ delivery' \in {"none", "open", "partial", "closed"}
         /\ ready' \in BOOLEAN
         /\ shipped' = shipped
         /\ \A r \in Rolls :
              \/ dRow'[r] = dRow[r]
              \/ dRow[r] = "none" /\ dRow'[r] = "expected" /\ stock[r] = "received"
         /\ \/ ready' = ready
            \/ Complete(status) /\ \A r \in Rolls : dRow'[r] # "none"
<1>1. CASE HandoffFits(status, S)
  <2>1. /\ dRow' = RowsAfter(status, S) /\ delivery' = DeliveryAfter(status, S)
        /\ ready' = (ready \/ Complete(status)) /\ shipped' = shipped
    BY <1>1 DEF TryHandoff
  <2>2. \A r \in Rolls : dRow'[r] = IF r \in Target(status, S) /\ dRow[r] = "none"
                                    THEN "expected" ELSE dRow[r]
    BY <2>1 DEF RowsAfter
  <2>3. \A r \in Rolls : r \in Target(status, S) /\ dRow[r] = "none" => stock[r] = "received"
    BY <1>1 DEF HandoffFits, Listed
  <2>4. Complete(status) => \A r \in Rolls : dRow'[r] # "none"
    BY <2>2 DEF Target
  <2>5. dRow' \in [Rolls -> {"none", "expected", "accepted"}]
    BY <2>1 DEF RowsAfter, TypeOK
  <2>6. delivery' \in {"none", "open", "partial", "closed"}
    BY <2>1 DEF DeliveryAfter, TypeOK
  <2>7. Complete(status) \in BOOLEAN
    BY DEF Complete
  <2> QED
    BY <2>1, <2>2, <2>3, <2>4, <2>5, <2>6, <2>7 DEF TypeOK
<1>2. CASE ~HandoffFits(status, S)
  BY <1>2 DEF TryHandoff, TypeOK
<1> QED
  BY <1>1, <1>2

\* A delivery by pallet list turns expected rows of received rolls, some of
\* them new, into accepted ones.
LEMMA DeliveryEffect ==
  ASSUME TypeOK, NEW p \in Pallets, DeliverPallet(p)
  PROVE  /\ dRow' \in [Rolls -> {"none", "expected", "accepted"}]
         /\ stock' \in [Rolls -> {"sent", "received", "delivered"}]
         /\ shipped' \in [Rolls -> Nat]
         /\ delivery' \in {"none", "open", "partial", "closed"}
         /\ ready' \in BOOLEAN
         /\ \A r \in Rolls :
              \/ dRow'[r] = dRow[r] /\ stock'[r] = stock[r] /\ shipped'[r] = shipped[r]
              \/ /\ dRow[r] = "none" /\ dRow'[r] = "expected" /\ stock[r] = "received"
                 /\ stock'[r] = stock[r] /\ shipped'[r] = shipped[r]
              \/ /\ dRow[r] # "accepted" /\ dRow'[r] = "accepted" /\ stock[r] = "received"
                 /\ stock'[r] = "delivered" /\ shipped'[r] = shipped[r] + 1
         /\ \/ ready' = ready
            \/ Complete(task) /\ \A r \in Rolls : dRow'[r] # "none"
<1> DEFINE open   == delivery # "closed"
           rows   == IF open THEN RowsAfter(task, Members(p)) ELSE dRow
           status == IF open THEN DeliveryAfter(task, Members(p)) ELSE delivery
           S      == {r \in Members(p) : rows[r] = "expected"}
<1>1. /\ \A r \in Rolls : DeliveryFits(rows, r)
      /\ Deliver(S, rows)
      /\ delivery' = (IF open THEN ClosedBy(S, rows, status) ELSE status)
      /\ ready' = (ready \/ (open /\ Complete(task)))
      /\ open => HandoffFits(task, Members(p))
  BY DEF DeliverPallet
<1>2. \A r \in Rolls : \/ rows[r] = dRow[r]
                       \/ dRow[r] = "none" /\ rows[r] = "expected" /\ stock[r] = "received"
  <2>1. CASE open
    <3>1. \A r \in Rolls : rows[r] = IF r \in Target(task, Members(p)) /\ dRow[r] = "none"
                                     THEN "expected" ELSE dRow[r]
      BY <2>1 DEF RowsAfter
    <3>2. \A r \in Rolls : r \in Target(task, Members(p)) /\ dRow[r] = "none" => stock[r] = "received"
      BY <1>1, <2>1 DEF HandoffFits, Listed
    <3> QED BY <3>1, <3>2
  <2>2. CASE ~open
    BY <2>2
  <2> QED BY <2>1, <2>2
<1>3. rows \in [Rolls -> {"none", "expected", "accepted"}]
  BY DEF RowsAfter, TypeOK
<1>4. open /\ Complete(task) => \A r \in Rolls : rows[r] # "none"
  BY DEF RowsAfter, Target
<1>5. status \in {"none", "open", "partial", "closed"}
  BY DEF DeliveryAfter, TypeOK
<1> HIDE DEF rows, status, open
<1>6. \A r \in S : rows[r] = "expected"
  OBVIOUS
<1> HIDE DEF S
<1>7. /\ dRow' = [r \in Rolls |-> IF r \in S THEN "accepted" ELSE rows[r]]
      /\ stock' = [r \in Rolls |-> IF r \in S THEN "delivered" ELSE stock[r]]
      /\ shipped' = [r \in Rolls |-> IF r \in S THEN shipped[r] + 1 ELSE shipped[r]]
  BY <1>1 DEF Deliver
<1>8. \A r \in Rolls : r \in S => stock[r] = "received" /\ dRow[r] # "accepted"
  BY <1>1, <1>2, <1>6 DEF DeliveryFits
<1>9. delivery' \in {"none", "open", "partial", "closed"}
  BY <1>1, <1>5 DEF ClosedBy
<1>10. Complete(task) \in BOOLEAN
  BY DEF Complete
<1>11. /\ ready' \in BOOLEAN
       /\ \/ ready' = ready
          \/ Complete(task) /\ \A r \in Rolls : dRow'[r] # "none"
  BY <1>1, <1>4, <1>7, <1>10 DEF TypeOK
<1> QED
  BY <1>2, <1>3, <1>7, <1>8, <1>9, <1>11 DEF TypeOK

\* The steps of a print, and those that leave the prints alone.
PrintStep ==
  \E q \in Requests : \/ \E p \in Pallets : Claim(q, p)
                      \/ RenderFails(q) \/ CallPrinter(q) \/ CommandSettles(q)
                      \/ Record(q) \/ Die(q) \/ AdminReconcile(q) \/ GatewayReconcile(q)

PackingStep ==
  \/ \E r \in Rolls : Scan(r) \/ Select(r) \/ Deselect(r) \/ SelectAgain(r)
  \/ Seal \/ ClosePartial
  \/ \E p \in Pallets : VoidBegin(p)
  \/ VoidCommit \/ VoidAbort

DeliveryStep ==
  \/ CloseFull
  \/ \E p \in Pallets : HandoffScan(p) \/ DeliverPallet(p)
  \/ \E r \in Rolls : DeliverRoll(r)
  \/ \E status \in {"partial", "closed"} : CloseDelivery(status)

LEMMA StepKinds == [Next]_vars => PrintStep \/ PackingStep \/ DeliveryStep \/ UNCHANGED vars
BY Zenon DEF Next, PrintStep, PackingStep, DeliveryStep

LEMMA PrintTypes ==
  ASSUME TypeOK, PrintsInStep, PrintStep
  PROVE  TypeOK'
<1> USE DEF TypeOK, intake, piles, leaving
<1>1. PICK q \in Requests :
        \/ \E p \in Pallets : Claim(q, p)
        \/ RenderFails(q) \/ CallPrinter(q) \/ CommandSettles(q)
        \/ Record(q) \/ Die(q) \/ AdminReconcile(q) \/ GatewayReconcile(q)
  BY DEF PrintStep
<1>2. \A status \in {"queued", "submitted", "failed", "delivery_unknown"} :
        Undecided(q) => [job[q] EXCEPT !.status = status] \in JobRow
  <2>1. Undecided(q) => job[q] \in JobRow
    BY DEF NoJob, Undecided
  <2>2. ASSUME NEW status \in {"queued", "submitted", "failed", "delivery_unknown"}, NEW j \in JobRow
        PROVE  [j EXCEPT !.status = status] \in JobRow
    BY <2>2 DEF JobRow
  <2> QED BY <2>1, <2>2
<1>3. CASE \E p \in Pallets : Claim(q, p)
  <2>1. \A p \in Pallets : [pallet |-> p, status |-> "queued"] \in JobRow
    BY DEF JobRow
  <2> QED BY <1>3, <2>1 DEF Claim
<1>4. CASE RenderFails(q)
  BY <1>4 DEF RenderFails, Answers
<1>5. CASE CallPrinter(q)
  BY <1>5 DEF CallPrinter, Answers
<1>6. CASE CommandSettles(q)
  BY <1>6 DEF CommandSettles
<1>7. CASE Record(q) \/ AdminReconcile(q) \/ GatewayReconcile(q)
  <2>1. Undecided(q)
    BY <1>7 DEF Record, AdminReconcile, GatewayReconcile, PrintsInStep, Undecided
  <2>2. PICK status \in {"submitted", "failed", "delivery_unknown"} : Recorded(q, status)
    BY <1>7 DEF Record, AdminReconcile, GatewayReconcile, Answers
  <2>3. job' = [job EXCEPT ![q] = [job[q] EXCEPT !.status = status]]
    BY <2>2 DEF Recorded
  <2>4. job' \in [Requests -> JobRow \union {NoJob}]
    BY <1>2, <2>1, <2>3
  <2>5. call' = call \/ call' = [call EXCEPT ![q] = "over"]
    BY <1>7 DEF Record, AdminReconcile, GatewayReconcile
  <2> QED
    BY <2>2, <2>4, <2>5 DEF Recorded
<1>8. CASE Die(q)
  BY <1>8 DEF Die
<1> QED
  BY <1>1, <1>3, <1>4, <1>5, <1>6, <1>7, <1>8

\* The types of the piles, which are sequences, and of the rest.
PileTypes ==
  /\ items \in [Pallets -> Seq(Item)]
  /\ DOMAIN document = Pallets
  /\ \A p \in Pallets : /\ DOMAIN document[p] \subseteq 1..Len(items[p])
                        /\ document[p] \in [DOMAIN document[p] -> Rolls]

OtherTypes ==
  /\ task \in {"open", "partial", "closed"}
  /\ row \in [Rolls -> {"expected", "accepted"}]
  /\ stock \in [Rolls -> {"sent", "received", "delivered"}]
  /\ pallet \in [Pallets -> {"none", "open", "sealed", "voided"}]
  /\ commands \in 0..MaxCommands
  /\ void \in Void \union {NoVoid}
  /\ job \in [Requests -> JobRow \union {NoJob}]
  /\ call \in [Requests -> {"idle", "claimed", "over"} \union Answers]
  /\ paper \in [Requests -> {"none", "pending", "label", "nothing"}]
  /\ delivery \in {"none", "open", "partial", "closed"}
  /\ dRow \in [Rolls -> {"none", "expected", "accepted"}]
  /\ shipped \in [Rolls -> Nat]
  /\ ready \in BOOLEAN

LEMMA TypeParts == TypeOK <=> PileTypes /\ OtherTypes
BY Zenon DEF TypeOK, PileTypes, OtherTypes

\* Pallet lists keep their type when items are appended or released.
LEMMA PilesKeepType ==
  ASSUME PileTypes, items' \in [Pallets -> Seq(Item)], UNCHANGED document,
         \A p \in Pallets : Len(items[p]) <= Len(items'[p])
  PROVE  PileTypes'
<1>1. \A p \in Pallets : Len(items[p]) \in Nat /\ Len(items'[p]) \in Nat
  BY DEF PileTypes
<1>2. ASSUME NEW p \in Pallets
      PROVE  /\ DOMAIN document[p] \subseteq 1..Len(items'[p])
             /\ document[p] \in [DOMAIN document[p] -> Rolls]
  <2>1. DOMAIN document[p] \subseteq 1..Len(items[p])
    BY DEF PileTypes
  <2>2. 1..Len(items[p]) \subseteq 1..Len(items'[p])
    BY <1>1
  <2> QED BY <2>1, <2>2 DEF PileTypes
<1> QED
  BY <1>2, Zenon DEF PileTypes

LEMMA PilesOfSameHeight ==
  ASSUME PileTypes, items' \in [Pallets -> Seq(Item)], UNCHANGED document,
         \A p \in Pallets : Len(items'[p]) = Len(items[p])
  PROVE  PileTypes'
<1>1. \A p \in Pallets : Len(items[p]) \in Nat
  BY DEF PileTypes
<1> QED
  BY <1>1, PilesKeepType

LEMMA SamePiles ==
  ASSUME PileTypes, UNCHANGED <<items, document>>
  PROVE  PileTypes'
BY Zenon DEF PileTypes

LEMMA JournalCounts ==
  ASSUME OtherTypes, Journal
  PROVE  commands' \in 0..MaxCommands
BY BoundsAssumption DEF OtherTypes, Journal

LEMMA PackingTypes ==
  ASSUME TypeOK, PackingStep
  PROVE  TypeOK'
<1> SUFFICES PileTypes' /\ OtherTypes'
  BY Zenon DEF TypeOK, PileTypes, OtherTypes
<1>0. PileTypes /\ OtherTypes
  BY TypeParts
<1> USE JournalCounts DEF intake, piles, prints, leaving
<1>1. ASSUME NEW r \in Rolls, Scan(r)
      PROVE  PileTypes' /\ OtherTypes'
  BY <1>0, <1>1, SamePiles DEF Scan, OtherTypes
<1>2. ASSUME NEW r \in Rolls, Select(r)
      PROVE  PileTypes' /\ OtherTypes'
  <2>1. PICK p \in Pallets : Attach(p, r)
    BY <1>2 DEF Select, OpenPallets, Unused
  <2>2. /\ items' \in [Pallets -> Seq(Item)]
        /\ \A other \in Pallets : Len(items[other]) <= Len(items'[other])
    BY <2>1, AttachEffect
  <2>3. UNCHANGED document
    BY <1>2 DEF Select
  <2>4. PileTypes'
    BY <1>0, <2>2, <2>3, PilesKeepType
  <2>5. OtherTypes'
    <3>1. pallet' \in [Pallets -> {"none", "open", "sealed", "voided"}]
      BY <1>0, <2>1 DEF Attach, OtherTypes
    <3>2. Journal /\ UNCHANGED <<intake, stock, void, prints, leaving>>
      BY <1>2 DEF Select
    <3> QED BY <1>0, <3>1, <3>2 DEF OtherTypes
  <2> QED BY <2>4, <2>5
<1>3. ASSUME NEW r \in Rolls, Deselect(r)
      PROVE  PileTypes' /\ OtherTypes'
  <2>1. PICK p \in Pallets : /\ items' = Release(p, {r})
                             /\ pallet' = [pallet EXCEPT ![p] = IF Members(p) = {r} THEN "voided" ELSE "open"]
    BY <1>3 DEF Deselect, OpenPallets
  <2>2. /\ items' \in [Pallets -> Seq(Item)]
        /\ \A other \in Pallets : Len(items'[other]) = Len(items[other])
    BY <2>1, ReleaseEffect
  <2>3. UNCHANGED document
    BY <1>3 DEF Deselect
  <2>4. PileTypes'
    BY <1>0, <2>2, <2>3, PilesOfSameHeight
  <2>5. OtherTypes'
    <3>1. pallet' \in [Pallets -> {"none", "open", "sealed", "voided"}]
      BY <1>0, <2>1 DEF OtherTypes
    <3>2. Journal /\ UNCHANGED <<intake, stock, void, prints, leaving>>
      BY <1>3 DEF Deselect
    <3> QED BY <1>0, <3>1, <3>2 DEF OtherTypes
  <2> QED BY <2>4, <2>5
<1>4. ASSUME NEW r \in Rolls, SelectAgain(r)
      PROVE  PileTypes' /\ OtherTypes'
  BY <1>0, <1>4, SamePiles DEF SelectAgain, OtherTypes
<1>5. CASE Seal
  <2>1. PICK p \in Pallets : /\ pallet' = [pallet EXCEPT ![p] = "sealed"]
                             /\ document' = [document EXCEPT ![p] = RollsOn(p)]
                             /\ TryHandoff(task, Members(p))
    BY <1>5 DEF Seal, OpenPallets
  <2>2. /\ dRow' \in [Rolls -> {"none", "expected", "accepted"}]
        /\ delivery' \in {"none", "open", "partial", "closed"}
        /\ ready' \in BOOLEAN /\ shipped' = shipped
    BY <2>1, HandoffEffect
  <2>3. \A i \in Active(p) : i \in 1..Len(items[p]) /\ items[p][i].roll \in Rolls
    <3>1. items[p] \in Seq(Item)
      BY <1>0 DEF PileTypes
    <3>2. \A i \in 1..Len(items[p]) : items[p][i] \in Item
      BY <3>1
    <3> QED BY <3>2 DEF Active, Item
  <2>4. RollsOn(p) \in [Active(p) -> Rolls] /\ Active(p) \subseteq 1..Len(items[p])
    BY <2>3 DEF RollsOn
  <2>5. UNCHANGED items
    BY <1>5 DEF Seal
  <2>6. PileTypes'
    BY <1>0, <2>1, <2>4, <2>5 DEF PileTypes
  <2>7. OtherTypes'
    BY <1>0, <1>5, <2>1, <2>2 DEF Seal, OtherTypes
  <2> QED BY <2>6, <2>7
<1>6. CASE ClosePartial
  BY <1>0, <1>6, SamePiles DEF ClosePartial, OtherTypes
<1>7. ASSUME NEW p \in Pallets, VoidBegin(p)
      PROVE  PileTypes' /\ OtherTypes'
  BY <1>0, <1>7, SamePiles DEF VoidBegin, Void, OtherTypes
<1>8. CASE VoidCommit
  <2>1. void.pallet \in Pallets
    BY <1>0, <1>8 DEF VoidCommit, Void, OtherTypes
  <2>2. /\ items' \in [Pallets -> Seq(Item)]
        /\ \A other \in Pallets : Len(items'[other]) = Len(items[other])
    BY <1>8, <2>1, ReleaseEffect DEF VoidCommit
  <2>3. UNCHANGED document
    BY <1>8 DEF VoidCommit
  <2>4. PileTypes'
    BY <1>0, <2>2, <2>3, PilesOfSameHeight
  <2>5. OtherTypes'
    <3>1. pallet' \in [Pallets -> {"none", "open", "sealed", "voided"}]
      BY <1>0, <1>8 DEF VoidCommit, OtherTypes
    <3>2. Journal /\ void' = NoVoid /\ UNCHANGED <<intake, stock, prints, leaving>>
      BY <1>8 DEF VoidCommit
    <3> QED BY <1>0, <3>1, <3>2 DEF OtherTypes
  <2> QED BY <2>4, <2>5
<1>9. CASE VoidAbort
  BY <1>0, <1>9, SamePiles DEF VoidAbort, OtherTypes
<1> QED
  BY <1>1, <1>2, <1>3, <1>4, <1>5, <1>6, <1>7, <1>8, <1>9 DEF PackingStep

LEMMA DeliveryTypes ==
  ASSUME TypeOK, DeliveryStep
  PROVE  TypeOK'
<1> SUFFICES PileTypes' /\ OtherTypes'
  BY Zenon DEF TypeOK, PileTypes, OtherTypes
<1>0. PileTypes /\ OtherTypes
  BY TypeParts
<1> USE JournalCounts DEF intake, piles, prints, leaving
<1>1. CASE CloseFull
  <2>1. TryHandoff("closed", {})
    BY <1>1 DEF CloseFull
  <2>2. /\ dRow' \in [Rolls -> {"none", "expected", "accepted"}]
        /\ delivery' \in {"none", "open", "partial", "closed"}
        /\ ready' \in BOOLEAN /\ shipped' = shipped
    BY <2>1, HandoffEffect
  <2> QED BY <1>0, <1>1, <2>2, SamePiles DEF CloseFull, OtherTypes
<1>2. ASSUME NEW p \in Pallets, HandoffScan(p)
      PROVE  PileTypes' /\ OtherTypes'
  <2>1. TryHandoff(task, Members(p))
    BY <1>2 DEF HandoffScan
  <2>2. /\ dRow' \in [Rolls -> {"none", "expected", "accepted"}]
        /\ delivery' \in {"none", "open", "partial", "closed"}
        /\ ready' \in BOOLEAN /\ shipped' = shipped
    BY <2>1, HandoffEffect
  <2> QED BY <1>0, <1>2, <2>2, SamePiles DEF HandoffScan, OtherTypes
<1>3. ASSUME NEW p \in Pallets, DeliverPallet(p)
      PROVE  PileTypes' /\ OtherTypes'
  <2>1. /\ dRow' \in [Rolls -> {"none", "expected", "accepted"}]
        /\ stock' \in [Rolls -> {"sent", "received", "delivered"}]
        /\ shipped' \in [Rolls -> Nat]
        /\ delivery' \in {"none", "open", "partial", "closed"}
        /\ ready' \in BOOLEAN
    BY <1>3, DeliveryEffect
  <2>2. Journal /\ UNCHANGED <<intake, piles, void, prints>>
    BY <1>3 DEF DeliverPallet
  <2> QED BY <1>0, <2>1, <2>2, SamePiles DEF OtherTypes
<1>4. ASSUME NEW r \in Rolls, DeliverRoll(r)
      PROVE  PileTypes' /\ OtherTypes'
  BY <1>0, <1>4, SamePiles DEF DeliverRoll, Deliver, OtherTypes
<1>5. ASSUME NEW status \in {"partial", "closed"}, CloseDelivery(status)
      PROVE  PileTypes' /\ OtherTypes'
  BY <1>0, <1>5, SamePiles DEF CloseDelivery, OtherTypes
<1> QED
  BY <1>1, <1>2, <1>3, <1>4, <1>5 DEF DeliveryStep

LEMMA InitialState == ASSUME Init PROVE IInv
<1> USE DEF Init
<1>1. TypeOK
  <2>1. items \in [Pallets -> Seq(Item)] /\ \A p \in Pallets : Len(items[p]) = 0
    OBVIOUS
  <2>2. PileTypes
    BY <2>1 DEF PileTypes, NoList
  <2>3. OtherTypes
    <3>1. commands \in 0..MaxCommands
      BY BoundsAssumption
    <3>2. /\ row \in [Rolls -> {"expected", "accepted"}]
          /\ stock \in [Rolls -> {"sent", "received", "delivered"}]
          /\ pallet \in [Pallets -> {"none", "open", "sealed", "voided"}]
          /\ dRow \in [Rolls -> {"none", "expected", "accepted"}]
          /\ shipped \in [Rolls -> Nat]
      OBVIOUS
    <3>3. /\ job \in [Requests -> JobRow \union {NoJob}]
          /\ call \in [Requests -> {"idle", "claimed", "over"} \union Answers]
          /\ paper \in [Requests -> {"none", "pending", "label", "nothing"}]
      OBVIOUS
    <3> QED BY <3>1, <3>2, <3>3 DEF OtherTypes
  <2> QED BY <2>2, <2>3, TypeParts
<1>2. \A p \in Pallets : Active(p) = {}
  BY DEF Active
<1>3. \A p \in Pallets : Members(p) = {}
  BY <1>2 DEF Members
<1>4. ListMatchesPallet
  BY <1>2, <1>3 DEF ListMatchesPallet, OpenPallets
<1>5. VoidHoldsTask /\ RowsFollowStock /\ ClosedIntakeIsCovered
  BY DEF VoidHoldsTask, RowsFollowStock, ClosedIntakeIsCovered
<1>6. DeliveryMatchesStock /\ ReadyIsWhole
  BY DEF DeliveryMatchesStock, ReadyIsWhole
<1>7. PrintsInStep /\ OneUndecided
  BY DEF PrintsInStep, OneUndecided, Undecided, NoJob, Answers
<1> QED
  BY <1>1, <1>4, <1>5, <1>6, <1>7 DEF IInv

LEMMA TypeStep ==
  ASSUME TypeOK, PrintsInStep, [Next]_vars
  PROVE  TypeOK'
<1>1. CASE UNCHANGED vars
  BY <1>1, Zenon DEF TypeOK, vars, intake, piles, prints, leaving
<1> QED
  BY <1>1, StepKinds, PrintTypes, PackingTypes, DeliveryTypes

-----------------------------------------------------------------------------
(* Prints. *)

LEMMA PrintsLeaveOthers ==
  ASSUME PrintStep
  PROVE  UNCHANGED <<intake, stock, piles, commands, void, leaving>>
BY Zenon DEF PrintStep, Claim, RenderFails, CallPrinter, CommandSettles, Record, Die,
             AdminReconcile, GatewayReconcile, Recorded

LEMMA OthersLeavePrints ==
  ASSUME PackingStep \/ DeliveryStep \/ UNCHANGED vars
  PROVE  UNCHANGED prints
<1>1. CASE PackingStep
  BY <1>1, Zenon DEF PackingStep, Scan, Select, Deselect, SelectAgain, Seal, ClosePartial,
                     VoidBegin, VoidCommit, VoidAbort
<1>2. CASE DeliveryStep
  BY <1>2, Zenon DEF DeliveryStep, CloseFull, HandoffScan, DeliverPallet, DeliverRoll, CloseDelivery
<1> QED
  BY <1>1, <1>2 DEF vars

\* One request moves; its job and its call stay in step.
LEMMA PrintsStayInStep ==
  ASSUME TypeOK, PrintsInStep, PrintStep
  PROVE  PrintsInStep'
<1>1. PICK q \in Requests :
        \/ \E p \in Pallets : Claim(q, p)
        \/ RenderFails(q) \/ CallPrinter(q) \/ CommandSettles(q)
        \/ Record(q) \/ Die(q) \/ AdminReconcile(q) \/ GatewayReconcile(q)
  BY DEF PrintStep
<1>2. /\ job \in [Requests -> JobRow \union {NoJob}]
      /\ DOMAIN call = Requests /\ DOMAIN paper = Requests
      /\ call[q] \in {"idle", "claimed", "over", "submitted", "failed", "delivery_unknown"}
  BY DEF TypeOK, Answers
<1>3. /\ (job[q] = NoJob) <=> (call[q] = "idle")
      /\ call[q] \in {"claimed"} \union Answers => job[q].status = "queued"
      /\ call[q] \in {"idle", "claimed"} => paper[q] = "none"
      /\ "submitted" \in {call[q], job[q].status} => paper[q] = "label"
      /\ "failed" \in {call[q], job[q].status} => paper[q] = "nothing"
  BY DEF PrintsInStep
<1>4. \A status \in {"submitted", "failed", "delivery_unknown"} :
        /\ [job[q] EXCEPT !.status = status] # NoJob
        /\ job[q] # NoJob => [job[q] EXCEPT !.status = status].status = status
  BY <1>2 DEF NoJob, JobRow
<1>5. /\ \A other \in Requests \ {q} :
           /\ job'[other] = job[other] /\ call'[other] = call[other] /\ paper'[other] = paper[other]
      /\ (job'[q] = NoJob) <=> (call'[q] = "idle")
      /\ call'[q] \in {"claimed"} \union Answers => job'[q].status = "queued"
      /\ call'[q] \in {"idle", "claimed"} => paper'[q] = "none"
      /\ "submitted" \in {call'[q], job'[q].status} => paper'[q] = "label"
      /\ "failed" \in {call'[q], job'[q].status} => paper'[q] = "nothing"
  <2> USE <1>2, <1>3 DEF Answers
  <2>1. CASE \E p \in Pallets : Claim(q, p)
    BY <2>1 DEF Claim, NoJob
  <2>2. CASE RenderFails(q)
    BY <2>2 DEF RenderFails, NoJob
  <2>3. CASE CallPrinter(q)
    BY <2>3 DEF CallPrinter, NoJob
  <2>4. CASE CommandSettles(q)
    BY <2>4 DEF CommandSettles, NoJob
  <2>5. CASE Record(q)
    BY <2>5, <1>4 DEF Record, Recorded
  <2>6. CASE Die(q)
    BY <2>6 DEF Die
  <2>7. CASE AdminReconcile(q)
    BY <2>7, <1>4 DEF AdminReconcile, Recorded, NoJob
  <2>8. CASE GatewayReconcile(q)
    BY <2>8, <1>4 DEF GatewayReconcile, Recorded, NoJob
  <2> QED
    BY <1>1, <2>1, <2>2, <2>3, <2>4, <2>5, <2>6, <2>7, <2>8
<1> QED
  BY <1>5 DEF PrintsInStep

\* What a step makes of a job and of its paper.
LEMMA JobsMove ==
  ASSUME TypeOK, PrintsInStep, PrintStep
  PROVE  \A q \in Requests :
           /\ \/ job'[q] = job[q]
              \/ job[q] = NoJob /\ \E p \in Pallets : job'[q] = [pallet |-> p, status |-> "queued"]
              \/ /\ Undecided(q) /\ job'[q].pallet = job[q].pallet
                 /\ job'[q].status \in {"submitted", "failed", "delivery_unknown"}
           /\ paper[q] = "label" => paper'[q] = "label"
           /\ paper'[q] = "label" => paper[q] = "label" \/ Undecided(q)
<1>1. PICK q \in Requests :
        \/ \E p \in Pallets : Claim(q, p)
        \/ RenderFails(q) \/ CallPrinter(q) \/ CommandSettles(q)
        \/ Record(q) \/ Die(q) \/ AdminReconcile(q) \/ GatewayReconcile(q)
  BY DEF PrintStep
<1>2. /\ job[q] \in JobRow \union {NoJob} /\ DOMAIN job = Requests
      /\ DOMAIN call = Requests /\ DOMAIN paper = Requests
  BY DEF TypeOK
<1>3. /\ (job[q] = NoJob) <=> (call[q] = "idle")
      /\ call[q] \in {"claimed"} \union Answers => job[q].status = "queued"
      /\ call[q] \in {"idle", "claimed"} => paper[q] = "none"
      /\ "submitted" \in {call[q], job[q].status} => paper[q] = "label"
      /\ "failed" \in {call[q], job[q].status} => paper[q] = "nothing"
  BY DEF PrintsInStep
<1>4. ASSUME Undecided(q), NEW status \in {"submitted", "failed", "delivery_unknown"}
      PROVE  LET moved == [job[q] EXCEPT !.status = status]
             IN  moved.status = status /\ moved.pallet = job[q].pallet
  BY <1>2, <1>4 DEF Undecided, NoJob, JobRow
<1>5. \A other \in Requests \ {q} : job'[other] = job[other] /\ paper'[other] = paper[other]
  BY <1>1, <1>2 DEF Claim, RenderFails, CallPrinter, CommandSettles, Record, Die,
                    AdminReconcile, GatewayReconcile, Recorded
<1>6. /\ \/ job'[q] = job[q]
         \/ job[q] = NoJob /\ \E p \in Pallets : job'[q] = [pallet |-> p, status |-> "queued"]
         \/ /\ Undecided(q) /\ job'[q].pallet = job[q].pallet
            /\ job'[q].status \in {"submitted", "failed", "delivery_unknown"}
      /\ paper[q] = "label" => paper'[q] = "label"
      /\ paper'[q] = "label" => paper[q] = "label" \/ Undecided(q)
  <2> USE <1>2, <1>3
  <2>1. CASE \E p \in Pallets : Claim(q, p)
    BY <2>1 DEF Claim
  <2>2. CASE RenderFails(q) \/ CallPrinter(q) \/ Die(q)
    BY <2>2 DEF RenderFails, CallPrinter, Die, Undecided
  <2>3. CASE CommandSettles(q)
    BY <2>3 DEF CommandSettles, Undecided, NoJob, JobRow
  <2>4. CASE Record(q) \/ AdminReconcile(q) \/ GatewayReconcile(q)
    <3>1. Undecided(q)
      BY <2>4 DEF Record, AdminReconcile, GatewayReconcile, Undecided
    <3>2. PICK status \in {"submitted", "failed", "delivery_unknown"} : Recorded(q, status)
      BY <2>4 DEF Record, AdminReconcile, GatewayReconcile, Answers
    <3>3. job'[q] = [job[q] EXCEPT !.status = status] /\ paper' = paper
      BY <3>2 DEF Recorded
    <3> QED BY <1>4, <3>1, <3>3
  <2> QED
    BY <1>1, <2>1, <2>2, <2>3, <2>4
<1> QED
  BY <1>5, <1>6

\* A job is opened only where no other one is undecided.
LEMMA StillOneUndecided ==
  ASSUME TypeOK, PrintsInStep, OneUndecided, PrintStep
  PROVE  OneUndecided'
<1>1. \A q \in Requests :
        \/ Undecided(q)' => Undecided(q) /\ job'[q].pallet = job[q].pallet
        \/ /\ \E p \in Pallets : job'[q] = [pallet |-> p, status |-> "queued"]
           /\ job[q] = NoJob
  BY JobsMove DEF Undecided
<1>2. CASE \E q \in Requests, p \in Pallets : Claim(q, p)
  <2>1. PICK q \in Requests, p \in Pallets : Claim(q, p)
    BY <1>2
  <2>2. \A other \in Requests \ {q} : job'[other] = job[other] /\ (job[other].pallet = p => ~Undecided(other))
    BY <2>1 DEF Claim, TypeOK, JobsOf, Undecided
  <2>3. job'[q].pallet = p
    BY <2>1 DEF Claim, TypeOK
  <2> QED BY <2>2, <2>3 DEF OneUndecided, Undecided
<1>3. CASE ~\E q \in Requests, p \in Pallets : Claim(q, p)
  <2>1. \A q \in Requests : Undecided(q)' => Undecided(q) /\ job'[q].pallet = job[q].pallet
    <3>1. PICK q \in Requests :
            \/ RenderFails(q) \/ CallPrinter(q) \/ CommandSettles(q)
            \/ Record(q) \/ Die(q) \/ AdminReconcile(q) \/ GatewayReconcile(q)
      BY <1>3 DEF PrintStep
    <3>2. \A other \in Requests : job[other] = NoJob => job'[other] = NoJob
      BY <3>1 DEF RenderFails, CallPrinter, CommandSettles, Record, Die, AdminReconcile,
                  GatewayReconcile, Recorded, TypeOK, PrintsInStep, NoJob, JobRow, Answers
    <3>3. \A other \in Requests, p \in Pallets : [pallet |-> p, status |-> "queued"] # NoJob
      BY DEF NoJob
    <3> QED BY <1>1, <3>2, <3>3
  <2> QED BY <2>1 DEF OneUndecided
<1> QED
  BY <1>2, <1>3

LEMMA ContractStep ==
  ASSUME IInv, IInv', [Next]_vars, NEW p \in Pallets
  PROVE  Label(p)!Step
<1> DEFINE fate  == [q \in Requests |-> IF job[q].pallet = p THEN Fate[job[q].status] ELSE "none"]
           label == [q \in Requests |-> job[q].pallet = p /\ paper[q] = "label"]
           Labelled(q) == job[q].pallet = p /\ paper[q] = "label"
<1>1. TypeOK /\ TypeOK' /\ PrintsInStep /\ PrintsInStep' /\ OneUndecided'
  BY DEF IInv
<1>2. \A q \in Requests :
        /\ job[q].pallet = p => job[q].status \in {"queued", "submitted", "failed", "delivery_unknown"}
        /\ job'[q].pallet = p => job'[q].status \in {"queued", "submitted", "failed", "delivery_unknown"}
  <2>1. p # 0
    BY BoundsAssumption DEF Pallets
  <2> QED BY <1>1, <2>1 DEF TypeOK, NoJob, JobRow
<1>3. /\ Fate["queued"] = "open" /\ Fate["delivery_unknown"] = "unknown"
      /\ Fate["submitted"] = "submitted" /\ Fate["failed"] = "failed"
  BY DEF Fate
<1>4. \A q \in Requests :
        /\ fate[q] = IF job[q].pallet = p THEN Fate[job[q].status] ELSE "none"
        /\ fate'[q] = IF job'[q].pallet = p THEN Fate[job'[q].status] ELSE "none"
  OBVIOUS
<1>5. \A q \in Requests : (label[q] <=> Labelled(q)) /\ (label'[q] <=> Labelled(q)')
  BY Zenon
<1>6. /\ fate' \in [Requests -> {"none", "open", "unknown", "submitted", "failed"}]
      /\ label' \in [Requests -> BOOLEAN]
  <2>1. fate' \in [Requests -> {"none", "open", "unknown", "submitted", "failed"}]
    BY <1>2, <1>3
  <2>2. label' \in [Requests -> BOOLEAN]
    OBVIOUS
  <2> QED BY <2>1, <2>2
<1> HIDE DEF fate, label
<1>7. ASSUME NEW q \in Requests
      PROVE  /\ \/ fate'[q] = fate[q]
                \/ fate[q] = "none" /\ fate'[q] = "open"
                \/ fate[q] = "open" /\ fate'[q] \in {"unknown", "submitted", "failed"}
                \/ fate[q] = "unknown" /\ fate'[q] \in {"submitted", "failed"}
             /\ Labelled(q) => Labelled(q)'
             /\ Labelled(q)' => Labelled(q) \/ fate[q] \in {"open", "unknown"}
  <2>1. CASE PrintStep
    <3>1. /\ \/ job'[q] = job[q]
             \/ job[q] = NoJob /\ \E other \in Pallets : job'[q] = [pallet |-> other, status |-> "queued"]
             \/ /\ Undecided(q) /\ job'[q].pallet = job[q].pallet
                /\ job'[q].status \in {"submitted", "failed", "delivery_unknown"}
          /\ paper[q] = "label" => paper'[q] = "label"
          /\ paper'[q] = "label" => paper[q] = "label" \/ Undecided(q)
      BY <1>1, <2>1, JobsMove
    <3>2. CASE job'[q] = job[q]
      BY <1>2, <1>3, <1>4, <3>1, <3>2 DEF Undecided
    <3>3. CASE job[q] = NoJob /\ job'[q] # job[q]
      <4>1. job[q].pallet # p
        BY <3>3, BoundsAssumption DEF NoJob, Pallets
      <4>2. ~Undecided(q)
        BY <3>3 DEF Undecided, NoJob
      <4>3. paper[q] # "label"
        BY <1>1, <3>3 DEF PrintsInStep
      <4>4. job'[q].status = "queued"
        <5>1. PICK other \in Pallets : job'[q] = [pallet |-> other, status |-> "queued"]
          BY <3>1, <3>3, <4>2, Zenon
        <5> QED BY <5>1
      <4> QED BY <1>3, <1>4, <3>1, <4>1, <4>2, <4>3, <4>4
    <3>4. CASE /\ Undecided(q) /\ job'[q].pallet = job[q].pallet
               /\ job'[q].status \in {"submitted", "failed", "delivery_unknown"}
      BY <1>2, <1>3, <1>4, <3>1, <3>4 DEF Undecided
    <3> QED BY <3>1, <3>2, <3>3, <3>4
  <2>2. CASE UNCHANGED prints
    BY <1>4, <2>2 DEF prints
  <2> QED BY <2>1, <2>2, StepKinds, OthersLeavePrints
<1>8. \A q, other \in Requests :
        fate'[q] \in {"open", "unknown"} /\ fate'[other] \in {"open", "unknown"} => q = other
  <2>1. \A q \in Requests : fate'[q] \in {"open", "unknown"} => Undecided(q)' /\ job'[q].pallet = p
    BY <1>2, <1>3, <1>4 DEF Undecided
  <2> QED BY <1>1, <2>1 DEF OneUndecided
<1>9. \A q \in Requests : /\ fate'[q] = "submitted" => Labelled(q)'
                          /\ fate'[q] \in {"none", "failed"} => ~Labelled(q)'
  BY <1>1, <1>2, <1>3, <1>4 DEF PrintsInStep
<1> HIDE DEF Labelled
<1>10. \A j, k \in Label(p)!Unsettled(fate') : j = k
  BY <1>8 DEF Label!Unsettled
<1>11. Label(p)!Honest(fate', label')
  BY <1>5, <1>9, Zenon DEF Label!Honest
<1>12. \A q \in Requests : fate'[q] = fate[q] \/ Label(p)!Legal(fate[q], fate'[q])
  BY <1>7 DEF Label!Legal
<1>13. \A q \in Requests : fate[q] \in {"open", "unknown"} => q \in Label(p)!Unsettled(fate)
  BY DEF Label!Unsettled
<1>14. \A q \in Requests : label'[q] # label[q] => label'[q] /\ q \in Label(p)!Unsettled(fate)
  <2>1. \A q \in Requests : /\ Labelled(q) => Labelled(q)'
                            /\ Labelled(q)' => Labelled(q) \/ q \in Label(p)!Unsettled(fate)
    BY <1>7, <1>13
  <2>2. \A q \in Requests : /\ label[q] \in BOOLEAN /\ label'[q] \in BOOLEAN
    BY DEF label
  <2> QED BY <1>5, <2>1, <2>2, Zenon
<1>15. fate' \in [Requests -> Label(p)!Fates]
  BY <1>6 DEF Label!Fates
<1> QED
  BY <1>6, <1>10, <1>11, <1>12, <1>14, <1>15, Zenon DEF Label!Step, fate, label

-----------------------------------------------------------------------------
(* Pallets and their lists. *)

LEMMA SameItems ==
  ASSUME NEW p, items'[p] = items[p]
  PROVE  Active(p)' = Active(p) /\ Members(p)' = Members(p) /\ RollsOn(p)' = RollsOn(p)
<1>1. Active(p)' = Active(p)
  BY DEF Active
<1> QED
  BY <1>1 DEF Members, RollsOn

\* A pallet list that lists something is not the empty document.
LEMMA ListedIsNotEmpty ==
  ASSUME NEW p \in Pallets, Members(p) # {}
  PROVE  RollsOn(p) # NoList
<1>1. Active(p) # {}
  BY DEF Members
<1>2. DOMAIN RollsOn(p) # {}
  BY <1>1 DEF RollsOn
<1> QED
  BY <1>2 DEF NoList

\* The list invariant of one pallet.
Matches(p) ==
  /\ pallet[p] = "sealed" => /\ document[p] # NoList /\ document[p] = RollsOn(p)
                             /\ \A r \in Members(p) : row[r] = "accepted"
  /\ pallet[p] \in {"none", "voided"} => Members(p) = {}
  /\ pallet[p] \in {"none", "open"} => document[p] = NoList
  /\ pallet[p] = "open" => Members(p) # {}
  /\ \A i, j \in Active(p) : items[p][i].roll = items[p][j].roll => i = j

Apart ==
  /\ \A p, other \in Pallets : p # other => Members(p) \intersect Members(other) = {}
  /\ \A p, other \in OpenPallets : p = other

LEMMA ListParts == ListMatchesPallet <=> (\A p \in Pallets : Matches(p)) /\ Apart
BY Zenon DEF ListMatchesPallet, Matches, Apart

\* A pallet that a step does not touch keeps its list; rows are only accepted.
LEMMA UntouchedMatches ==
  ASSUME NEW p \in Pallets, Matches(p), items'[p] = items[p], pallet'[p] = pallet[p],
         document'[p] = document[p],
         \A r \in Members(p) : row[r] = "accepted" => row'[r] = "accepted"
  PROVE  Matches(p)'
<1>1. Active(p)' = Active(p) /\ Members(p)' = Members(p) /\ RollsOn(p)' = RollsOn(p)
  BY SameItems
<1> QED
  BY <1>1 DEF Matches

LEMMA ListsAfterSelect ==
  ASSUME TypeOK, ListMatchesPallet, NEW r \in Rolls, Select(r)
  PROVE  ListMatchesPallet'
<1> SUFFICES (\A p \in Pallets : Matches(p)') /\ Apart'
  BY Zenon DEF ListMatchesPallet, Matches, Apart
<1>1. (\A p \in Pallets : Matches(p)) /\ Apart
  BY ListParts
<1>2. PICK p \in Pallets : Attach(p, r) /\ (p \in OpenPallets \/ (OpenPallets = {} /\ p \in Unused))
  BY DEF Select, OpenPallets, Unused
<1>3. /\ ~OnPallet(r) /\ UNCHANGED <<row, document>>
      /\ pallet' = [pallet EXCEPT ![p] = "open"]
  BY <1>2 DEF Select, Attach, intake
<1>4. /\ \A other \in Pallets \ {p} : items'[other] = items[other]
      /\ Active(p)' = Active(p) \union {Len(items[p]) + 1}
      /\ \A i \in Active(p) : items'[p][i] = items[p][i]
      /\ items'[p][Len(items[p]) + 1].roll = r
  BY <1>2, AttachEffect
<1>5. Members(p)' = Members(p) \union {r}
  BY <1>4 DEF Members
<1>6. \A other \in Pallets \ {p} : Members(other)' = Members(other)
  BY <1>4, SameItems
<1>7. DOMAIN pallet = Pallets
  BY DEF TypeOK
<1>8. \A other \in Pallets \ {p} : Matches(other)'
  BY <1>1, <1>3, <1>4, <1>7, UntouchedMatches
<1>9. Matches(p)'
  <2>1. pallet'[p] = "open"
    BY <1>3, <1>7
  <2>2. document'[p] = NoList
    BY <1>1, <1>2, <1>3 DEF Matches, OpenPallets, Unused
  <2>3. \A i \in Active(p) : items[p][i].roll # r
    BY <1>3 DEF OnPallet, Members
  <2>4. \A i, j \in Active(p)' : items'[p][i].roll = items'[p][j].roll => i = j
    BY <1>1, <1>4, <2>3 DEF Matches
  <2> QED BY <1>5, <2>1, <2>2, <2>4 DEF Matches
<1>10. Apart'
  <2>1. \A other \in Pallets : r \notin Members(other)
    BY <1>3 DEF OnPallet
  <2>2. OpenPallets' = {p}
    BY <1>1, <1>2, <1>3, <1>7 DEF OpenPallets, Apart
  <2>3. \A one, other \in Pallets : one # other => Members(one)' \intersect Members(other)' = {}
    BY <1>1, <1>5, <1>6, <2>1 DEF Apart
  <2> QED BY <2>2, <2>3 DEF Apart
<1> QED
  BY <1>8, <1>9, <1>10

\* A pallet gives up rolls: what stays on it, and on the others.
LEMMA ListsAfterRelease ==
  ASSUME TypeOK, ListMatchesPallet, NEW p \in Pallets, NEW S,
         items' = Release(p, S), UNCHANGED <<row, document>>,
         NEW status, pallet' = [pallet EXCEPT ![p] = status],
         \/ status = "voided" /\ Members(p) \subseteq S
         \/ status = "open" /\ pallet[p] = "open" /\ ~(Members(p) \subseteq S)
  PROVE  ListMatchesPallet'
<1> SUFFICES (\A other \in Pallets : Matches(other)') /\ Apart'
  BY Zenon DEF ListMatchesPallet, Matches, Apart
<1>1. (\A other \in Pallets : Matches(other)) /\ Apart
  BY ListParts
<1>2. /\ \A other \in Pallets \ {p} : items'[other] = items[other]
      /\ Active(p)' = {i \in Active(p) : items[p][i].roll \notin S}
      /\ \A i \in Active(p)' : items'[p][i] = items[p][i]
  BY ReleaseEffect
<1>3. Members(p)' = Members(p) \ S
  BY <1>2 DEF Members
<1>4. \A other \in Pallets \ {p} : Members(other)' = Members(other)
  BY <1>2, SameItems
<1>5. DOMAIN pallet = Pallets
  BY DEF TypeOK
<1>6. \A other \in Pallets \ {p} : Matches(other)'
  BY <1>1, <1>2, <1>5, UntouchedMatches
<1>7. pallet'[p] = status
  BY <1>5
<1>8. Matches(p)'
  <2>1. \A i, j \in Active(p)' : items'[p][i].roll = items'[p][j].roll => i = j
    BY <1>1, <1>2 DEF Matches
  <2> QED BY <1>1, <1>3, <1>7, <2>1 DEF Matches
<1>9. Apart'
  <2>1. OpenPallets' \subseteq OpenPallets
    BY <1>5, <1>7 DEF OpenPallets
  <2>2. \A one, other \in Pallets : one # other => Members(one)' \intersect Members(other)' = {}
    BY <1>1, <1>3, <1>4 DEF Apart
  <2> QED BY <1>1, <2>1, <2>2 DEF Apart
<1> QED
  BY <1>6, <1>8, <1>9

LEMMA ListsAfterSeal ==
  ASSUME TypeOK, ListMatchesPallet, Seal
  PROVE  ListMatchesPallet'
<1> SUFFICES (\A p \in Pallets : Matches(p)') /\ Apart'
  BY Zenon DEF ListMatchesPallet, Matches, Apart
<1>1. (\A p \in Pallets : Matches(p)) /\ Apart
  BY ListParts
<1>2. PICK p \in OpenPallets : /\ \A r \in Members(p) : row[r] = "accepted"
                               /\ pallet' = [pallet EXCEPT ![p] = "sealed"]
                               /\ document' = [document EXCEPT ![p] = RollsOn(p)]
  BY DEF Seal
<1>3. UNCHANGED <<row, items>> /\ p \in Pallets /\ pallet[p] = "open"
  BY DEF Seal, intake, OpenPallets
<1>4. \A other \in Pallets : /\ Active(other)' = Active(other)
                             /\ Members(other)' = Members(other)
                             /\ RollsOn(other)' = RollsOn(other)
  BY <1>3, SameItems
<1>5. DOMAIN pallet = Pallets /\ DOMAIN document = Pallets
  BY DEF TypeOK
<1>6. \A other \in Pallets \ {p} : Matches(other)'
  BY <1>1, <1>2, <1>3, <1>5, UntouchedMatches
<1>7. Matches(p)'
  <2>1. document'[p] = RollsOn(p) /\ pallet'[p] = "sealed"
    BY <1>2, <1>3, <1>5
  <2>2. RollsOn(p) # NoList
    BY <1>1, <1>3, ListedIsNotEmpty DEF Matches
  <2> QED BY <1>1, <1>2, <1>3, <1>4, <2>1, <2>2 DEF Matches
<1>8. Apart'
  <2>1. OpenPallets' \subseteq OpenPallets
    BY <1>2, <1>3, <1>5 DEF OpenPallets
  <2> QED BY <1>1, <1>4, <2>1 DEF Apart
<1> QED
  BY <1>6, <1>7, <1>8

\* The steps of a print change nothing that lists, intake and delivery rest on.
LEMMA ListsUnchanged ==
  ASSUME ListMatchesPallet, UNCHANGED <<row, piles>>
  PROVE  ListMatchesPallet'
<1> SUFFICES (\A p \in Pallets : Matches(p)') /\ Apart'
  BY Zenon DEF ListMatchesPallet, Matches, Apart
<1>1. (\A p \in Pallets : Matches(p)) /\ Apart
  BY ListParts
<1>2. UNCHANGED <<row, pallet, items, document>>
  BY DEF piles
<1>3. \A p \in Pallets : Matches(p)'
  BY <1>1, <1>2, UntouchedMatches
<1>4. \A p \in Pallets : Members(p)' = Members(p)
  BY <1>2, SameItems
<1> QED
  BY <1>1, <1>2, <1>3, <1>4 DEF Apart, OpenPallets

LEMMA ListsAfterScan ==
  ASSUME TypeOK, ListMatchesPallet, NEW r \in Rolls, Scan(r)
  PROVE  ListMatchesPallet'
<1> SUFFICES (\A p \in Pallets : Matches(p)') /\ Apart'
  BY Zenon DEF ListMatchesPallet, Matches, Apart
<1>1. (\A p \in Pallets : Matches(p)) /\ Apart
  BY ListParts
<1>2. UNCHANGED <<pallet, items, document>> /\ row' = [row EXCEPT ![r] = "accepted"]
  BY DEF Scan, piles
<1>3. \A other : row[other] = "accepted" => row'[other] = "accepted"
  BY <1>2 DEF TypeOK
<1>4. \A p \in Pallets : Matches(p)'
  BY <1>1, <1>2, <1>3, UntouchedMatches
<1>5. \A p \in Pallets : Members(p)' = Members(p)
  BY <1>2, SameItems
<1> QED
  BY <1>1, <1>2, <1>4, <1>5 DEF Apart, OpenPallets

LEMMA ListsStayTrue ==
  ASSUME TypeOK, ListMatchesPallet, [Next]_vars
  PROVE  ListMatchesPallet'
<1>1. CASE PrintStep
  BY <1>1, PrintsLeaveOthers, ListsUnchanged DEF intake
<1>2. CASE UNCHANGED vars
  BY <1>2, ListsUnchanged DEF vars, intake
<1>3. CASE DeliveryStep
  <2>1. UNCHANGED <<row, piles>>
    BY <1>3, Zenon DEF DeliveryStep, CloseFull, HandoffScan, DeliverPallet, DeliverRoll,
                       CloseDelivery, intake
  <2> QED BY <2>1, ListsUnchanged
<1>4. CASE PackingStep
  <2>1. ASSUME NEW r \in Rolls, Deselect(r)
        PROVE  ListMatchesPallet'
    <3>1. PICK p \in OpenPallets :
            /\ r \in Members(p)
            /\ items' = Release(p, {r})
            /\ pallet' = [pallet EXCEPT ![p] = IF Members(p) = {r} THEN "voided" ELSE "open"]
      BY <2>1 DEF Deselect
    <3>2. p \in Pallets /\ pallet[p] = "open" /\ UNCHANGED <<row, document>>
      BY <2>1 DEF Deselect, OpenPallets, intake
    <3>3. CASE Members(p) = {r}
      BY <3>1, <3>2, <3>3, ListsAfterRelease
    <3>4. CASE Members(p) # {r}
      <4>1. ~(Members(p) \subseteq {r})
        BY <3>1, <3>4
      <4> QED BY <3>1, <3>2, <3>4, <4>1, ListsAfterRelease
    <3> QED BY <3>3, <3>4
  <2>2. CASE VoidCommit
    <3>1. void.pallet \in Pallets
      BY <2>2 DEF VoidCommit, TypeOK, Void
    <3>2. UNCHANGED <<row, document>>
      BY <2>2 DEF VoidCommit, intake
    <3> QED BY <2>2, <3>1, <3>2, ListsAfterRelease DEF VoidCommit
  <2>3. CASE \/ \E r \in Rolls : SelectAgain(r)
             \/ ClosePartial
             \/ \E p \in Pallets : VoidBegin(p)
             \/ VoidAbort
    <3>1. UNCHANGED <<row, piles>>
      BY <2>3, Zenon DEF SelectAgain, ClosePartial, VoidBegin, VoidAbort, intake
    <3> QED BY <3>1, ListsUnchanged
  <2> QED
    BY <1>4, <2>1, <2>2, <2>3, ListsAfterScan, ListsAfterSelect, ListsAfterSeal DEF PackingStep
<1> QED
  BY <1>1, <1>2, <1>3, <1>4, StepKinds

-----------------------------------------------------------------------------
(* The intake stays covered, the delivery agrees with the stock. *)

LEMMA VoidKeepsHolding ==
  ASSUME VoidHoldsTask, [Next]_vars
  PROVE  VoidHoldsTask'
<1>1. CASE PrintStep
  BY <1>1, PrintsLeaveOthers DEF VoidHoldsTask, intake
<1>2. CASE UNCHANGED vars
  BY <1>2 DEF VoidHoldsTask, vars, intake
<1>3. CASE PackingStep
  BY <1>3, Zenon DEF PackingStep, Scan, Select, Deselect, SelectAgain, Seal, ClosePartial, VoidBegin,
              VoidCommit, VoidAbort, VoidHoldsTask, TaskFree, TaskOpen, intake
<1>4. CASE DeliveryStep
  BY <1>4 DEF DeliveryStep, CloseFull, HandoffScan, DeliverPallet, DeliverRoll, CloseDelivery,
              VoidHoldsTask, TaskFree, intake
<1> QED
  BY <1>1, <1>2, <1>3, <1>4, StepKinds

\* Only an open intake loses a listed roll, or accepts one.
LEMMA IntakeStaysCovered ==
  ASSUME TypeOK, VoidHoldsTask, ClosedIntakeIsCovered, [Next]_vars
  PROVE  ClosedIntakeIsCovered'
<1>1. CASE PrintStep \/ UNCHANGED vars
  <2>1. UNCHANGED <<task, row, pallet, items>>
    BY <1>1, PrintsLeaveOthers DEF vars, intake, piles
  <2>2. \A p : Members(p)' = Members(p)
    BY <2>1, SameItems
  <2> QED BY <2>1, <2>2 DEF ClosedIntakeIsCovered, Covered
<1>2. CASE PackingStep
  <2>1. CASE Seal
    <3>1. PICK p \in Pallets : pallet' = [pallet EXCEPT ![p] = "sealed"]
      BY <2>1 DEF Seal, OpenPallets
    <3>2. UNCHANGED <<task, row, items>>
      BY <2>1 DEF Seal, intake
    <3>3. \A other \in Pallets : pallet[other] = "sealed" => pallet'[other] = "sealed"
      BY <3>1 DEF TypeOK
    <3>4. \A other : Members(other)' = Members(other)
      BY <3>2, SameItems
    <3> QED BY <3>2, <3>3, <3>4 DEF ClosedIntakeIsCovered, Covered
  <2>2. CASE VoidAbort
    <3>1. UNCHANGED <<task, row, pallet, items>>
      BY <2>2 DEF VoidAbort, intake, piles
    <3>2. \A p : Members(p)' = Members(p)
      BY <3>1, SameItems
    <3> QED BY <3>1, <3>2 DEF ClosedIntakeIsCovered, Covered
  <2>3. CASE ~Seal /\ ~VoidAbort
    <3>1. task # "closed" /\ task' # "closed"
      BY <1>2, <2>3 DEF PackingStep, Scan, Select, Deselect, SelectAgain, Selectable, ClosePartial,
                        VoidBegin, VoidCommit, VoidHoldsTask, TaskOpen, intake
    <3> QED BY <3>1 DEF ClosedIntakeIsCovered
  <2> QED BY <2>1, <2>2, <2>3
<1>3. CASE DeliveryStep
  <2>1. UNCHANGED <<row, pallet, items>>
    BY <1>3, Zenon DEF DeliveryStep, CloseFull, HandoffScan, DeliverPallet, DeliverRoll,
                       CloseDelivery, intake, piles
  <2>2. \A p : Members(p)' = Members(p)
    BY <2>1, SameItems
  <2>3. task' = "closed" => \A r \in Rolls : row[r] = "accepted" /\ Covered(r)
    BY <1>3 DEF DeliveryStep, CloseFull, HandoffScan, DeliverPallet, DeliverRoll, CloseDelivery,
                intake, ClosedIntakeIsCovered
  <2> QED BY <2>1, <2>2, <2>3 DEF ClosedIntakeIsCovered, Covered
<1> QED
  BY <1>1, <1>2, <1>3, StepKinds

\* What a step makes of a roll: scanned, handed off, or delivered.
RollStep(r) ==
  \/ /\ dRow'[r] = dRow[r] /\ stock'[r] = stock[r] /\ shipped'[r] = shipped[r] /\ row'[r] = row[r]
  \/ /\ row[r] = "expected" /\ row'[r] = "accepted" /\ stock[r] = "sent" /\ stock'[r] = "received"
     /\ dRow'[r] = dRow[r] /\ shipped'[r] = shipped[r]
  \/ /\ dRow[r] = "none" /\ dRow'[r] = "expected" /\ stock[r] = "received"
     /\ stock'[r] = stock[r] /\ shipped'[r] = shipped[r] /\ row'[r] = row[r]
  \/ /\ dRow[r] # "accepted" /\ dRow'[r] = "accepted" /\ stock[r] = "received"
     /\ stock'[r] = "delivered" /\ shipped'[r] = shipped[r] + 1 /\ row'[r] = row[r]

ReadyStep == ready' = ready \/ (ready' /\ task' = "closed" /\ \A r \in Rolls : dRow'[r] # "none")

LEMMA HandoffStep ==
  ASSUME TypeOK, NEW S, TryHandoff(task', S), UNCHANGED <<row, stock>>
  PROVE  (\A r \in Rolls : RollStep(r)) /\ ReadyStep
<1>1. /\ shipped' = shipped
      /\ \A r \in Rolls :
           \/ dRow'[r] = dRow[r]
           \/ dRow[r] = "none" /\ dRow'[r] = "expected" /\ stock[r] = "received"
      /\ \/ ready' = ready
         \/ Complete(task') /\ \A r \in Rolls : dRow'[r] # "none"
  BY HandoffEffect
<1>2. \A r \in Rolls : RollStep(r)
  BY <1>1 DEF RollStep
<1>3. ready' \in BOOLEAN /\ ready \in BOOLEAN
  BY HandoffEffect DEF TypeOK
<1>4. Complete(task') => task' = "closed"
  BY DEF Complete
<1>5. ReadyStep
  <2>1. CASE ready' = ready
    BY <2>1 DEF ReadyStep
  <2>2. CASE ready' # ready
    <3>1. task' = "closed" /\ \A r \in Rolls : dRow'[r] # "none"
      BY <1>1, <1>4, <2>2, Zenon
    <3>2. ready'
      BY <2>2, TryHandoff(task', S) DEF TryHandoff, TypeOK
    <3> QED BY <3>1, <3>2 DEF ReadyStep
  <2> QED BY <2>1, <2>2
<1> QED
  BY <1>2, <1>5

\* The intake task never reopens.
LEMMA ClosedStaysClosed ==
  ASSUME VoidHoldsTask, [Next]_vars, task = "closed"
  PROVE  task' = "closed"
<1>1. CASE PrintStep \/ UNCHANGED vars
  BY <1>1, PrintsLeaveOthers DEF vars, intake
<1>2. CASE PackingStep
  BY <1>2, Zenon DEF PackingStep, Scan, Select, Deselect, SelectAgain, Seal, ClosePartial, VoidBegin,
              VoidCommit, VoidAbort, intake
<1>3. CASE DeliveryStep
  BY <1>3, Zenon DEF DeliveryStep, CloseFull, HandoffScan, DeliverPallet, DeliverRoll, CloseDelivery, intake
<1> QED
  BY <1>1, <1>2, <1>3, StepKinds

LEMMA RollsMove ==
  ASSUME TypeOK, [Next]_vars
  PROVE  (\A r \in Rolls : RollStep(r)) /\ ReadyStep
<1>1. ASSUME UNCHANGED <<row, stock, leaving>>
      PROVE  (\A r \in Rolls : RollStep(r)) /\ ReadyStep
  BY <1>1 DEF RollStep, ReadyStep, leaving
<1>2. CASE PrintStep \/ UNCHANGED vars
  <2>1. UNCHANGED <<row, stock, leaving>>
    BY <1>2, PrintsLeaveOthers DEF vars, intake
  <2> QED BY <1>1, <2>1
<1>3. CASE PackingStep
  <2>1. ASSUME NEW r \in Rolls, Scan(r)
        PROVE  (\A other \in Rolls : RollStep(other)) /\ ReadyStep
    BY <2>1 DEF Scan, TypeOK, RollStep, ReadyStep, leaving
  <2>2. CASE Seal
    <3>1. PICK p \in Pallets : TryHandoff(task, Members(p))
      BY <2>2 DEF Seal, OpenPallets
    <3>2. task' = task /\ UNCHANGED <<row, stock>>
      BY <2>2 DEF Seal, intake
    <3> QED BY <3>1, <3>2, HandoffStep
  <2>3. CASE ~Seal /\ ~\E r \in Rolls : Scan(r)
    <3>1. UNCHANGED <<row, stock, leaving>>
      BY <1>3, <2>3, Zenon DEF PackingStep, Select, Deselect, SelectAgain, ClosePartial,
                               VoidBegin, VoidCommit, VoidAbort, intake
    <3> QED BY <1>1, <3>1
  <2> QED BY <2>1, <2>2, <2>3
<1>4. CASE DeliveryStep
  <2>1. CASE CloseFull
    <3>1. TryHandoff(task', {}) /\ UNCHANGED <<row, stock>>
      BY <2>1 DEF CloseFull
    <3> QED BY <3>1, HandoffStep
  <2>2. ASSUME NEW p \in Pallets, HandoffScan(p)
        PROVE  (\A r \in Rolls : RollStep(r)) /\ ReadyStep
    <3>1. TryHandoff(task', Members(p)) /\ UNCHANGED <<row, stock>>
      BY <2>2 DEF HandoffScan, intake
    <3> QED BY <3>1, HandoffStep
  <2>3. ASSUME NEW p \in Pallets, DeliverPallet(p)
        PROVE  (\A r \in Rolls : RollStep(r)) /\ ReadyStep
    <3>1. /\ \A r \in Rolls :
               \/ dRow'[r] = dRow[r] /\ stock'[r] = stock[r] /\ shipped'[r] = shipped[r]
               \/ /\ dRow[r] = "none" /\ dRow'[r] = "expected" /\ stock[r] = "received"
                  /\ stock'[r] = stock[r] /\ shipped'[r] = shipped[r]
               \/ /\ dRow[r] # "accepted" /\ dRow'[r] = "accepted" /\ stock[r] = "received"
                  /\ stock'[r] = "delivered" /\ shipped'[r] = shipped[r] + 1
          /\ \/ ready' = ready
             \/ Complete(task) /\ \A r \in Rolls : dRow'[r] # "none"
      BY <2>3, DeliveryEffect
    <3>2. task' = task /\ row' = row
      BY <2>3 DEF DeliverPallet, intake
    <3>3. \A r \in Rolls : RollStep(r)
      BY <3>1, <3>2 DEF RollStep
    <3>4. CASE ready' = ready
      BY <3>3, <3>4 DEF ReadyStep
    <3>5. CASE ready' # ready
      <4>1. task' = "closed" /\ \A r \in Rolls : dRow'[r] # "none"
        BY <3>1, <3>2, <3>5 DEF Complete
      <4>2. ready'
        BY <2>3, <3>5 DEF DeliverPallet, TypeOK
      <4> QED BY <3>3, <4>1, <4>2 DEF ReadyStep
    <3> QED BY <3>4, <3>5
  <2>4. ASSUME NEW r \in Rolls, DeliverRoll(r)
        PROVE  (\A other \in Rolls : RollStep(other)) /\ ReadyStep
    BY <2>4 DEF DeliverRoll, Deliver, TypeOK, RollStep, ReadyStep, intake
  <2>5. ASSUME NEW status \in {"partial", "closed"}, CloseDelivery(status)
        PROVE  (\A r \in Rolls : RollStep(r)) /\ ReadyStep
    BY <2>5 DEF CloseDelivery, RollStep, ReadyStep, intake
  <2> QED BY <1>4, <2>1, <2>2, <2>3, <2>4, <2>5 DEF DeliveryStep
<1> QED
  BY <1>2, <1>3, <1>4, StepKinds

LEMMA DeliveryStaysTrue ==
  ASSUME TypeOK, RowsFollowStock, DeliveryMatchesStock, [Next]_vars
  PROVE  RowsFollowStock' /\ DeliveryMatchesStock'
<1> SUFFICES ASSUME NEW r \in Rolls
             PROVE  /\ (row'[r] = "accepted") <=> (stock'[r] # "sent")
                    /\ (stock'[r] = "delivered") <=> (dRow'[r] = "accepted")
                    /\ shipped'[r] = (IF stock'[r] = "delivered" THEN 1 ELSE 0)
                    /\ dRow'[r] = "expected" => stock'[r] = "received" /\ row'[r] = "accepted"
  BY Zenon DEF RowsFollowStock, DeliveryMatchesStock
<1>1. RollStep(r)
  BY RollsMove
<1>2. /\ (row[r] = "accepted") <=> (stock[r] # "sent")
      /\ (stock[r] = "delivered") <=> (dRow[r] = "accepted")
      /\ shipped[r] = (IF stock[r] = "delivered" THEN 1 ELSE 0)
      /\ dRow[r] = "expected" => stock[r] = "received" /\ row[r] = "accepted"
  BY DEF RowsFollowStock, DeliveryMatchesStock
<1> QED
  BY <1>1, <1>2 DEF RollStep

LEMMA ReadyStaysWhole ==
  ASSUME TypeOK, VoidHoldsTask, ReadyIsWhole, [Next]_vars
  PROVE  ReadyIsWhole'
<1>1. (\A r \in Rolls : RollStep(r)) /\ ReadyStep
  BY RollsMove
<1>2. Listed' = {r \in Rolls : dRow'[r] # "none"} /\ Listed = {r \in Rolls : dRow[r] # "none"}
  BY DEF Listed
<1>3. Listed \subseteq Listed'
  BY <1>1, <1>2 DEF RollStep
<1>4. CASE ready' = ready
  <2>1. ready' => task' = "closed" /\ Listed = Rolls
    BY <1>4, ClosedStaysClosed, Zenon DEF ReadyIsWhole
  <2> QED BY <1>2, <1>3, <2>1 DEF ReadyIsWhole
<1>5. CASE ready' /\ task' = "closed" /\ \A r \in Rolls : dRow'[r] # "none"
  BY <1>2, <1>5 DEF ReadyIsWhole
<1> QED
  BY <1>1, <1>4, <1>5 DEF ReadyStep

-----------------------------------------------------------------------------
(* Theorems. *)

LEMMA Induction == IInv /\ [Next]_vars => IInv'
<1> SUFFICES ASSUME IInv, [Next]_vars
             PROVE  IInv'
  OBVIOUS
<1>1. /\ TypeOK /\ VoidHoldsTask /\ RowsFollowStock /\ ListMatchesPallet
      /\ ClosedIntakeIsCovered /\ DeliveryMatchesStock /\ ReadyIsWhole
      /\ PrintsInStep /\ OneUndecided
  BY DEF IInv
<1>2. PrintsInStep' /\ OneUndecided'
  <2>1. CASE PrintStep
    BY <1>1, <2>1, PrintsStayInStep, StillOneUndecided
  <2>2. CASE UNCHANGED prints
    BY <1>1, <2>2 DEF prints, PrintsInStep, OneUndecided, Undecided
  <2> QED BY <2>1, <2>2, StepKinds, OthersLeavePrints
<1>3. TypeOK'
  BY <1>1, TypeStep
<1>4. ListMatchesPallet' /\ VoidHoldsTask' /\ ClosedIntakeIsCovered'
  BY <1>1, ListsStayTrue, VoidKeepsHolding, IntakeStaysCovered
<1>5. RowsFollowStock' /\ DeliveryMatchesStock' /\ ReadyIsWhole'
  BY <1>1, DeliveryStaysTrue, ReadyStaysWhole
<1> QED
  BY <1>2, <1>3, <1>4, <1>5 DEF IInv

\* The inductive invariant holds in every state: next to the properties below,
\* an annulment under way keeps the intake open, scan rows follow the stock, and
\* the request of a print and its job stay in step.
THEOREM Invariance == Spec => []IInv
<1>1. Init => IInv
  BY InitialState
<1> QED
  BY <1>1, Induction, PTL DEF Spec

\* The tables hold rows of their types only, whatever is scanned, packed,
\* printed, annulled and delivered.
THEOREM TypeCorrect == Spec => []TypeOK
<1>1. IInv => TypeOK
  BY DEF IInv
<1> QED
  BY <1>1, Invariance, PTL

\* A sealed pallet holds what its list says, a voided one nothing, and no roll
\* lies on two pallets.
THEOREM ListsMatchPallets == Spec => []ListMatchesPallet
<1>1. IInv => ListMatchesPallet
  BY DEF IInv
<1> QED
  BY <1>1, Invariance, PTL

\* After the intake is closed each of its rolls stays on a valid pallet list.
THEOREM ClosedIntakeStaysCovered == Spec => []ClosedIntakeIsCovered
<1>1. IInv => ClosedIntakeIsCovered
  BY DEF IInv
<1> QED
  BY <1>1, Invariance, PTL

\* A roll has left the stock exactly if its delivery row is accepted, by exactly
\* one delivery scan.
THEOREM DeliveryAgreesWithStock == Spec => []DeliveryMatchesStock
<1>1. IInv => DeliveryMatchesStock
  BY DEF IInv
<1> QED
  BY <1>1, Invariance, PTL

\* An order said to be ready for shipment is closed at the intake and whole on
\* its delivery task.
THEOREM ReadyOrdersAreWhole == Spec => []ReadyIsWhole
<1>1. IInv => ReadyIsWhole
  BY DEF IInv
<1> QED
  BY <1>1, Invariance, PTL

\* The print jobs of each pallet list keep the contract of a print job.
THEOREM PrintsKeepContract == Spec => ImplementsPrintJob
<1>1. ASSUME Init, NEW p \in Pallets
      PROVE  Label(p)!Init
  <2>1. p # 0
    BY BoundsAssumption DEF Pallets
  <2> QED BY <1>1, <2>1 DEF Init, NoJob, Label!Init
<1>2. Init => \A p \in Pallets : Label(p)!Init
  BY <1>1
<1>3. IInv /\ IInv' /\ [Next]_vars => [printed' # printed => \A p \in Pallets : Label(p)!Step]_printed
  BY ContractStep
<1> QED
  BY <1>2, <1>3, Invariance, PTL DEF Spec, ImplementsPrintJob
===============================================================================

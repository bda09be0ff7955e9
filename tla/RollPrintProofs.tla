---------------------------- MODULE RollPrintProofs ----------------------------
(***************************************************************************)
(* Theorems about the prints of one roll, for every number of requests and *)
(* operators and every number of sessions: journal and print jobs agree,   *)
(* labels come out one at a time, no roll passes its print without one,    *)
(* the weight on a label stays the recorded one, and a print job keeps its *)
(* contract.                                                               *)
(***************************************************************************)
EXTENDS RollPrint, TLAPS

LineTypes ==
  /\ roll \in Roll
  /\ session \in 1..MaxSession
  /\ weighing \in Weighing \union {None}

KeyTypes ==
  /\ ops \in [Keys -> Operation \union {None}]
  /\ job \in [Keys -> JobStates]
  /\ linked \subseteq {k \in Keys : job[k] # "none"}
  /\ call \in [Keys -> Calls]
  /\ row \in [Keys -> Command!Fates]
  /\ device \in [Keys -> Outcomes]

LEMMA TypeParts == TypeOK <=> LineTypes /\ KeyTypes
BY Zenon DEF TypeOK, LineTypes, KeyTypes

\* JournalMatchesJob for one key.
Matches(k) ==
  /\ job[k] = "none"             <=> ops[k] = None \/ FailedWith(k, "binding")
  /\ k \in Active                <=> InProgress(k)
  /\ job[k] = "submitted"        <=> ops[k].status = "succeeded"
  /\ job[k] = "delivery_unknown" <=> FailedWith(k, "unknown")

LEMMA MatchesAll == JournalMatchesJob <=> \A k \in Keys : Matches(k)
BY Zenon DEF JournalMatchesJob, Matches

-----------------------------------------------------------------------------
(* The kinds of steps. *)

PrintStep(k) == Claiming(k) \/ Printing(k) \/ Ending(k) \/ Reconciling(k)

LineStep == Operating \/ CloseShift \/ \E operator \in Operators : TakeOver(operator)

LEMMA StepKinds ==
  [Next]_vars => (\E k \in Keys : PrintStep(k)) \/ LineStep \/ Measuring \/ UNCHANGED vars
BY Zenon DEF Next, PrintStep, LineStep

-----------------------------------------------------------------------------
(* What happens to the row of an operation. *)

LEMMA OperationKeepsType ==
  ASSUME NEW op \in Operation,
         NEW status \in {"in_progress", "succeeded", "failed"},
         NEW error \in {"none", "unknown", "not_sent", "device", "binding"},
         NEW lease \in {"live", "expired", "none"}
  PROVE  /\ [op EXCEPT !.status = status, !.error = error, !.lease = lease] \in Operation
         /\ [op EXCEPT !.status = status, !.error = error] \in Operation
         /\ [op EXCEPT !.lease = lease] \in Operation
BY DEF Operation

LEMMA CloseEffect ==
  ASSUME KeyTypes, NEW k \in Keys, InProgress(k),
         NEW status \in {"succeeded", "failed"},
         NEW error \in {"none", "unknown", "not_sent", "device"},
         Close(k, status, error)
  PROVE  /\ ops' \in [Keys -> Operation \union {None}]
         /\ ops'[k] # None /\ ops'[k].status = status /\ ops'[k].error = error
         /\ \A other \in Keys \ {k} : ops'[other] = ops[other]
<1>1. ops \in [Keys -> Operation \union {None}]
  BY DEF KeyTypes
<1>2. ops[k] \in Operation
  BY <1>1 DEF InProgress, None
<1> DEFINE new == [ops[k] EXCEPT !.status = status, !.error = error, !.lease = "none"]
<1>3. new \in Operation
  BY <1>2, OperationKeepsType
<1>4. new.status = status /\ new.error = error
  BY <1>2 DEF Operation
<1>5. ops' = [ops EXCEPT ![k] = new]
  BY DEF Close
<1> HIDE DEF new
<1>6. ops'[k] = new /\ \A other \in Keys \ {k} : ops'[other] = ops[other]
  BY <1>1, <1>5
<1>7. new # None
  BY <1>3 DEF Operation, None
<1> QED
  BY <1>1, <1>3, <1>4, <1>5, <1>6, <1>7

LEMMA SettledEffect ==
  ASSUME KeyTypes, NEW k \in Keys, FailedWith(k, "unknown"),
         NEW observed \in BOOLEAN, ops' = Settled(k, observed)
  PROVE  /\ ops' \in [Keys -> Operation \union {None}]
         /\ ops'[k] # None
         /\ ops'[k].status = IF observed THEN "succeeded" ELSE "failed"
         /\ ops'[k].error = IF observed THEN "none" ELSE "not_sent"
         /\ \A other \in Keys \ {k} : ops'[other] = ops[other]
<1>1. ops \in [Keys -> Operation \union {None}]
  BY DEF KeyTypes
<1>2. ops[k] \in Operation
  BY <1>1 DEF FailedWith, None
<1> DEFINE status == IF observed THEN "succeeded" ELSE "failed"
           error == IF observed THEN "none" ELSE "not_sent"
           new == [ops[k] EXCEPT !.status = status, !.error = error]
<1>3. new \in Operation
  BY <1>2, OperationKeepsType
<1>4. new.status = status /\ new.error = error
  BY <1>2 DEF Operation
<1>5. ops' = [ops EXCEPT ![k] = new]
  BY DEF Settled
<1> HIDE DEF new
<1>6. ops'[k] = new /\ \A other \in Keys \ {k} : ops'[other] = ops[other]
  BY <1>1, <1>5
<1>7. new # None
  BY <1>3 DEF Operation, None
<1> QED
  BY <1>1, <1>3, <1>4, <1>5, <1>6, <1>7

-----------------------------------------------------------------------------
(* What a step for one key does to that key and to the roll. *)

Others(k) == \A other \in Keys \ {k} :
  /\ ops'[other] = ops[other] /\ job'[other] = job[other] /\ call'[other] = call[other]
  /\ row'[other] = row[other] /\ device'[other] = device[other]

JobMoves(k) ==
  \/ job'[k] = job[k]
  \/ /\ job[k] = "none" /\ job'[k] \in {"queued", "reprint_requested"}
     /\ Active = {} /\ Unknown = {} /\ roll.step \in {"qr_print", "qr_check", "handover"}
  \/ k \in Active /\ job'[k] \in {"delivery_unknown", "submitted", "failed"}
  \/ k \in Unknown /\ job'[k] \in {"submitted", "failed"}

PaperMoves(k) ==
  \/ device'[k] = device[k]
  \/ device[k] = "idle" /\ device'[k] # "printed"
  \/ device[k] = "busy"

RollMoves(k) ==
  /\ session' = session /\ weighing' = weighing /\ roll' \in Roll
  /\ roll'.from = roll.from /\ roll'.status = roll.status /\ roll'.owner = roll.owner
  /\ \/ roll'.step = roll.step
     \/ /\ roll.step \in {"qr_print", "qr_check", "handover"} /\ roll'.step = "qr_check"
        /\ job'[k] = "submitted"

Effect(k) ==
  /\ KeyTypes' /\ Matches(k)' /\ InStep(k)'
  /\ Others(k) /\ JobMoves(k) /\ PaperMoves(k) /\ RollMoves(k)

Sound(k) == TypeOK /\ Matches(k) /\ InStep(k)

LEMMA SameRoll ==
  ASSUME TypeOK, UNCHANGED <<roll, session, weighing>>, NEW k
  PROVE  RollMoves(k)
BY DEF TypeOK, RollMoves

LEMMA ReprintSteps ==
  ASSUME NEW reason, Printable(reason)
  PROVE  roll.step \in {"qr_print", "qr_check", "handover"} /\ Active = {} /\ Unknown = {} /\ Mutable
BY DEF Printable, Reprint

LEMMA OpenedType ==
  ASSUME TypeOK, NEW reason \in Reasons, Printable(reason)
  PROVE  /\ Opened(reason) \in Operation
         /\ Opened(reason).status = "in_progress" /\ Opened(reason).lease = "live"
<1>1. roll \in Roll /\ session \in 1..MaxSession
  BY DEF TypeOK
<1>2. roll.owner \in Operators
  BY <1>1, ReprintSteps DEF Roll, Mutable, Owned
<1>3. roll.step \in {"qr_print", "qr_check", "handover"}
  BY ReprintSteps
<1> QED
  BY <1>1, <1>2, <1>3 DEF Opened, Operation

LEMMA ClaimEffect ==
  ASSUME NEW k \in Keys, Sound(k), NEW reason \in Reasons, Claim(k, reason)
  PROVE  Effect(k)
<1>1. KeyTypes /\ LineTypes
  BY TypeParts DEF Sound
<1>2. Opened(reason) \in Operation /\ Opened(reason).status = "in_progress" /\ Opened(reason).lease = "live"
  BY OpenedType DEF Claim, Sound
<1>3. RollMoves(k)
  BY SameRoll DEF Claim, Sound, line
<1>4. ops' = [ops EXCEPT ![k] = Opened(reason)] /\ call' = [call EXCEPT ![k] = "claimed"]
  BY DEF Claim
<1>5. PICK new \in {"queued", "reprint_requested"} : job' = [job EXCEPT ![k] = new]
  BY DEF Claim
<1>6. UNCHANGED <<linked, row, device>>
  BY DEF Claim, outside
<1>7. job[k] = "none" /\ call[k] = "idle" /\ row[k] = "none"
  BY DEF Claim, Sound, Matches, InStep
<1>8. KeyTypes'
  BY <1>1, <1>2, <1>4, <1>5, <1>6 DEF KeyTypes, JobStates, Calls
<1>9. ops'[k] = Opened(reason) /\ job'[k] = new /\ call'[k] = "claimed" /\ row'[k] = "none" /\ device'[k] = device[k]
  BY <1>1, <1>4, <1>5, <1>6, <1>7 DEF KeyTypes
<1>10. Opened(reason) # None
  BY <1>2 DEF Operation, None
<1>11. Matches(k)'
  BY <1>2, <1>9, <1>10 DEF Matches, Active, InProgress, FailedWith
<1>12. InStep(k)'
  BY <1>2, <1>7, <1>9 DEF Sound, InStep, LeaseHeld, InProgress
<1>13. Others(k)
  BY <1>1, <1>4, <1>5, <1>6 DEF Others, KeyTypes
<1>14. JobMoves(k)
  BY <1>7, <1>9, ReprintSteps DEF JobMoves, Claim
<1>15. PaperMoves(k)
  BY <1>9 DEF PaperMoves
<1> QED
  BY <1>3, <1>8, <1>11, <1>12, <1>13, <1>14, <1>15 DEF Effect

LEMMA ClaimUnboundEffect ==
  ASSUME NEW k \in Keys, Sound(k), NEW reason \in Reasons, ClaimUnbound(k, reason)
  PROVE  Effect(k)
<1>1. KeyTypes /\ LineTypes
  BY TypeParts DEF Sound
<1> DEFINE new == [Opened(reason) EXCEPT !.status = "failed", !.error = "binding", !.lease = "none"]
<1>2. Opened(reason) \in Operation
  BY OpenedType DEF ClaimUnbound, Sound
<1>3. new \in Operation
  BY <1>2 DEF Operation
<1>14. new.status = "failed" /\ new.error = "binding"
  BY <1>2 DEF Operation
<1>4. RollMoves(k)
  BY SameRoll DEF ClaimUnbound, Sound, line
<1>5. ops' = [ops EXCEPT ![k] = new] /\ UNCHANGED <<job, call, linked, row, device>>
  BY DEF ClaimUnbound, outside
<1>6. job[k] = "none" /\ call[k] = "idle"
  BY DEF ClaimUnbound, Sound, Matches, InStep
<1> HIDE DEF new
<1>7. KeyTypes'
  BY <1>1, <1>3, <1>5 DEF KeyTypes
<1>8. ops'[k] = new
  BY <1>1, <1>5 DEF KeyTypes
<1>9. new # None
  BY <1>3 DEF Operation, None
<1>10. Matches(k)'
  BY <1>3, <1>14, <1>5, <1>6, <1>8, <1>9 DEF Matches, Active, InProgress, FailedWith
<1>11. InStep(k)'
  BY <1>5, <1>6 DEF Sound, InStep, Blank, Loose
<1>12. Others(k)
  BY <1>1, <1>5 DEF Others, KeyTypes
<1>13. JobMoves(k) /\ PaperMoves(k)
  BY <1>5 DEF JobMoves, PaperMoves
<1> QED
  BY <1>4, <1>7, <1>10, <1>11, <1>12, <1>13 DEF Effect

LEMMA MarkExpiredEffect ==
  ASSUME NEW k \in Keys, Sound(k), InProgress(k), ops[k].lease = "expired", MarkExpired(k)
  PROVE  Effect(k)
<1>1. KeyTypes /\ LineTypes
  BY TypeParts DEF Sound
<1>2. Close(k, "failed", "unknown")
  BY DEF MarkExpired
<1>3. /\ ops' \in [Keys -> Operation \union {None}]
      /\ ops'[k] # None /\ ops'[k].status = "failed" /\ ops'[k].error = "unknown"
      /\ \A other \in Keys \ {k} : ops'[other] = ops[other]
  BY <1>1, <1>2, CloseEffect
<1>4. job' = [job EXCEPT ![k] = "delivery_unknown"] /\ UNCHANGED <<session, linked, weighing, call, row, device>>
  BY DEF MarkExpired, outside
<1>5. k \in Active /\ job[k] # "none"
  BY DEF Sound, Matches, Active
<1>6. job'[k] = "delivery_unknown"
  BY <1>1, <1>4 DEF KeyTypes
<1>7. KeyTypes'
  BY <1>1, <1>3, <1>4 DEF KeyTypes, JobStates
<1>8. RollMoves(k)
  <2>1. roll \in Roll
    BY <1>1 DEF LineTypes
  <2>2. [roll EXCEPT !.label = "delivery_unknown"] \in Roll
    BY <2>1 DEF Roll, Labels
  <2> QED BY <2>1, <2>2, <1>4 DEF MarkExpired, MarkRoll, RollMoves, Roll
<1>9. Matches(k)'
  BY <1>3, <1>6 DEF Matches, Active, InProgress, FailedWith
<1>10. call[k] # "claimed"
  BY DEF Sound, InStep, LeaseHeld
<1>11. InStep(k)'
  BY <1>4, <1>5, <1>6, <1>10 DEF Sound, InStep, Blank, Loose
<1>12. Others(k)
  BY <1>1, <1>3, <1>4 DEF Others, KeyTypes
<1>13. JobMoves(k) /\ PaperMoves(k)
  BY <1>4, <1>5, <1>6 DEF JobMoves, PaperMoves
<1> QED
  BY <1>7, <1>8, <1>9, <1>11, <1>12, <1>13 DEF Effect

LEMMA ClaimingEffect ==
  ASSUME NEW k \in Keys, Sound(k), Claiming(k)
  PROVE  Effect(k)
<1>1. ASSUME NEW reason \in Reasons, Retry(k, reason) PROVE Effect(k)
  BY <1>1, MarkExpiredEffect DEF Retry
<1>2. ASSUME NEW actor \in Operators, NEW reason \in Reasons, SettleExpired(k, actor, reason)
      PROVE  Effect(k)
  BY <1>2, MarkExpiredEffect DEF SettleExpired
<1> QED
  BY <1>1, <1>2, ClaimEffect, ClaimUnboundEffect DEF Claiming

\* Only a command that is done is a print, and only one that failed or was never
\* dispatched is a print that failed.
LEMMA ReportedOutcomes ==
  ASSUME NEW what \in Label!Tellings, NEW outcome \in Reported[what]
  PROVE  /\ outcome \in {"submitted", "unknown", "failed", "unheard"}
         /\ outcome = "submitted" => what = "done"
         /\ outcome = "failed" => what \in {"failed", "not_dispatched"}
BY DEF Reported, Label!Tellings, Label!Answers

\* The request, its command and the printer move.
LEMMA PrintingEffect ==
  ASSUME NEW k \in Keys, Sound(k), Printing(k)
  PROVE  Effect(k)
<1>1. KeyTypes
  BY TypeParts DEF Sound
<1>2. UNCHANGED <<roll, session, job, linked, weighing>>
  BY DEF Printing, Refused, Dispatch, Throws, Answer, CommandMoves, DeviceMoves,
         LeaseExpires, Abandon, line, journal, outside
<1>3. RollMoves(k)
  BY <1>2, SameRoll DEF Sound
<1>4. JobMoves(k)
  BY <1>2 DEF JobMoves
<1> SUFFICES KeyTypes' /\ Matches(k)' /\ InStep(k)' /\ Others(k) /\ PaperMoves(k)
  BY <1>3, <1>4 DEF Effect
<1>5. CASE LeaseExpires(k)
  <2> DEFINE new == [ops[k] EXCEPT !.lease = "expired"]
  <2>1. ops[k] \in Operation
    BY <1>1, <1>5 DEF KeyTypes, LeaseExpires, LeaseHeld, InProgress, None
  <2>2. new \in Operation /\ new # None
    BY <2>1 DEF Operation, None
  <2>3. new.status = ops[k].status /\ new.error = ops[k].error
    BY <2>1 DEF Operation
  <2>4. ops' = [ops EXCEPT ![k] = new] /\ UNCHANGED <<call, row, device>>
    BY <1>5 DEF LeaseExpires, outside
  <2> HIDE DEF new
  <2>5. ops'[k] = new /\ \A other \in Keys \ {k} : ops'[other] = ops[other]
    BY <1>1, <2>4 DEF KeyTypes
  <2>6. KeyTypes'
    BY <1>1, <1>2, <2>2, <2>4 DEF KeyTypes
  <2>7. ops[k] # None
    BY <2>1 DEF Operation, None
  <2>8. Matches(k)'
    BY <1>2, <2>2, <2>3, <2>5, <2>7 DEF Sound, Matches, Active, InProgress, FailedWith
  <2>9. InStep(k)'
    BY <1>2, <1>5, <2>4 DEF Sound, InStep, Blank, Loose, LeaseExpires
  <2> QED
    BY <1>2, <2>4, <2>5, <2>6, <2>8, <2>9 DEF Others, PaperMoves
<1>6. ASSUME UNCHANGED ops
      PROVE  Matches(k)'
  BY <1>2, <1>6 DEF Sound, Matches, Active, InProgress, FailedWith
<1>7. CASE Refused(k)
  <2>1. UNCHANGED <<ops, row, device>>
    BY <1>7 DEF Refused, journal, outside
  <2>2. KeyTypes' /\ Others(k)
    BY <1>1, <1>2, <2>1, <1>7 DEF Refused, KeyTypes, Others, Calls, Command!Fates
  <2>3. InStep(k)'
    BY <1>1, <1>2, <2>1, <1>7 DEF Refused, Sound, InStep, Blank, Loose, LeaseHeld, InProgress, KeyTypes
  <2>4. PaperMoves(k)
    BY <1>1, <2>1, <1>7 DEF Refused, PaperMoves, KeyTypes
  <2> QED
    BY <1>6, <2>1, <2>2, <2>3, <2>4
<1>8. CASE Dispatch(k)
  <2>1. UNCHANGED <<ops, device>>
    BY <1>8 DEF Dispatch, journal, outside
  <2>2. KeyTypes' /\ Others(k)
    BY <1>1, <1>2, <2>1, <1>8 DEF Dispatch, KeyTypes, Others, Calls, Command!Fates
  <2>3. InStep(k)'
    BY <1>1, <1>2, <2>1, <1>8 DEF Dispatch, Sound, InStep, Blank, Loose, LeaseHeld, InProgress, KeyTypes
  <2>4. PaperMoves(k)
    BY <1>1, <2>1, <1>8 DEF Dispatch, PaperMoves, KeyTypes
  <2> QED
    BY <1>6, <2>1, <2>2, <2>3, <2>4
<1>9. CASE Throws(k)
  <2>1. UNCHANGED <<ops, row, device>>
    BY <1>9 DEF Throws, journal, outside
  <2>2. KeyTypes' /\ Others(k)
    BY <1>1, <1>2, <2>1, <1>9 DEF Throws, KeyTypes, Others, Calls, Command!Fates
  <2>3. InStep(k)'
    BY <1>1, <1>2, <2>1, <1>9 DEF Throws, Sound, InStep, Blank, Loose, LeaseHeld, InProgress, KeyTypes
  <2>4. PaperMoves(k)
    BY <1>1, <2>1, <1>9 DEF Throws, PaperMoves, KeyTypes
  <2> QED
    BY <1>6, <2>1, <2>2, <2>3, <2>4
<1>10. CASE Answer(k)
  <2>1. UNCHANGED <<ops, row>>
    BY <1>10 DEF Answer, journal
  <2>2. PICK what \in Label!Tellings, paper \in Outcomes :
          /\ Label!Tells(what, row[k], device[k], paper)
          /\ device' = [device EXCEPT ![k] = paper]
          /\ \E outcome \in Reported[what] : call' = [call EXCEPT ![k] = outcome]
    BY <1>10 DEF Answer
  <2>3. PICK outcome \in Reported[what] : call' = [call EXCEPT ![k] = outcome]
    BY <2>2
  <2>4. /\ outcome \in {"submitted", "unknown", "failed", "unheard"}
        /\ outcome = "submitted" => what = "done"
        /\ outcome = "failed" => what \in {"failed", "not_dispatched"}
    BY <2>3, ReportedOutcomes
  <2>5. call'[k] = outcome /\ device'[k] = paper
    BY <1>1, <2>2, <2>3 DEF KeyTypes
  <2>6. KeyTypes' /\ Others(k)
    BY <1>1, <1>2, <2>1, <2>2, <2>3, <2>4 DEF KeyTypes, Others, Calls
  <2>7. row[k] # "none" /\ job[k] # "none" /\ call[k] = "waiting"
    BY <1>10 DEF Answer, Sound, InStep
  <2>8. /\ what = "done" => row[k] = "done"
        /\ what = "failed" => row[k] = "failed"
        /\ what = "not_dispatched" => paper = "clean" /\ device[k] \in {"idle", "clean"}
        /\ what # "not_dispatched" => paper = device[k]
    BY <2>2 DEF Label!Tells, Label!Answers
  <2>9. InStep(k)'
    BY <1>2, <2>1, <2>4, <2>5, <2>7, <2>8 DEF Sound, InStep, Blank, Loose
  <2>10. PaperMoves(k)
    BY <2>5, <2>8 DEF PaperMoves
  <2> QED
    BY <1>6, <2>1, <2>6, <2>9, <2>10
<1>11. CASE CommandMoves(k)
  <2>1. UNCHANGED <<ops, call, device>>
    BY <1>11 DEF CommandMoves, journal
  <2>2. PICK new \in Label!Rows :
          Label!Moves(row[k], new, device[k]) /\ row' = [row EXCEPT ![k] = new]
    BY <1>11 DEF CommandMoves
  <2>3. row[k] # "none" /\ row'[k] = new
    BY <1>1, <1>11, <2>2 DEF CommandMoves, KeyTypes
  <2>4. KeyTypes' /\ Others(k)
    BY <1>1, <1>2, <2>1, <2>2 DEF KeyTypes, Others, Command!Fates, Label!Rows
  <2>5. InStep(k)'
    BY <1>2, <2>1, <2>2, <2>3 DEF Sound, InStep, Blank, Loose, LeaseHeld, InProgress, Label!Moves
  <2>6. PaperMoves(k)
    BY <2>1 DEF PaperMoves
  <2> QED
    BY <1>6, <2>1, <2>4, <2>5, <2>6
<1>12. CASE DeviceMoves(k)
  <2>1. UNCHANGED <<ops, call, row>>
    BY <1>12 DEF DeviceMoves, journal
  <2>2. PICK new \in Outcomes :
          Label!Works(row[k], device[k], new) /\ device' = [device EXCEPT ![k] = new]
    BY <1>12 DEF DeviceMoves
  <2>3. device'[k] = new
    BY <1>1, <2>2 DEF KeyTypes
  <2>4. KeyTypes' /\ Others(k)
    BY <1>1, <1>2, <2>1, <2>2 DEF KeyTypes, Others
  <2>5. InStep(k)'
    BY <1>2, <2>1, <2>2, <2>3 DEF Sound, InStep, Blank, Loose, LeaseHeld, InProgress, Label!Works
  <2>6. PaperMoves(k)
    BY <2>2, <2>3 DEF PaperMoves, Label!Works
  <2> QED
    BY <1>6, <2>1, <2>4, <2>5, <2>6
<1>13. CASE Abandon(k)
  <2>1. UNCHANGED <<ops, row, device>>
    BY <1>13 DEF Abandon, journal, outside
  <2>2. KeyTypes' /\ Others(k)
    BY <1>1, <1>2, <2>1, <1>13 DEF Abandon, KeyTypes, Others, Calls, Command!Fates
  <2>3. InStep(k)'
    BY <1>1, <1>2, <2>1, <1>13 DEF Abandon, Sound, InStep, Blank, Loose, LeaseHeld, InProgress, KeyTypes
  <2>4. PaperMoves(k)
    BY <1>1, <2>1, <1>13 DEF Abandon, PaperMoves, KeyTypes
  <2> QED
    BY <1>6, <2>1, <2>2, <2>3, <2>4
<1> QED
  BY <1>5, <1>7, <1>8, <1>9, <1>10, <1>11, <1>12, <1>13 DEF Printing

\* A held lease: the operation is in progress and its job is open.
LEMMA HeldLease ==
  ASSUME NEW k \in Keys, Sound(k), LeaseHeld(k)
  PROVE  InProgress(k) /\ k \in Active /\ job[k] # "none" /\ call[k] # "idle"
BY DEF Sound, Matches, InStep, LeaseHeld, Active

\* A step that ends the operation and its job.
LEMMA ClosingEffect ==
  ASSUME NEW k \in Keys, Sound(k), k \in Active, InProgress(k), UNCHANGED <<row, device>>,
         NEW status \in {"succeeded", "failed"},
         NEW error \in {"none", "unknown", "device"},
         Close(k, status, error),
         NEW what, job' = [job EXCEPT ![k] = what], call' = [call EXCEPT ![k] = "over"],
         linked' \subseteq linked \union {k}, RollMoves(k),
         \/ what = "submitted" /\ status = "succeeded" /\ device[k] = "printed"
         \/ what = "failed" /\ status = "failed" /\ error = "device" /\ Blank(k)
         \/ what = "delivery_unknown" /\ status = "failed" /\ error = "unknown"
  PROVE  Effect(k)
<1>1. KeyTypes
  BY TypeParts DEF Sound
<1>2. /\ ops' \in [Keys -> Operation \union {None}]
      /\ ops'[k] # None /\ ops'[k].status = status /\ ops'[k].error = error
      /\ \A other \in Keys \ {k} : ops'[other] = ops[other]
  BY <1>1, CloseEffect
<1>3. job[k] # "none"
  BY DEF Active
<1>4. job'[k] = what /\ call'[k] = "over" /\ UNCHANGED <<row, device>>
  BY <1>1 DEF KeyTypes
<1>5. KeyTypes'
  BY <1>1, <1>2, <1>3 DEF KeyTypes, JobStates, Calls
<1>6. Matches(k)'
  BY <1>2, <1>4 DEF Matches, Active, InProgress, FailedWith
<1>7. InStep(k)'
  BY <1>4 DEF Sound, InStep, Blank, Loose
<1>8. Others(k)
  BY <1>1, <1>2 DEF Others, KeyTypes
<1>9. JobMoves(k) /\ PaperMoves(k)
  BY <1>4 DEF JobMoves, PaperMoves
<1> QED
  BY <1>5, <1>6, <1>7, <1>8, <1>9 DEF Effect

\* A step of the request alone.
LEMMA CallEffect ==
  ASSUME NEW k \in Keys, Sound(k), NEW what \in {"unknown", "over"}, call[k] \notin {"idle", "claimed"},
         call' = [call EXCEPT ![k] = what], UNCHANGED <<line, journal, weighing, outside>>
  PROVE  Effect(k)
<1>1. KeyTypes
  BY TypeParts DEF Sound
<1>2. UNCHANGED <<roll, session, weighing, ops, job, linked, row, device>>
  BY DEF line, journal, outside
<1>3. RollMoves(k)
  BY <1>2, SameRoll DEF Sound
<1>4. KeyTypes' /\ Others(k)
  BY <1>1, <1>2 DEF KeyTypes, Others, Calls
<1>5. call'[k] = what
  BY <1>1 DEF KeyTypes
<1>6. Matches(k)' /\ InStep(k)'
  BY <1>2, <1>5 DEF Sound, Matches, Active, InProgress, FailedWith, InStep, Blank, Loose
<1> QED
  BY <1>2, <1>3, <1>4, <1>6 DEF Effect, JobMoves, PaperMoves

LEMMA EndingEffect ==
  ASSUME NEW k \in Keys, Sound(k), Ending(k)
  PROVE  Effect(k)
<1>1. KeyTypes /\ LineTypes
  BY TypeParts DEF Sound
<1>2. CASE Finalize(k)
  <2>1. LeaseHeld(k) /\ call[k] = "submitted" /\ Close(k, "succeeded", "none")
    BY <1>2 DEF Finalize, Unmoved
  <2>2. InProgress(k) /\ k \in Active
    BY <2>1, HeldLease
  <2>3. device[k] = "printed"
    BY <2>1 DEF Sound, InStep
  <2>4. /\ job' = [job EXCEPT ![k] = "submitted"] /\ call' = [call EXCEPT ![k] = "over"]
        /\ linked' = linked \union {k} /\ UNCHANGED <<session, weighing, row, device>>
    BY <1>2 DEF Finalize, outside
  <2>5. job'[k] = "submitted"
    BY <1>1, <2>4 DEF KeyTypes
  <2>6. roll.step \in {"qr_print", "qr_check", "handover"}
    <3>1. ops[k] \in Operation
      BY <1>1, <2>2 DEF KeyTypes, InProgress, None
    <3>2. roll.step = ops[k].step
      BY <1>2 DEF Finalize, Unmoved
    <3> QED BY <3>1, <3>2 DEF Operation
  <2>7. RollMoves(k)
    <3>1. roll \in Roll
      BY <1>1 DEF LineTypes
    <3>2. roll' = [roll EXCEPT !.label = "submitted", !.step = "qr_check"]
      BY <1>2 DEF Finalize
    <3>3. roll' \in Roll
      BY <3>1, <3>2 DEF Roll, Labels, Steps
    <3>4. /\ roll'.from = roll.from /\ roll'.status = roll.status /\ roll'.owner = roll.owner
          /\ roll'.step = "qr_check"
      BY <3>1, <3>2 DEF Roll
    <3> QED BY <2>4, <2>5, <2>6, <3>3, <3>4 DEF RollMoves
  <2> QED
    BY <2>1, <2>2, <2>3, <2>4, <2>7, ClosingEffect
<1>3. CASE NotFinalized(k)
  BY <1>3, CallEffect DEF NotFinalized
<1>4. CASE MarkUnknown(k) /\ LeaseHeld(k)
  <2>1. InProgress(k) /\ k \in Active /\ Close(k, "failed", "unknown")
    BY <1>4, HeldLease DEF MarkUnknown
  <2>2. /\ job' = [job EXCEPT ![k] = "delivery_unknown"] /\ call' = [call EXCEPT ![k] = "over"]
        /\ linked' \subseteq linked \union {k} /\ UNCHANGED <<session, weighing, row, device>>
    BY <1>4 DEF MarkUnknown, outside
  <2>3. RollMoves(k)
    <3>1. roll \in Roll
      BY <1>1 DEF LineTypes
    <3>2. roll' = roll \/ roll' = [roll EXCEPT !.label = "delivery_unknown"]
      BY <1>4 DEF MarkUnknown, MarkRoll
    <3>3. roll' \in Roll
      BY <3>1, <3>2 DEF Roll, Labels
    <3>4. /\ roll'.from = roll.from /\ roll'.status = roll.status /\ roll'.owner = roll.owner
          /\ roll'.step = roll.step
      BY <3>1, <3>2 DEF Roll
    <3> QED BY <2>2, <3>3, <3>4 DEF RollMoves
  <2> QED
    BY <2>1, <2>2, <2>3, ClosingEffect
<1>5. CASE MarkUnknown(k) /\ ~LeaseHeld(k)
  <2>1. UNCHANGED <<line, journal, weighing, outside>>
    BY <1>5 DEF MarkUnknown, line
  <2> QED
    BY <1>5, <2>1, CallEffect DEF MarkUnknown
<1>6. CASE FailPrint(k) /\ LeaseHeld(k)
  <2>1. InProgress(k) /\ k \in Active /\ Close(k, "failed", "device")
    BY <1>6, HeldLease DEF FailPrint
  <2>2. /\ job' = [job EXCEPT ![k] = "failed"] /\ call' = [call EXCEPT ![k] = "over"]
        /\ UNCHANGED <<line, linked, weighing, row, device>>
    BY <1>6 DEF FailPrint, outside
  <2>3. RollMoves(k)
    BY <2>2, SameRoll DEF Sound, line
  <2>4. Blank(k)
    BY <1>6 DEF Sound, InStep, FailPrint
  <2> QED
    BY <2>1, <2>2, <2>3, <2>4, ClosingEffect
<1>7. CASE FailPrint(k) /\ ~LeaseHeld(k)
  <2>1. UNCHANGED <<line, journal, weighing, outside>>
    BY <1>7 DEF FailPrint, journal
  <2> QED
    BY <1>7, <2>1, CallEffect DEF FailPrint
<1> QED
  BY <1>2, <1>3, <1>4, <1>5, <1>6, <1>7 DEF Ending

\* A step that decides a job of unknown delivery.
LEMMA DecidingEffect ==
  ASSUME NEW k \in Keys, Sound(k), k \in Unknown, NEW observed \in BOOLEAN,
         job' = [job EXCEPT ![k] = IF observed THEN "submitted" ELSE "failed"],
         ops' = Settled(k, observed), UNCHANGED <<linked, call, row, device>>, RollMoves(k),
         IF observed THEN device[k] = "printed" ELSE Blank(k)
  PROVE  Effect(k)
<1>1. KeyTypes
  BY TypeParts DEF Sound
<1>2. FailedWith(k, "unknown") /\ job[k] = "delivery_unknown"
  BY DEF Sound, Matches, Unknown
<1>3. /\ ops' \in [Keys -> Operation \union {None}]
      /\ ops'[k] # None
      /\ ops'[k].status = IF observed THEN "succeeded" ELSE "failed"
      /\ ops'[k].error = IF observed THEN "none" ELSE "not_sent"
      /\ \A other \in Keys \ {k} : ops'[other] = ops[other]
  BY <1>1, <1>2, SettledEffect
<1>4. job'[k] = IF observed THEN "submitted" ELSE "failed"
  BY <1>1 DEF KeyTypes
<1>5. KeyTypes'
  BY <1>1, <1>2, <1>3 DEF KeyTypes, JobStates
<1>6. Matches(k)'
  BY <1>3, <1>4 DEF Matches, Active, InProgress, FailedWith
<1>7. InStep(k)'
  <2>1. call[k] # "claimed" /\ call[k] # "idle"
    BY <1>2 DEF Sound, InStep, LeaseHeld, InProgress, FailedWith
  <2> QED BY <1>4, <2>1 DEF Sound, InStep, Blank, Loose
<1>8. Others(k)
  BY <1>1, <1>3 DEF Others, KeyTypes
<1>9. JobMoves(k) /\ PaperMoves(k)
  BY <1>4 DEF JobMoves, PaperMoves
<1> QED
  BY <1>5, <1>6, <1>7, <1>8, <1>9 DEF Effect

LEMMA ReconcilingEffect ==
  ASSUME NEW k \in Keys, Sound(k), Reconciling(k)
  PROVE  Effect(k)
<1>1. KeyTypes /\ LineTypes
  BY TypeParts DEF Sound
<1>2. roll \in Roll
  BY <1>1 DEF LineTypes
<1>3. k \in Unknown /\ roll.step \in {"qr_print", "qr_check", "handover"}
  BY DEF Reconciling, GatewayReconcile, AdminReconcile, Reconcilable
<1>4. call[k] # "claimed"
  BY <1>3 DEF Sound, Matches, InStep, LeaseHeld, Unknown, Active
<1>5. Restored \in Labels
  BY DEF Restored, Labels
<1>6. CASE GatewayReconcile(k)
  <2>1. Blank(k)
    BY <1>4, <1>6 DEF Sound, InStep, Blank, Loose, GatewayReconcile
  <2>2. job' = [job EXCEPT ![k] = "failed"] /\ ops' = Settled(k, FALSE)
        /\ UNCHANGED <<session, weighing, linked, call, row, device>>
    BY <1>6 DEF GatewayReconcile, outside
  <2>3. roll' = roll \/ roll' = [roll EXCEPT !.label = Restored]
    BY <1>6 DEF GatewayReconcile, MarkRoll
  <2>4. roll' \in Roll
    BY <1>2, <1>5, <2>3 DEF Roll
  <2>5. /\ roll'.from = roll.from /\ roll'.status = roll.status /\ roll'.owner = roll.owner
        /\ roll'.step = roll.step
    BY <1>2, <2>3 DEF Roll
  <2>6. RollMoves(k)
    BY <2>2, <2>4, <2>5 DEF RollMoves
  <2> QED
    BY <1>3, <2>1, <2>2, <2>6, DecidingEffect
<1>7. CASE AdminReconcile(k)
  <2> DEFINE observed == device[k] = "printed"
  <2>1. /\ job' = [job EXCEPT ![k] = IF observed THEN "submitted" ELSE "failed"]
        /\ ops' = Settled(k, observed)
        /\ UNCHANGED <<session, weighing, linked, call, row, device>>
    BY <1>7 DEF AdminReconcile, outside
  <2>2. ~observed => Blank(k)
    BY <1>4, <1>7 DEF AdminReconcile, CommandsSettled, Blank, Loose
  <2>3. roll' = [roll EXCEPT !.step = IF observed THEN "qr_check" ELSE @,
                             !.label = IF observed THEN "submitted" ELSE Restored]
    BY <1>7 DEF AdminReconcile
  <2>4. job'[k] = IF observed THEN "submitted" ELSE "failed"
    BY <1>1, <2>1 DEF KeyTypes
  <2>5. RollMoves(k)
    <3>1. CASE observed
      <4>1. roll' = [roll EXCEPT !.step = "qr_check", !.label = "submitted"]
        BY <2>3, <3>1
      <4>2. roll' \in Roll
        BY <1>2, <4>1 DEF Roll, Labels, Steps
      <4>3. /\ roll'.from = roll.from /\ roll'.status = roll.status /\ roll'.owner = roll.owner
            /\ roll'.step = "qr_check"
        BY <1>2, <4>1 DEF Roll
      <4> QED BY <1>3, <2>1, <2>4, <3>1, <4>2, <4>3 DEF RollMoves
    <3>2. CASE ~observed
      <4>1. roll' = [roll EXCEPT !.step = roll.step, !.label = Restored]
        BY <2>3, <3>2
      <4>2. roll' \in Roll
        BY <1>2, <1>5, <4>1 DEF Roll
      <4>3. /\ roll'.from = roll.from /\ roll'.status = roll.status /\ roll'.owner = roll.owner
            /\ roll'.step = roll.step
        BY <1>2, <4>1 DEF Roll
      <4> QED BY <2>1, <4>2, <4>3 DEF RollMoves
    <3> QED BY <3>1, <3>2
  <2>6. observed \in BOOLEAN
    OBVIOUS
  <2>7. observed => device[k] = "printed"
    OBVIOUS
  <2> HIDE DEF observed
  <2> QED
    BY <1>3, <2>1, <2>2, <2>5, <2>6, <2>7, DecidingEffect
<1> QED
  BY <1>6, <1>7 DEF Reconciling

LEMMA PrintEffect ==
  ASSUME NEW k \in Keys, Sound(k), PrintStep(k)
  PROVE  Effect(k)
BY ClaimingEffect, PrintingEffect, EndingEffect, ReconcilingEffect DEF PrintStep

-----------------------------------------------------------------------------
(* What a step that prints nothing does to the roll. *)

\* The roll stays where it is or will be resumed, takes the next step, or goes
\* back to the scale before its first print.
Walks ==
  \/ At' = At
  \/ At \in {"qr_check", "handover"} /\ At' \in {"handover", "warehouse"}
  \/ At' = "qr_print"
  \/ At' = "roll_weight" /\ \A k \in Keys : job[k] = "none"

LEMMA LineEffect ==
  ASSUME TypeOK, LineFits, LineStep
  PROVE  LineTypes' /\ LineFits' /\ Walks /\ UNCHANGED <<journal, call, outside>>
<1>1. roll \in Roll /\ session \in 1..MaxSession /\ weighing \in Weighing \union {None}
  BY DEF TypeOK
<1> USE <1>1 DEF LineFits, Steps
<1>2. CASE VerifyQr
  <2>1. roll.step = "qr_check" /\ roll' = [roll EXCEPT !.label = "verified", !.step = "handover"]
        /\ UNCHANGED <<session, journal, weighing, call, outside>>
    BY <1>2 DEF VerifyQr, Operate
  <2>2. roll' \in Roll
    BY <2>1 DEF Roll, Labels
  <2>3. roll'.step = "handover" /\ roll'.status = roll.status /\ roll'.from = roll.from
    BY <2>1 DEF Roll
  <2> QED BY <2>1, <2>2, <2>3 DEF LineTypes, Walks, At
<1>3. CASE Handover
  <2>1. /\ roll.step = "handover"
        /\ roll' = [roll EXCEPT !.step = "warehouse", !.status = "ready_for_warehouse"]
        /\ UNCHANGED <<session, journal, weighing, call, outside>>
    BY <1>3 DEF Handover, Operate
  <2>2. roll' \in Roll
    BY <2>1 DEF Roll
  <2>3. roll'.step = "warehouse" /\ roll'.status = "ready_for_warehouse" /\ roll'.from = roll.from
    BY <2>1 DEF Roll
  <2> QED BY <2>1, <2>2, <2>3 DEF LineTypes, Walks, At
<1>4. CASE Defer
  <2>1. /\ roll.step \notin {"warehouse", "deferred"}
        /\ roll' = [roll EXCEPT !.from = roll.step, !.step = "deferred", !.status = "deferred"]
        /\ UNCHANGED <<session, journal, weighing, call, outside>>
    BY <1>4 DEF Defer, Operate
  <2>2. roll' \in Roll
    BY <2>1 DEF Roll
  <2>3. roll'.step = "deferred" /\ roll'.status = "deferred" /\ roll'.from = roll.step /\ roll.step \in Steps
    BY <2>1 DEF Roll
  <2> QED BY <2>1, <2>2, <2>3 DEF LineTypes, Walks, At
<1>5. CASE Resume
  <2>1. /\ roll.step = "deferred"
        /\ roll' = [roll EXCEPT !.step = roll.from, !.from = "none", !.status = "assigned"]
        /\ UNCHANGED <<session, journal, weighing, call, outside>>
    BY <1>5 DEF Resume
  <2>2. roll' \in Roll
    BY <2>1 DEF Roll
  <2>3. roll'.step = roll.from /\ roll'.status = "assigned"
    BY <2>1 DEF Roll
  <2> QED BY <2>1, <2>2, <2>3 DEF LineTypes, Walks, At
<1>6. CASE StepBack
  <2>1. /\ roll.step = "qr_print" /\ \A k \in Keys : job[k] = "none"
        /\ roll' = [roll EXCEPT !.step = "roll_weight"]
        /\ UNCHANGED <<session, journal, weighing, call, outside>>
    BY <1>6 DEF StepBack, Operate
  <2>2. roll' \in Roll
    BY <2>1 DEF Roll
  <2>3. roll'.step = "roll_weight" /\ roll'.status = roll.status
    BY <2>1 DEF Roll
  <2> QED BY <2>1, <2>2, <2>3 DEF LineTypes, Walks, At
<1>7. CASE CloseShift
  <2>1. /\ roll.status # "ready_for_warehouse"
        /\ roll' = IF roll.step = "deferred" THEN [roll EXCEPT !.owner = NoOne]
                   ELSE [roll EXCEPT !.owner = NoOne, !.from = roll.step, !.step = "deferred",
                                     !.status = "deferred"]
        /\ UNCHANGED <<session, journal, weighing, call, outside>>
    BY <1>7 DEF CloseShift
  <2>2. roll' \in Roll
    BY <2>1 DEF Roll
  <2>3. /\ roll'.step = "deferred" /\ roll'.status = "deferred" /\ roll.step \in Steps
        /\ roll'.from = IF roll.step = "deferred" THEN roll.from ELSE roll.step
    BY <2>1 DEF Roll
  <2> QED BY <2>1, <2>2, <2>3 DEF LineTypes, Walks, At
<1>8. CASE \E operator \in Operators : TakeOver(operator)
  <2>1. PICK operator \in Operators : TakeOver(operator)
    BY <1>8
  <2>2. /\ session < MaxSession /\ session' = session + 1
        /\ roll' = [roll EXCEPT !.owner = operator]
        /\ UNCHANGED <<journal, weighing, call, outside>>
    BY <2>1 DEF TakeOver
  <2>3. roll' \in Roll /\ session' \in 1..MaxSession
    BY <2>2, RollAssumption DEF Roll
  <2>4. roll'.step = roll.step /\ roll'.status = roll.status /\ roll'.from = roll.from
    BY <2>2 DEF Roll
  <2> QED BY <2>2, <2>3, <2>4 DEF LineTypes, Walks, At
<1> QED
  BY <1>2, <1>3, <1>4, <1>5, <1>6, <1>7, <1>8 DEF LineStep, Operating

LEMMA MeasuringEffect ==
  ASSUME TypeOK, LineFits, Measuring
  PROVE  LineTypes' /\ LineFits' /\ Walks /\ UNCHANGED <<journal, call, outside>>
<1>1. roll \in Roll /\ session \in 1..MaxSession /\ weighing \in Weighing \union {None}
  BY DEF TypeOK
<1>2. UNCHANGED <<session, journal, call, outside>>
  BY DEF Measuring, ClaimWeighing, WeighAgain, WeighingExpires, WeighingFails, RecordWeight, NotPrinting
<1>3. weighing' \in Weighing \union {None}
  <2>1. CASE \E step \in {"roll_weight", "qr_print"} : ClaimWeighing(step)
    BY <1>1, <2>1 DEF ClaimWeighing, WeighedAt, Mutable, Owned, Weighing, Roll
  <2>2. CASE WeighAgain \/ WeighingExpires
    BY <1>1, <2>2 DEF WeighAgain, WeighingExpires, Weighing
  <2>3. CASE WeighingFails \/ RecordWeight
    BY <2>3 DEF WeighingFails, RecordWeight
  <2> QED
    BY <2>1, <2>2, <2>3 DEF Measuring
<1>4. CASE RecordWeight
  <2>1. roll' = [roll EXCEPT !.step = "qr_print"] /\ roll.status = "assigned"
    BY <1>4 DEF RecordWeight, WeighedAt, Mutable
  <2>2. roll' \in Roll
    BY <1>1, <2>1 DEF Roll, Steps
  <2>3. roll'.step = "qr_print" /\ roll'.status = "assigned"
    BY <1>1, <2>1 DEF Roll
  <2> QED
    BY <1>1, <1>2, <1>3, <2>2, <2>3 DEF LineTypes, LineFits, Walks, At
<1>5. CASE ~RecordWeight
  <2>1. UNCHANGED roll
    BY <1>5 DEF Measuring, ClaimWeighing, WeighAgain, WeighingExpires, WeighingFails
  <2> QED
    BY <1>1, <1>2, <1>3, <2>1 DEF LineTypes, LineFits, Walks, At
<1> QED
  BY <1>4, <1>5

-----------------------------------------------------------------------------
(* The invariant is inductive. *)

LEMMA InitialState == ASSUME Init PROVE IInv
<1>1. roll \in Roll /\ roll.step = "qr_print" /\ roll.status = "assigned"
  BY DEF Init, Roll, Steps, Labels
<1>2. LineTypes
  BY <1>1, RollAssumption DEF Init, LineTypes
<1>3. \A k \in Keys : /\ ops[k] = None /\ job[k] = "none" /\ call[k] = "idle"
                      /\ row[k] = "none" /\ device[k] = "idle"
  BY DEF Init
<1>4. KeyTypes
  BY DEF Init, KeyTypes, JobStates, Calls, Outcomes, Label!Outcomes, Command!Fates
<1>5. \A k \in Keys : Matches(k)
  <2>1. None.status = "none"
    BY DEF None
  <2> QED BY <1>3, <2>1 DEF Matches, Active, InProgress, FailedWith
<1>6. InStepAll
  BY <1>3 DEF InStepAll, InStep, Blank, Loose
<1>7. OneUndecided
  BY <1>3 DEF OneUndecided, Active, Unknown
<1>8. LineFits /\ WeighedFirst /\ NoLabelNoPassage
  BY <1>1, <1>3 DEF LineFits, WeighedFirst, NoLabelNoPassage, At
<1> QED
  BY <1>2, <1>4, <1>5, <1>6, <1>7, <1>8, TypeParts, MatchesAll DEF IInv

LEMMA SoundKeys == ASSUME IInv, NEW k \in Keys PROVE Sound(k)
BY MatchesAll DEF IInv, InStepAll, Sound

\* What a step for one key leaves of the other keys.
LEMMA OthersStay ==
  ASSUME IInv, NEW k \in Keys, Others(k), NEW other \in Keys \ {k}
  PROVE  Matches(other)' /\ InStep(other)'
<1>1. Sound(other)
  BY SoundKeys
<1> QED
  BY <1>1 DEF Others, Sound, Matches, Active, InProgress, FailedWith, InStep, Blank, Loose, LeaseHeld

LEMMA PrintKeepsInv ==
  ASSUME IInv, NEW k \in Keys, PrintStep(k)
  PROVE  IInv'
<1>1. Effect(k) /\ Sound(k)
  BY PrintEffect, SoundKeys
<1>2. TypeOK'
  <2>1. LineTypes
    BY TypeParts DEF IInv
  <2>2. LineTypes'
    BY <1>1, <2>1 DEF Effect, RollMoves, LineTypes
  <2>3. KeyTypes'
    BY <1>1 DEF Effect
  <2> QED BY <2>2, <2>3, Zenon DEF TypeOK, LineTypes, KeyTypes
<1>3. LineFits'
  BY <1>1 DEF IInv, LineFits, Effect, RollMoves
<1>4. JournalMatchesJob' /\ InStepAll'
  <2>1. \A other \in Keys : Matches(other)' /\ InStep(other)'
    BY <1>1, OthersStay DEF Effect
  <2> QED BY <2>1, Zenon DEF JournalMatchesJob, Matches, InStepAll
<1>5. OneUndecided'
  <2>1. \A other \in Keys \ {k} : job'[other] = job[other]
    BY <1>1 DEF Effect, Others
  <2>2. OneUndecided
    BY DEF IInv
  <2> QED BY <1>1, <2>1, <2>2 DEF Effect, JobMoves, OneUndecided, Active, Unknown
<1>6. WeighedFirst'
  <2> SUFFICES ASSUME At' = "roll_weight", NEW j \in Keys PROVE job'[j] = "none"
    BY DEF WeighedFirst
  <2>1. At = "roll_weight" /\ roll.step \notin {"qr_print", "qr_check", "handover"}
    BY <1>1 DEF Effect, RollMoves, At
  <2>2. \A i \in Keys : job[i] = "none"
    BY <2>1 DEF IInv, WeighedFirst
  <2>3. job'[k] = "none"
    BY <1>1, <2>1, <2>2 DEF Effect, JobMoves, Active, Unknown
  <2> QED BY <1>1, <2>2, <2>3 DEF Effect, Others
<1>7. NoLabelNoPassage'
  <2> SUFFICES ASSUME At' \in {"qr_check", "handover", "warehouse"}
               PROVE  \E j \in Keys : job'[j] = "submitted" /\ device'[j] = "printed"
    BY DEF NoLabelNoPassage, Printed
  <2>1. CASE roll'.step = roll.step
    <3>1. At' = At
      BY <1>1, <2>1 DEF Effect, RollMoves, At
    <3>2. PICK j \in Keys : job[j] = "submitted" /\ device[j] = "printed"
      BY <3>1 DEF IInv, NoLabelNoPassage, Printed
    <3>3. job'[j] = "submitted" /\ device'[j] = "printed"
      BY <1>1, <3>2 DEF Effect, Others, JobMoves, PaperMoves, Active, Unknown
    <3> QED BY <3>3
  <2>2. CASE roll'.step # roll.step
    <3>1. job'[k] = "submitted" /\ InStep(k)'
      BY <1>1, <2>2 DEF Effect, RollMoves
    <3>2. device'[k] = "printed"
      BY <3>1 DEF InStep
    <3> QED BY <3>1, <3>2
  <2> QED BY <2>1, <2>2
<1> QED
  BY <1>2, <1>3, <1>4, <1>5, <1>6, <1>7 DEF IInv

LEMMA WalkKeepsInv ==
  ASSUME IInv, LineTypes', LineFits', Walks, UNCHANGED <<journal, call, outside>>
  PROVE  IInv'
<1>1. UNCHANGED <<ops, job, linked, call, row, device>>
  BY DEF journal, outside
<1>2. KeyTypes'
  <2>1. KeyTypes
    BY TypeParts DEF IInv
  <2> QED BY <1>1, <2>1 DEF KeyTypes
<1>3. JournalMatchesJob' /\ InStepAll' /\ OneUndecided'
  BY <1>1 DEF IInv, JournalMatchesJob, InStepAll, InStep, OneUndecided, Blank, Loose, LeaseHeld,
              InProgress, FailedWith, Active, Unknown
<1>4. WeighedFirst'
  BY <1>1 DEF IInv, WeighedFirst, Walks
<1>5. NoLabelNoPassage'
  BY <1>1 DEF IInv, NoLabelNoPassage, Walks, Printed
<1>6. TypeOK'
  BY <1>2, Zenon DEF TypeOK, LineTypes, KeyTypes
<1> QED
  BY <1>3, <1>4, <1>5, <1>6 DEF IInv

LEMMA Induction == IInv /\ [Next]_vars => IInv'
<1> SUFFICES ASSUME IInv, [Next]_vars PROVE IInv'
  OBVIOUS
<1>1. TypeOK /\ LineFits
  BY DEF IInv
<1>2. CASE UNCHANGED vars
  <2>1. UNCHANGED <<roll, session, weighing, journal, call, outside>>
    BY <1>2 DEF vars, line
  <2>2. LineTypes' /\ LineFits' /\ Walks
    BY <1>1, <2>1, TypeParts DEF LineTypes, LineFits, Walks, At
  <2> QED BY <2>1, <2>2, WalkKeepsInv
<1>3. CASE LineStep
  BY <1>1, <1>3, LineEffect, WalkKeepsInv
<1>4. CASE Measuring
  BY <1>1, <1>4, MeasuringEffect, WalkKeepsInv
<1>5. CASE \E k \in Keys : PrintStep(k)
  BY <1>5, PrintKeepsInv
<1> QED
  BY <1>2, <1>3, <1>4, <1>5, StepKinds

-----------------------------------------------------------------------------
(* The theorems. *)

\* The inductive invariant, from which the others follow.
THEOREM Invariance == Spec => []IInv
BY InitialState, Induction, PTL DEF Spec

\* Every variable keeps its type.
THEOREM TypeCorrect == Spec => []TypeOK
<1>1. IInv => TypeOK
  BY DEF IInv
<1> QED
  BY <1>1, Invariance, PTL

\* The operation of a print and its job, written by eight transactions of four
\* services, never disagree.
THEOREM JournalAgreesWithJob == Spec => []JournalMatchesJob
<1>1. IInv => JournalMatchesJob
  BY DEF IInv
<1> QED
  BY <1>1, Invariance, PTL

\* A label can still come out only for a job that is not over, and at most one
\* job of a roll is not over.
LEMMA LooseIsUndecided ==
  ASSUME IInv, NEW k \in Keys, Loose(k)
  PROVE  k \in Active \union Unknown
<1>1. job[k] \in JobStates /\ InStep(k)
  BY DEF IInv, TypeOK, InStepAll
<1> QED
  BY <1>1 DEF InStep, Blank, Loose, JobStates, Active, Unknown

\* No label of a roll is printed while another one may still come out.
THEOREM LabelsOneAtATime == Spec => []OneLabelAtATime
<1>1. IInv => OneLabelAtATime
  BY LooseIsUndecided DEF IInv, OneUndecided, OneLabelAtATime
<1> QED
  BY <1>1, Invariance, PTL

\* A roll is beyond its print, or resumed beyond it, only with a label that came
\* out and was recorded.
THEOREM PassageNeedsLabel == Spec => []NoLabelNoPassage
<1>1. IInv => NoLabelNoPassage
  BY DEF IInv
<1> QED
  BY <1>1, Invariance, PTL

\* No reading of the scale is recorded once a print of the roll was claimed.
THEOREM WeightStaysFrozen == Spec => WeightIsFrozen
<1>1. IInv /\ [Next]_vars => [RecordWeight => \A k \in Keys : job[k] = "none"]_vars
  <2> SUFFICES ASSUME IInv, RecordWeight, NEW k \in Keys PROVE job[k] = "none"
    BY Zenon
  <2>1. roll.step = "roll_weight" \/ \A j \in Keys : job[j] = "none"
    BY DEF RecordWeight, WeighedAt
  <2> QED
    BY <2>1 DEF IInv, WeighedFirst, At
<1> QED
  BY <1>1, Invariance, PTL DEF Spec, WeightIsFrozen

-----------------------------------------------------------------------------
(* A print job keeps its contract. *)

LEMMA FateNames ==
  /\ Fate["none"] = "none" /\ Fate["queued"] = "open" /\ Fate["reprint_requested"] = "open"
  /\ Fate["delivery_unknown"] = "unknown" /\ Fate["submitted"] = "submitted"
  /\ Fate["failed"] = "failed"
BY DEF Fate

LEMMA FateOfJob ==
  ASSUME NEW status \in JobStates
  PROVE  /\ Fate[status] \in PrintJob!Fates
         /\ Fate[status] \in {"open", "unknown"}
              <=> status \in {"queued", "reprint_requested", "delivery_unknown"}
         /\ Fate[status] = "submitted" <=> status = "submitted"
         /\ Fate[status] \in {"none", "failed"} <=> status \in {"none", "failed"}
BY FateNames DEF JobStates, PrintJob!Fates

LEMMA ContractInit == ASSUME Init PROVE PrintJob!Init
BY FateNames DEF Init, PrintJob!Init

LEMMA ContractStep ==
  ASSUME IInv, IInv', NEW k \in Keys, PrintStep(k)
  PROVE  PrintJob!Step
<1> DEFINE f == [j \in Keys |-> Fate[job[j]]]
           p == [j \in Keys |-> device[j] = "printed"]
<1>1. Effect(k)
  BY PrintEffect, SoundKeys
<1>2. \A j \in Keys : /\ job[j] \in JobStates /\ job'[j] \in JobStates
                      /\ InStep(j)' /\ device'[j] \in Outcomes
  BY DEF IInv, TypeOK, InStepAll
<1>3. \A j \in Keys : Fate[job'[j]] = Fate[job[j]] \/ PrintJob!Legal(Fate[job[j]], Fate[job'[j]])
  <2>1. \A j \in Keys \ {k} : job'[j] = job[j]
    BY <1>1 DEF Effect, Others
  <2>2. \/ job'[k] = job[k]
        \/ job[k] = "none" /\ job'[k] \in {"queued", "reprint_requested"}
        \/ /\ job[k] \in {"queued", "reprint_requested"}
           /\ job'[k] \in {"delivery_unknown", "submitted", "failed"}
        \/ job[k] = "delivery_unknown" /\ job'[k] \in {"submitted", "failed"}
    BY <1>1 DEF Effect, JobMoves, Active, Unknown
  <2>3. Fate[job'[k]] = Fate[job[k]] \/ PrintJob!Legal(Fate[job[k]], Fate[job'[k]])
    BY <2>2, FateNames DEF PrintJob!Legal
  <2> QED BY <2>1, <2>3
<1>4. \A j \in Keys : (device'[j] = "printed") # (device[j] = "printed") =>
        device'[j] = "printed" /\ Fate[job[j]] \in {"open", "unknown"}
  <2>1. \A j \in Keys : (device'[j] = "printed") # (device[j] = "printed") => device[j] = "busy"
    BY <1>1 DEF Effect, Others, PaperMoves
  <2>2. ASSUME NEW j \in Keys, device[j] = "busy"
        PROVE  Fate[job[j]] \in {"open", "unknown"}
    <3>1. j \in Active \union Unknown
      BY <2>2, LooseIsUndecided DEF Loose
    <3>2. job[j] \in {"queued", "reprint_requested", "delivery_unknown"}
      BY <3>1 DEF Active, Unknown
    <3> QED BY <3>2, FateNames
  <2>3. ASSUME NEW j \in Keys, (device'[j] = "printed") # (device[j] = "printed")
        PROVE  device'[j] = "printed"
    BY <2>1, <2>3
  <2> QED BY <2>1, <2>2, <2>3
<1>5. \A i, j \in Keys :
        Fate[job'[i]] \in {"open", "unknown"} /\ Fate[job'[j]] \in {"open", "unknown"} => i = j
  <2>1. \A j \in Keys : Fate[job'[j]] \in {"open", "unknown"} => j \in Active' \union Unknown'
    BY <1>2, FateOfJob DEF Active, Unknown
  <2> QED BY <2>1 DEF IInv, OneUndecided
<1>6. f' \in [Keys -> PrintJob!Fates] /\ p' \in [Keys -> BOOLEAN]
  <2>1. \A j \in Keys : Fate[job'[j]] \in PrintJob!Fates
    BY <1>2, FateOfJob
  <2> QED BY <2>1
<1>7. \A j \in Keys : /\ Fate[job'[j]] = "submitted" => device'[j] = "printed"
                      /\ Fate[job'[j]] \in {"none", "failed"} => device'[j] # "printed"
  <2> SUFFICES ASSUME NEW j \in Keys
               PROVE  /\ Fate[job'[j]] = "submitted" => device'[j] = "printed"
                      /\ Fate[job'[j]] \in {"none", "failed"} => device'[j] # "printed"
    OBVIOUS
  <2>1. InStep(j)' /\ job'[j] \in JobStates
    BY <1>2
  <2>2. job'[j] = "submitted" => device'[j] = "printed"
    BY <2>1 DEF InStep
  <2>3. job'[j] \in {"none", "failed"} => device'[j] # "printed"
    BY <2>1 DEF InStep, Blank
  <2> QED BY <2>1, <2>2, <2>3, FateOfJob
<1> QED
  BY <1>3, <1>4, <1>5, <1>6, <1>7 DEF PrintJob!Step, PrintJob!Unsettled, PrintJob!Honest

\* The service implements the contract of a print job: a print is opened, ended
\* once and truthfully, and no other is opened meanwhile.
THEOREM PrintsKeepContract == Spec => ImplementsPrintJob
<1>1. Init => PrintJob!Init
  BY ContractInit
<1>2. IInv /\ IInv' /\ [Next]_vars =>
        [PrintJob!Step]_<<[k \in Keys |-> Fate[job[k]]], [k \in Keys |-> device[k] = "printed"]>>
  <2> SUFFICES ASSUME IInv, IInv', [Next]_vars, ~\E k \in Keys : PrintStep(k)
               PROVE  UNCHANGED <<job, device>>
    BY ContractStep
  <2>1. TypeOK /\ LineFits
    BY DEF IInv
  <2> QED
    BY <2>1, StepKinds, LineEffect, MeasuringEffect DEF vars, journal, outside
<1> QED
  BY <1>1, <1>2, Invariance, PTL DEF Spec, ImplementsPrintJob, PrintJob!Spec
================================================================================

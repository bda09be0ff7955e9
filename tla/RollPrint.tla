------------------------------- MODULE RollPrint -------------------------------
(***************************************************************************)
(* The label of one roll: OperatorPhysicalService.printQr with the         *)
(* operation journal of OperatorOperationService, the other operations     *)
(* that move the roll (verify, handover, defer, resume, step back, weigh), *)
(* the close of a shift, and the two reconcilers of a print whose delivery *)
(* is unknown.                                                             *)
(*                                                                         *)
(* All transactions are SERIALIZABLE and lock the roll, so each is a step. *)
(* Between the claim and the finalization of a print lie the printer, the  *)
(* lease of the operation and everything other requests do meanwhile.  A   *)
(* gateway command is used through LabelCommand, whose promise GatewayLink *)
(* keeps; what comes out of the printer is external.  The label states     *)
(* printed and submitted are told apart nowhere and are one state here.    *)
(***************************************************************************)
EXTENDS Naturals

CONSTANTS
  Keys,         \* operation keys of prints
  Operators,    \* users
  NoOne,        \* the roll waits at its post for the next operator
  Reasons,      \* reasons given with a print request
  NoReason,     \* a request without one
  MaxSession    \* bound: post sessions that own the roll, one after another

VARIABLES
  roll,     \* operator_roll_lines with its dispatch item
  session,  \* the active session of the owner of the roll
  ops,      \* operator_roll_operations, the prints of this roll
  job,      \* status of the label_print_jobs row of an operation
  linked,   \* jobs that stored the id of their gateway command
  weighing, \* the operation of this roll that waits for the scale
  call,     \* where the request that claimed a print is
  row,      \* status of the gateway command of a print
  device    \* the printer: what became of the command

line    == <<roll, session>>
journal == <<ops, job, linked>>
outside == <<row, device>>
vars    == <<line, journal, weighing, call, outside>>

Command == INSTANCE CommandContract
             WITH Commands <- Keys, Posts <- {1}, PostOf <- [k \in Keys |-> 1],
                  Unsafe <- Keys, fate <- row

\* What the gateway promises a print; GatewayLink implements it.
Label == INSTANCE LabelCommand WITH told <- call

None      == [status |-> "none"]
Operation == [status : {"in_progress", "succeeded", "failed"},
              error : {"none", "unknown", "not_sent", "device", "binding"},
              lease : {"live", "expired", "none"},
              actor : Operators, session : 1..MaxSession, reason : Reasons,
              step : {"qr_print", "qr_check", "handover"}]
Weighing  == [lease : {"live", "expired"}, actor : Operators, session : 1..MaxSession,
              step : {"roll_weight", "qr_print"}]
JobStates == {"none", "queued", "reprint_requested", "submitted", "failed", "delivery_unknown"}
Steps     == {"roll_weight", "qr_print", "qr_check", "handover", "warehouse", "deferred"}
Labels    == {"not_printed", "submitted", "verified", "reprint_requested", "delivery_unknown"}
Roll      == [step : Steps, from : Steps \union {"none"}, label : Labels,
              status : {"assigned", "deferred", "ready_for_warehouse"},
              owner : Operators \union {NoOne}]
Calls     == {"idle", "claimed", "waiting", "submitted", "failed", "unknown", "unheard", "over"}
Outcomes  == Label!Outcomes

ASSUME RollAssumption ==
  /\ MaxSession \in Nat \ {0}
  /\ NoOne \notin Operators
  /\ NoReason \in Reasons

-----------------------------------------------------------------------------
Active  == {k \in Keys : job[k] \in {"queued", "reprint_requested"}}
Unknown == {k \in Keys : job[k] = "delivery_unknown"}
Printed == {k \in Keys : job[k] = "submitted"}

InProgress(k) == ops[k].status = "in_progress"

FailedWith(k, error) == ops[k].status = "failed" /\ ops[k].error = error

\* The partial unique index of the journal: one operation in progress per roll.
Free == weighing = None /\ \A k \in Keys : ~InProgress(k)

\* lockOwned finds the roll of an operator with an active session, and
\* assertOperatorRollMutable lets him change it.
Owned   == roll.owner # NoOne
Mutable == Owned /\ roll.status = "assigned"

LeaseHeld(k) == InProgress(k) /\ ops[k].lease = "live"

Close(k, status, error) ==
  ops' = [ops EXCEPT ![k].status = status, ![k].error = error, ![k].lease = "none"]

\* settleReconciledRollPrintOperation
Settled(k, observed) ==
  IF FailedWith(k, "unknown")
  THEN [ops EXCEPT ![k].status = IF observed THEN "succeeded" ELSE "failed",
                   ![k].error = IF observed THEN "none" ELSE "not_sent"]
  ELSE ops

MarkRoll(label) == roll' = [roll EXCEPT !.label = label]

-----------------------------------------------------------------------------
\* printQr, the claim.

Reprint ==
  \/ roll.step = "qr_print" /\ roll.label = "reprint_requested" /\ Printed # {}
  \/ /\ roll.step \in {"qr_check", "handover"}
     /\ roll.label \in {"submitted", "verified", "reprint_requested"}

Printable(reason) ==
  /\ Mutable /\ Free /\ Unknown = {} /\ Active = {}
  /\ IF Reprint THEN reason # NoReason ELSE roll.step = "qr_print"

Opened(reason) ==
  [status |-> "in_progress", error |-> "none", lease |-> "live", actor |-> roll.owner,
   session |-> session, reason |-> reason, step |-> roll.step]

Claim(k, reason) ==
  /\ ops[k] = None
  /\ Printable(reason)
  /\ ops' = [ops EXCEPT ![k] = Opened(reason)]
  /\ job' = [job EXCEPT ![k] = IF Reprint THEN "reprint_requested" ELSE "queued"]
  /\ call' = [call EXCEPT ![k] = "claimed"]
  /\ UNCHANGED <<line, linked, weighing, outside>>

\* The post has no ready printer: the operation fails in the same transaction.
ClaimUnbound(k, reason) ==
  /\ ops[k] = None
  /\ Printable(reason)
  /\ ops' = [ops EXCEPT ![k] = [Opened(reason) EXCEPT !.status = "failed", !.error = "binding",
                                                      !.lease = "none"]]
  /\ UNCHANGED <<line, job, linked, weighing, call, outside>>

\* What the lapsed claim of a print leaves: nobody knows what came out.
MarkExpired(k) ==
  /\ Close(k, "failed", "unknown")
  /\ job' = [job EXCEPT ![k] = "delivery_unknown"]
  /\ IF roll.status # "ready_for_warehouse" THEN MarkRoll("delivery_unknown") ELSE UNCHANGED roll
  /\ UNCHANGED <<session, linked, weighing, call, outside>>

\* The same request again, after the lease has lapsed.
Retry(k, reason) ==
  /\ InProgress(k) /\ ops[k].lease = "expired"
  /\ Owned /\ ops[k].actor = roll.owner /\ ops[k].session = session /\ ops[k].reason = reason
  /\ MarkExpired(k)

\* Another request of the same user that failed, because the context of the
\* claim has changed or because the claim itself is in the way.
SettleExpired(k, actor, reason) ==
  /\ InProgress(k) /\ ops[k].lease = "expired"
  /\ ops[k].actor = actor /\ ops[k].reason = reason
  /\ MarkExpired(k)

-----------------------------------------------------------------------------
\* The print itself: PrinterAdapter.print between the two transactions.

\* The agent or the binding of the printer is not current: nothing is sent.
Refused(k) ==
  /\ call[k] = "claimed"
  /\ call' = [call EXCEPT ![k] = "failed"]
  /\ UNCHANGED <<line, journal, weighing, outside>>

Dispatch(k) ==
  /\ call[k] = "claimed"
  /\ row' = [row EXCEPT ![k] = "queued"]
  /\ call' = [call EXCEPT ![k] = "waiting"]
  /\ UNCHANGED <<line, journal, weighing, device>>

\* A query fails, or the dispatch: the outcome is unknown and so is the command.
Throws(k) ==
  /\ call[k] = "claimed"
  /\ call' = [call EXCEPT ![k] = "unheard"]
  /\ UNCHANGED <<line, journal, weighing, outside>>

\* Mutant: a print that did not fail is a print.
ReportedTrusting == [done |-> {"submitted", "unknown"}, failed |-> {"failed"},
                     not_dispatched |-> {"failed"}, expired |-> {"unknown"},
                     delivery_unknown |-> {"submitted"}, outcome_unknown |-> {"unknown"},
                     error |-> {"unheard"}]

\* Mutant: a print that was not confirmed is a print that failed.
ReportedHasty == [done |-> {"submitted", "unknown"}, failed |-> {"failed"},
                  not_dispatched |-> {"failed"}, expired |-> {"unknown"},
                  delivery_unknown |-> {"unknown"}, outcome_unknown |-> {"failed"},
                  error |-> {"unheard"}]

\* What the adapter makes of what it is told. A binding that changed during the
\* print spoils an acknowledged one.
Reported == [done |-> {"submitted", "unknown"}, failed |-> {"failed"},
             not_dispatched |-> {"failed"}, expired |-> {"unknown"},
             delivery_unknown |-> {"unknown"}, outcome_unknown |-> {"unknown"},
             error |-> {"unheard"}]

\* The gateway tells the request what it knows of the command.
Answer(k) ==
  /\ call[k] = "waiting"
  /\ \E what \in Label!Tellings, paper \in Outcomes :
       /\ Label!Tells(what, row[k], device[k], paper)
       /\ device' = [device EXCEPT ![k] = paper]
       /\ \E outcome \in Reported[what] : call' = [call EXCEPT ![k] = outcome]
  /\ UNCHANGED <<line, journal, weighing, row>>

CommandMoves(k) ==
  /\ row[k] # "none"
  /\ \E new \in Label!Rows :
       Label!Moves(row[k], new, device[k]) /\ row' = [row EXCEPT ![k] = new]
  /\ Command!OneInFlight(row')
  /\ UNCHANGED <<line, journal, weighing, call, device>>

DeviceMoves(k) ==
  /\ \E new \in Outcomes :
       Label!Works(row[k], device[k], new) /\ device' = [device EXCEPT ![k] = new]
  /\ UNCHANGED <<line, journal, weighing, call, row>>

\* A lease outlives the longest command by a minute, so it does not lapse
\* between the claim and the dispatch of a process that lives.
LeaseExpires(k) ==
  /\ LeaseHeld(k) /\ call[k] # "claimed"
  /\ ops' = [ops EXCEPT ![k].lease = "expired"]
  /\ UNCHANGED <<line, job, linked, weighing, call, outside>>

\* The process dies, or the last transaction of the request fails.
Abandon(k) ==
  /\ call[k] \notin {"idle", "over"}
  /\ call' = [call EXCEPT ![k] = "over"]
  /\ UNCHANGED <<line, journal, weighing, outside>>

-----------------------------------------------------------------------------
\* printQr, the end.

\* The roll, its owner and the lease are as they were at the claim.
Unmoved(k) ==
  /\ LeaseHeld(k)
  /\ Mutable /\ roll.owner = ops[k].actor /\ session = ops[k].session
  /\ roll.step = ops[k].step

Finalize(k) ==
  /\ call[k] = "submitted" /\ Unmoved(k)
  /\ Close(k, "succeeded", "none")
  /\ job' = [job EXCEPT ![k] = "submitted"]
  /\ linked' = linked \union {k}
  /\ roll' = [roll EXCEPT !.label = "submitted", !.step = "qr_check"]
  /\ call' = [call EXCEPT ![k] = "over"]
  /\ UNCHANGED <<session, weighing, outside>>

\* A guard of the finalization fails, or its transaction does.
NotFinalized(k) ==
  /\ call[k] = "submitted"
  /\ call' = [call EXCEPT ![k] = "unknown"]
  /\ UNCHANGED <<line, journal, weighing, outside>>

\* markPrintDeliveryUnknown: with the lease lost, fail throws and the
\* transaction is rolled back.
MarkUnknown(k) ==
  /\ call[k] \in {"unknown", "unheard"}
  /\ call' = [call EXCEPT ![k] = "over"]
  /\ IF LeaseHeld(k)
     THEN /\ Close(k, "failed", "unknown")
          /\ job' = [job EXCEPT ![k] = "delivery_unknown"]
          /\ linked' = IF call[k] = "unknown" THEN linked \union {k} ELSE linked
          /\ IF roll.step = ops[k].step /\ roll.status # "ready_for_warehouse"
             THEN MarkRoll("delivery_unknown") ELSE UNCHANGED roll
     ELSE UNCHANGED <<roll, journal>>
  /\ UNCHANGED <<session, weighing, outside>>

FailPrint(k) ==
  /\ call[k] = "failed"
  /\ call' = [call EXCEPT ![k] = "over"]
  /\ IF LeaseHeld(k)
     THEN Close(k, "failed", "device") /\ job' = [job EXCEPT ![k] = "failed"]
     ELSE UNCHANGED <<ops, job>>
  /\ UNCHANGED <<line, linked, weighing, outside>>

-----------------------------------------------------------------------------
\* The reconcilers.

Reconcilable(k) ==
  /\ k \in Unknown
  /\ roll.step \in {"qr_print", "qr_check", "handover"}
  /\ roll.label = "delivery_unknown"

Restored == IF Printed # {} THEN "reprint_requested" ELSE "not_printed"

\* Mutant: the operation keeps its unknown delivery.
GatewayReconcileLoose(k) ==
  /\ Reconcilable(k) /\ k \in linked /\ row[k] = "failed"
  /\ roll.owner = ops[k].actor
  /\ job' = [job EXCEPT ![k] = "failed"]
  /\ IF Unknown \union Active = {k} THEN MarkRoll(Restored) ELSE UNCHANGED roll
  /\ UNCHANGED <<session, ops, linked, weighing, call, outside>>

\* The sweeper: a command that is proven to have failed.
GatewayReconcile(k) ==
  /\ Reconcilable(k) /\ k \in linked /\ row[k] = "failed"
  /\ roll.owner = ops[k].actor
  /\ job' = [job EXCEPT ![k] = "failed"]
  /\ IF Unknown \union Active = {k} THEN MarkRoll(Restored) ELSE UNCHANGED roll
  /\ ops' = Settled(k, FALSE)
  /\ UNCHANGED <<session, linked, weighing, call, outside>>

\* assertPrintCommandSettled asks for any open print command of this roll.
CommandsSettled == \A k \in Keys : row[k] \notin {"queued", "in_flight"}

\* Mutant: the administrator decides while a command may still print.
AdminReconcileEarly(k) ==
  /\ Reconcilable(k)
  /\ device[k] # "busy"
  /\ LET observed == device[k] = "printed"
     IN  /\ job' = [job EXCEPT ![k] = IF observed THEN "submitted" ELSE "failed"]
         /\ roll' = [roll EXCEPT !.step = IF observed THEN "qr_check" ELSE @,
                                 !.label = IF observed THEN "submitted" ELSE Restored]
         /\ ops' = Settled(k, observed)
  /\ UNCHANGED <<session, linked, weighing, call, outside>>

\* The administrator has looked at the printer, which is not printing.
AdminReconcile(k) ==
  /\ Reconcilable(k) /\ CommandsSettled
  /\ device[k] # "busy"
  /\ LET observed == device[k] = "printed"
     IN  /\ job' = [job EXCEPT ![k] = IF observed THEN "submitted" ELSE "failed"]
         /\ roll' = [roll EXCEPT !.step = IF observed THEN "qr_check" ELSE @,
                                 !.label = IF observed THEN "submitted" ELSE Restored]
         /\ ops' = Settled(k, observed)
  /\ UNCHANGED <<session, linked, weighing, call, outside>>

-----------------------------------------------------------------------------
\* The other operations on the roll: claimed, done and completed at once.

Operate == Mutable /\ Free /\ UNCHANGED <<session, journal, weighing, call, outside>>

\* The operator scans a label of this roll.
VerifyQr ==
  /\ Operate /\ roll.step = "qr_check"
  /\ \E k \in Keys : device[k] = "printed"
  /\ roll' = [roll EXCEPT !.label = "verified", !.step = "handover"]

Handover ==
  /\ Operate /\ roll.step = "handover" /\ roll.label = "verified"
  /\ roll' = [roll EXCEPT !.step = "warehouse", !.status = "ready_for_warehouse"]

Defer ==
  /\ Operate /\ roll.step \notin {"warehouse", "deferred"}
  /\ roll' = [roll EXCEPT !.from = roll.step, !.step = "deferred", !.status = "deferred"]

\* Mutant: any roll is resumed.
ResumeAnywhere ==
  /\ Owned /\ Free /\ roll.status # "ready_for_warehouse"
  /\ roll' = [roll EXCEPT !.step = roll.from, !.from = "none", !.status = "assigned"]
  /\ UNCHANGED <<session, journal, weighing, call, outside>>

Resume ==
  /\ Owned /\ Free /\ roll.status = "deferred" /\ roll.step = "deferred"
  /\ roll' = [roll EXCEPT !.step = roll.from, !.from = "none", !.status = "assigned"]
  /\ UNCHANGED <<session, journal, weighing, call, outside>>

\* Mutant: a roll is weighed again after a print that failed.
StepBackLabelOnly ==
  /\ Operate /\ roll.step = "qr_print" /\ roll.label = "not_printed"
  /\ roll' = [roll EXCEPT !.step = "roll_weight"]

StepBack ==
  /\ Operate /\ roll.step = "qr_print" /\ roll.label = "not_printed"
  /\ \A k \in Keys : job[k] = "none"
  /\ roll' = [roll EXCEPT !.step = "roll_weight"]

\* captureWeight and reweighRoll: the same journal, a lease, and the scale
\* between claim and record. Weighing again in place ends with the first print.
WeighedAt(step) ==
  /\ Mutable /\ roll.step = step
  /\ \/ step = "roll_weight"
     \/ step = "qr_print" /\ roll.label = "not_printed" /\ \A k \in Keys : job[k] = "none"

NotPrinting == UNCHANGED <<session, journal, call, outside>>

ClaimWeighing(step) ==
  /\ Free /\ WeighedAt(step)
  /\ weighing' = [lease |-> "live", actor |-> roll.owner, session |-> session, step |-> step]
  /\ NotPrinting /\ UNCHANGED roll

\* The same request again, after the lease has lapsed: it reads the scale anew.
WeighAgain ==
  /\ weighing # None /\ weighing.lease = "expired"
  /\ roll.owner = weighing.actor /\ session = weighing.session
  /\ WeighedAt(weighing.step)
  /\ weighing' = [weighing EXCEPT !.lease = "live"]
  /\ NotPrinting /\ UNCHANGED roll

WeighingExpires ==
  /\ weighing # None /\ weighing.lease = "live"
  /\ weighing' = [weighing EXCEPT !.lease = "expired"]
  /\ NotPrinting /\ UNCHANGED roll

\* The scale fails or the record is refused; with the lease lost, it takes
\* another request of the same user that fails to settle the operation.
WeighingFails ==
  /\ weighing # None
  /\ weighing' = None
  /\ NotPrinting /\ UNCHANGED roll

RecordWeight ==
  /\ weighing # None /\ weighing.lease = "live"
  /\ roll.owner = weighing.actor /\ session = weighing.session
  /\ WeighedAt(weighing.step)
  /\ roll' = [roll EXCEPT !.step = "qr_print"]
  /\ weighing' = None
  /\ NotPrinting

\* The operator hands in his shift: a started roll is deferred and stays at the
\* post, whatever operation is in progress on it.
CloseShift ==
  /\ Owned /\ roll.status # "ready_for_warehouse"
  /\ roll' = IF roll.step = "deferred" THEN [roll EXCEPT !.owner = NoOne]
             ELSE [roll EXCEPT !.owner = NoOne, !.from = roll.step, !.step = "deferred",
                               !.status = "deferred"]
  /\ UNCHANGED <<session, journal, weighing, call, outside>>

\* The next session at the post takes the backlog over.
TakeOver(operator) ==
  /\ ~Owned /\ session < MaxSession
  /\ roll' = [roll EXCEPT !.owner = operator]
  /\ session' = session + 1
  /\ UNCHANGED <<journal, weighing, call, outside>>

-----------------------------------------------------------------------------
Init ==
  /\ roll \in [step : {"qr_print"}, from : {"none"}, label : {"not_printed"},
               status : {"assigned"}, owner : Operators]
  /\ session = 1
  /\ ops = [k \in Keys |-> None]
  /\ job = [k \in Keys |-> "none"]
  /\ linked = {}
  /\ weighing = None
  /\ call = [k \in Keys |-> "idle"]
  /\ row = [k \in Keys |-> "none"]
  /\ device = [k \in Keys |-> "idle"]

Claiming(k) ==
  \E reason \in Reasons :
    \/ Claim(k, reason) \/ ClaimUnbound(k, reason) \/ Retry(k, reason)
    \/ \E actor \in Operators : SettleExpired(k, actor, reason)

Printing(k) ==
  \/ Refused(k) \/ Dispatch(k) \/ Throws(k) \/ Answer(k)
  \/ CommandMoves(k) \/ DeviceMoves(k) \/ LeaseExpires(k) \/ Abandon(k)

Ending(k) == Finalize(k) \/ NotFinalized(k) \/ MarkUnknown(k) \/ FailPrint(k)

Reconciling(k) == GatewayReconcile(k) \/ AdminReconcile(k)

Operating == VerifyQr \/ Handover \/ Defer \/ Resume \/ StepBack

Measuring ==
  \/ \E step \in {"roll_weight", "qr_print"} : ClaimWeighing(step)
  \/ WeighAgain \/ WeighingExpires \/ WeighingFails \/ RecordWeight

Next ==
  \/ \E k \in Keys : Claiming(k) \/ Printing(k) \/ Ending(k) \/ Reconciling(k)
  \/ Operating \/ Measuring
  \/ CloseShift \/ \E operator \in Operators : TakeOver(operator)

Spec == Init /\ [][Next]_vars

-----------------------------------------------------------------------------
TypeOK ==
  /\ roll \in Roll
  /\ session \in 1..MaxSession
  /\ ops \in [Keys -> Operation \union {None}]
  /\ job \in [Keys -> JobStates]
  /\ linked \subseteq {k \in Keys : job[k] # "none"}
  /\ weighing \in Weighing \union {None}
  /\ call \in [Keys -> Calls]
  /\ row \in [Keys -> Command!Fates]
  /\ device \in [Keys -> Outcomes]

\* The journal and the print job of an operation are written by eight
\* transactions of four services; they never disagree, so a repeated request is
\* answered by what its job has become.
JournalMatchesJob ==
  \A k \in Keys :
    /\ job[k] = "none"             <=> ops[k] = None \/ FailedWith(k, "binding")
    /\ k \in Active                <=> InProgress(k)
    /\ job[k] = "submitted"        <=> ops[k].status = "succeeded"
    /\ job[k] = "delivery_unknown" <=> FailedWith(k, "unknown")

\* A label that may still come out.
Loose(k) ==
  \/ device[k] = "busy"
  \/ device[k] = "idle" /\ row[k] \in {"queued", "in_flight"}

\* No label of a roll is printed while another one may still come out, whoever
\* settled its job meanwhile.
OneLabelAtATime == \A j, k \in Keys : Loose(j) /\ Loose(k) => j = k

\* Where the roll is, or will be resumed.
At == IF roll.step = "deferred" THEN roll.from ELSE roll.step

\* A roll passes the print only with a label: beyond it there is a job recorded
\* as printed, also after failed, unknown and repaired reprints.
NoLabelNoPassage ==
  At \in {"qr_check", "handover", "warehouse"} => \E k \in Printed : device[k] = "printed"

\* Once a print was claimed the weight on its label is the recorded one: no
\* reading that was under way, taken over or begun again replaces it.
WeightIsFrozen == [][RecordWeight => \A k \in Keys : job[k] = "none"]_vars

\* What the contract sees of the service.
Fate == [none |-> "none", queued |-> "open", reprint_requested |-> "open",
         delivery_unknown |-> "unknown", submitted |-> "submitted", failed |-> "failed"]

PrintJob == INSTANCE PrintJobContract
              WITH fate <- [k \in Keys |-> Fate[job[k]]],
                   paper <- [k \in Keys |-> device[k] = "printed"]

\* The service implements the contract of a print job: it is opened, ended once
\* and truthfully, and no other is opened meanwhile.
ImplementsPrintJob == PrintJob!Spec

\* The guide's promise: an unknown delivery is decided by the administrator.
\* He can do so only while the roll itself is marked; it is not if a closing shift
\* deferred the roll before the outcome was recorded, or if an older label was
\* scanned after it.
UnknownIsOnTheRoll ==
  Unknown # {} /\ roll.status # "ready_for_warehouse" => roll.label = "delivery_unknown"

-----------------------------------------------------------------------------
\* Why the invariants hold: the parts of the inductive invariant.

\* Step and status of a roll agree, and a deferred one can be resumed.
LineFits ==
  /\ roll.step = "deferred"  <=> roll.status = "deferred"
  /\ roll.step = "warehouse" <=> roll.status = "ready_for_warehouse"
  /\ roll.step = "deferred"  =>  roll.from \in Steps \ {"deferred", "warehouse"}

\* No label came out and none can.
Blank(k) == call[k] # "claimed" /\ device[k] # "printed" /\ ~Loose(k)

\* The request, its operation, its command and the printer are never further
\* apart than the code between two of their transactions.
InStep(k) ==
  /\ call[k] = "idle"                               <=> job[k] = "none"
  /\ call[k] = "claimed"                            =>  LeaseHeld(k)
  /\ call[k] \in {"idle", "claimed"}                =>  row[k] = "none"
  /\ row[k] = "none"                                =>  device[k] = "idle"
  /\ row[k] \in {"queued", "expired"}               =>  device[k] \in {"idle", "clean"}
  /\ row[k] = "failed"                              =>  device[k] = "clean"
  /\ row[k] = "done" \/ job[k] = "submitted"        =>  device[k] = "printed"
  /\ call[k] = "waiting"                            =>  row[k] # "none"
  /\ call[k] = "submitted"                          =>  row[k] = "done"
  /\ call[k] = "failed" \/ job[k] = "failed"        =>  Blank(k)

InStepAll == \A k \in Keys : InStep(k)

\* At most one print of a roll is not over.
OneUndecided == \A j, k \in Active \union Unknown : j = k

\* A roll that is at the scale, or will be resumed there, was never printed for.
WeighedFirst == At = "roll_weight" => \A k \in Keys : job[k] = "none"

IInv ==
  /\ TypeOK /\ LineFits /\ JournalMatchesJob /\ InStepAll
  /\ OneUndecided /\ WeighedFirst /\ NoLabelNoPassage
================================================================================

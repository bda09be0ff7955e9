----------------------------- MODULE LabelCommand -----------------------------
(***************************************************************************)
(* What platform and agent together promise the request that prints one    *)
(* label, without polls, leases, clocks, files and networks: the printer   *)
(* starts at most once and only while the command is in flight, a settled  *)
(* row tells what became of the label, and the request is told what the    *)
(* row says, or that the command was not dispatched and no label will      *)
(* come, or that nobody knows.                                             *)
(*                                                                         *)
(* GatewayLink implements this module for every command with a physical    *)
(* effect; RollPrint is written over it.                                   *)
(***************************************************************************)
VARIABLES
  row,     \* status of the command
  device,  \* what became of it at the printer
  told     \* what the request was told

Rows     == {"none", "queued", "in_flight", "done", "failed", "expired", "delivery_unknown"}
Outcomes == {"idle", "busy", "printed", "clean"}
Answers  == {"done", "failed", "expired", "delivery_unknown"}
Tellings == Answers \union {"not_dispatched", "outcome_unknown", "error"}

\* A row moves as CommandContract allows, and ends truthfully.
Moves(old, new, paper) ==
  \/ old = "none"   /\ new = "queued"
  \/ old = "queued" /\ new \in {"in_flight", "expired"}
  \/ old = "in_flight" /\ new = "delivery_unknown"
  \/ old \in {"in_flight", "delivery_unknown"} /\ new = "done"   /\ paper = "printed"
  \/ old \in {"in_flight", "delivery_unknown"} /\ new = "failed" /\ paper = "clean"

\* The agent starts a print only while its command is in flight, or refuses it.
Works(status, old, new) ==
  \/ old = "idle" /\ new = "busy"  /\ status = "in_flight"
  \/ old = "idle" /\ new = "clean" /\ status \in {"in_flight", "delivery_unknown"}
  \/ old = "busy" /\ new \in {"printed", "clean"}

\* An answer is the row; "not dispatched" ends the matter at the printer, too.
Tells(what, status, old, new) ==
  /\ status # "none"
  /\ what \in Answers => what = status
  /\ IF what = "not_dispatched" THEN old \in {"idle", "clean"} /\ new = "clean" ELSE new = old

Init == row = "none" /\ device = "idle" /\ told = "nothing"

Step ==
  \/ Moves(row, row', device) /\ UNCHANGED <<device, told>>
  \/ Works(row, device, device') /\ UNCHANGED <<row, told>>
  \/ /\ told = "nothing" /\ told' \in Tellings
     /\ Tells(told', row, device, device')
     /\ UNCHANGED row

Spec == Init /\ [][Step]_<<row, device, told>>
===============================================================================

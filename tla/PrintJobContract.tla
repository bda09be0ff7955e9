--------------------------- MODULE PrintJobContract ----------------------------
(***************************************************************************)
(* What the printing services promise about the label of one thing, without*)
(* requests, leases, sessions and commands: a print job is opened, its     *)
(* outcome may be unknown for a while, and it ends as submitted or failed, *)
(* once.  A label comes out only for a job that is not over, a job ends as *)
(* submitted only with its label and as failed only without, and no second *)
(* job is opened while the outcome of another one is open.                 *)
(*                                                                         *)
(* RollPrint implements this module for a roll, WarehousePallets for each  *)
(* pallet list.                                                            *)
(***************************************************************************)
CONSTANT Keys

VARIABLES
  fate,   \* of the job of an operation key
  paper   \* whether its label came out of the printer

Fates == {"none", "open", "unknown", "submitted", "failed"}

Unsettled(f) == {k \in Keys : f[k] \in {"open", "unknown"}}

Legal(old, new) ==
  \/ old = "none"    /\ new = "open"
  \/ old = "open"    /\ new \in {"unknown", "submitted", "failed"}
  \/ old = "unknown" /\ new \in {"submitted", "failed"}

Honest(f, p) ==
  \A k \in Keys : /\ f[k] = "submitted" => p[k]
                  /\ f[k] \in {"none", "failed"} => ~p[k]

Init ==
  /\ fate = [k \in Keys |-> "none"]
  /\ paper = [k \in Keys |-> FALSE]

Step ==
  /\ fate' \in [Keys -> Fates]
  /\ paper' \in [Keys -> BOOLEAN]
  /\ \A k \in Keys :
       /\ fate'[k] = fate[k] \/ Legal(fate[k], fate'[k])
       /\ paper'[k] # paper[k] => paper'[k] /\ k \in Unsettled(fate)
  /\ \A j, k \in Unsettled(fate') : j = k
  /\ Honest(fate', paper')

Spec == Init /\ [][Step]_<<fate, paper>>
================================================================================

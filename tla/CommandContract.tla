--------------------------- MODULE CommandContract ---------------------------
(***************************************************************************)
(* What the platform promises about a gateway command, independently of    *)
(* polling, leases, clocks, transactions and process memory: a command is  *)
(* queued, handed to the agent of its post, and settled; a command whose   *)
(* repetition has a physical effect is handed out at most once; a settled  *)
(* command stays settled, except that an unknown delivery may be replaced  *)
(* by the definite answer of the agent.                                    *)
(*                                                                         *)
(* GatewayCommands implements this module under                            *)
(* fate <- [c \in Commands |-> cmd[c].status].                             *)
(***************************************************************************)
CONSTANTS Commands, Posts, PostOf, Unsafe

VARIABLE fate

Fates == {"none", "queued", "in_flight", "done", "failed", "expired", "delivery_unknown"}

Legal(c, old, new) ==
  \/ old = "none"             /\ new = "queued"
  \/ old = "queued"           /\ new \in {"in_flight", "expired"}
  \/ old = "in_flight"        /\ new \in {"done", "failed", "delivery_unknown"}
  \/ old = "in_flight"        /\ new \in {"queued", "expired"} /\ c \notin Unsafe
  \/ old = "delivery_unknown" /\ new \in {"done", "failed"}

OneInFlight(f) ==
  \A c, d \in Commands :
    f[c] = "in_flight" /\ f[d] = "in_flight" /\ PostOf[c] = PostOf[d] => c = d

Init == fate = [c \in Commands |-> "none"]

Step ==
  /\ fate' \in [Commands -> Fates]
  /\ \A c \in Commands : fate'[c] = fate[c] \/ Legal(c, fate[c], fate'[c])
  /\ OneInFlight(fate')

Spec == Init /\ [][Step]_fate
==============================================================================

-------------------------- MODULE MCGatewayCommands --------------------------
(* The instance for TLC: a print (not repeatable) and a scale read (it may be *)
(* repeated) queued at the same post.                                         *)
EXTENDS GatewayCommands

CONSTANTS print1, read1, post1

Pair       == {print1, read1}
PairPostOf == [c \in Pair |-> post1]
One        == {print1}
Post       == {post1}
==============================================================================

----------------------------- MODULE MCGatewayLink -----------------------------
(* The instance for TLC: one print between one post and the platform.        *)
EXTENDS GatewayLink

CONSTANT print1

OnePrint == {print1}
================================================================================

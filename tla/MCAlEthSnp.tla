----------------------------- MODULE MCAlEthSnp -----------------------------
(* Instances of the lifecycle model: a ring and one buffer, two transmit   *)
(* buffers on a ring of four that wraps, two addresses.                    *)
(*   AlEthSnp: callers that Shutdown before they Stop; safety, liveness.   *)
(*   AlEthSnpStopUp: callers that do not: what a comment of the driver     *)
(*     says and the code does not do.                                      *)
(*   AlEthSnpReclaim: a buffer that a later Transmit reclaims.             *)
EXTENDS AlEthSnp
=============================================================================

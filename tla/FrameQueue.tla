----------------------------- MODULE FrameQueue -----------------------------
(***************************************************************************)
(* What the receive path of a network interface promises its caller:       *)
(* frames come out one at a time, each at most once, in the order they     *)
(* arrived, and never one that did not arrive.  Frames are numbered by     *)
(* arrival; taken is the last one that left the queue, delivered the last  *)
(* one a caller got to see.  A frame may be given up (a damaged one, or    *)
(* one the caller has no room for), and bringing the interface up again    *)
(* gives up all that are waiting.                                          *)
(***************************************************************************)
EXTENDS Integers

CONSTANT Capacity       \* frames that may wait

VARIABLES arrived, taken, delivered

qvars == <<arrived, taken, delivered>>

Init == arrived = 0 /\ taken = 0 /\ delivered = 0

Arrive ==
    /\ arrived - taken < Capacity
    /\ arrived' = arrived + 1
    /\ UNCHANGED <<taken, delivered>>

Deliver ==
    /\ taken < arrived
    /\ taken' = taken + 1
    /\ delivered' = taken + 1
    /\ UNCHANGED arrived

GiveUp ==
    /\ taken < arrived
    /\ taken' = taken + 1
    /\ UNCHANGED <<arrived, delivered>>

Flush ==
    /\ taken' = arrived
    /\ UNCHANGED <<arrived, delivered>>

Next == Arrive \/ Deliver \/ GiveUp \/ Flush

Spec == Init /\ [][Next]_qvars
=============================================================================

------------------------------- MODULE I2cBus -------------------------------
(***************************************************************************)
(* What an EFI_I2C_MASTER_PROTOCOL promises its callers, at the level of   *)
(* whole requests: abstract specification of DwI2c, and the bus Pca954x    *)
(* and FanDxe stand on.  A request is refused while an earlier one is      *)
(* still on the wire; a request that fails may have reached its slave, in  *)
(* whole or in part, and may still do so after it was given up, until the  *)
(* bus is quiet; a request that succeeds has reached it and is over.       *)
(***************************************************************************)
CONSTANT Slaves

VARIABLES
    serving,    \* StartRequest has been called and has not returned
    slave,      \* its SlaveAddress
    begun,      \* it has got past the wait for the bus
    done,       \* "no", "yes": all of it has gone through, "spoilt": it will fail
    live,       \* a request, this one or one given up, may be on the wire
    to          \* the slave that one addresses

busVars == <<serving, slave, begun, done, live, to>>

BusInit ==
    /\ serving = FALSE
    /\ slave \in Slaves
    /\ begun = FALSE
    /\ done = "no"
    /\ live = FALSE
    /\ to \in Slaves

Ask(s) ==
    /\ ~serving
    /\ serving' = TRUE
    /\ slave' = s
    /\ done' = "no"
    /\ UNCHANGED <<begun, live, to>>

\* The bus stays busy: EFI_TIMEOUT.
Refuse ==
    /\ serving /\ ~begun
    /\ serving' = FALSE
    /\ done' = "spoilt"
    /\ UNCHANGED <<slave, begun, live, to>>

Begin ==
    /\ serving /\ ~begun /\ ~live
    /\ begun' = TRUE
    /\ live' = TRUE
    /\ to' = slave
    /\ UNCHANGED <<serving, slave, done>>

Deliver ==
    /\ begun /\ done = "no"
    /\ done' = "yes"
    /\ UNCHANGED <<serving, slave, begun, live, to>>

\* A wait runs out or the slave refuses.
Spoil ==
    /\ begun /\ done # "spoilt"
    /\ done' = "spoilt"
    /\ UNCHANGED <<serving, slave, begun, live, to>>

\* A byte of a request that fails or was given up, the abort byte included.
Stray ==
    /\ live /\ (~begun \/ done = "spoilt")
    /\ UNCHANGED busVars

End(ok) ==
    /\ begun
    /\ serving' = FALSE
    /\ begun' = FALSE
    /\ IF ok
       THEN done = "yes" /\ live' = FALSE
       ELSE done = "spoilt" /\ live' \in {live, FALSE}
    /\ UNCHANGED <<slave, done, to>>

Quiet ==
    /\ live /\ ~begun
    /\ live' = FALSE
    /\ UNCHANGED <<serving, slave, begun, done, to>>

BusNext ==
    \/ \E s \in Slaves : Ask(s)
    \/ Refuse \/ Begin \/ Deliver \/ Spoil \/ Stray \/ Quiet
    \/ \E ok \in BOOLEAN : End(ok)

BusSpec == BusInit /\ [][BusNext]_busVars
=============================================================================

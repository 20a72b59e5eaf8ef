------------------------------ MODULE MCDwI2c -------------------------------
(* Instances of the I2C controller driver: two slaves, a FIFO of two, and   *)
(* the packets the drivers of the tree send: a register write (FanDxe,      *)
(* Pca954xDxe), a register read (write, restart, read), and two that only   *)
(* a careless caller sends: a read alone, and an empty last operation.      *)
EXTENDS DwI2c

W(n) == [read |-> FALSE, len |-> n]
R(n) == [read |-> TRUE, len |-> n]

WriteLong == <<W(4)>>
WriteRead == <<W(1), R(2)>>
ReadOnly  == <<R(1)>>
EmptyLast == <<W(1), R(0)>>

AllPackets  == {WriteLong, WriteRead, ReadOnly, EmptyLast}
=============================================================================

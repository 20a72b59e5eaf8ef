------------------------------- MODULE DwI2c --------------------------------
(***************************************************************************)
(* DwI2cDxe: DwI2cStartRequest driving one DesignWare I2C controller by    *)
(* polling.  The driver holds the TPL_NOTIFY lock for the whole request,   *)
(* so the two actors are the driver and the controller: the driver fills   *)
(* the transmit FIFO, the controller empties it on a wire that may be slow *)
(* (every wait of the driver may time out, and what it waited for may come *)
(* right after) and on which a slave may refuse a byte.                    *)
(*                                                                         *)
(* A command in a FIFO carries, beside the bits the driver writes, the     *)
(* request and the byte it was queued for and the slave it is meant for:   *)
(* history, which the properties compare with where the byte ends up.      *)
(***************************************************************************)
EXTENDS Integers, Sequences

CONSTANTS
    Slaves,         \* slave addresses
    Packets,        \* request packets: sequences of operations
    TxFifo,         \* depth of the transmit FIFO
    MaxRequests     \* bound: requests in a behaviour

Op == [read : BOOLEAN, len : Nat]

ASSUME DwAssumption ==
    /\ Slaves # {}
    /\ Packets \subseteq Seq(Op) \ {<<>>}
    /\ TxFifo \in Nat \ {0}
    /\ MaxRequests \in Nat

Cmd == [read : BOOLEAN, stop : BOOLEAN, slave : Slaves, req : Nat, op : Nat, byte : Nat]

VARIABLES
    pc,         \* step of StartRequest
    late,       \* the last poll of the current wait has failed
    Lock,       \* Ctx->Lock is held
    req,        \* history: requests started so far
    slave,      \* SlaveAddress
    packet,     \* RequestPacket
    op,         \* OpIdx
    byte,       \* ByteIdx
    Status,
    en,         \* controller: IC_ENABLE
    enabled,    \* controller: IC_ENABLE_STATUS
    halting,    \* controller: told to stop, will at the end of the byte
    tar,        \* controller: IC_TAR
    tx,         \* controller: transmit FIFO
    cur,        \* controller: the command on the wire, if any
    rx,         \* controller: receive FIFO
    active,     \* controller: MST_ACTIVITY
    stopping,   \* controller: sending the STOP that follows an abort
    TX_ABRT,    \* controller: raw interrupt; holds the transmit FIFO empty
    STOP_DET,   \* controller: raw interrupt
    wire        \* history: bytes of the current request that went through

reqVars  == <<req, slave, packet>>
posVars  == <<op, byte>>
ctlVars  == <<en, enabled, halting, tar>>
fifoVars == <<tx, rx>>
busVars  == <<cur, active, stopping>>
intVars  == <<TX_ABRT, STOP_DET>>
drvVars  == <<pc, late, Lock, reqVars, posVars, Status>>
hwVars   == <<ctlVars, fifoVars, busVars, intVars>>
vars     == <<drvVars, hwVars, wire>>
-----------------------------------------------------------------------------
(***************************************************************************)
(* Register accesses.                                                      *)
(***************************************************************************)

\* DwI2cEnable(0).  An idle controller stops at once and its FIFOs are
\* emptied; a busy one stops at the end of the byte (HwDisable).  No caller
\* looks at the result of the wait for IC_ENABLE_STATUS.
Disable ==
    /\ en' = FALSE
    /\ halting' = active
    /\ IF active
       THEN UNCHANGED <<enabled, fifoVars>>
       ELSE enabled' = FALSE /\ tx' = <<>> /\ rx' = <<>>

\* A write to IC_DATA_CMD: lost when the FIFO is full or held empty.
Push(c) == IF TX_ABRT \/ Len(tx) >= TxFifo THEN tx ELSE Append(tx, c)

\* The command for the current byte; STOP goes with the last byte of the last
\* operation.
ByteCmd == [read |-> packet[op].read,
            stop |-> op = Len(packet) /\ byte = packet[op].len - 1,
            slave |-> slave, req |-> req, op |-> op, byte |-> byte]

\* "Send STOP on abort": DW_IC_DATA_CMD_STOP is a write command with data 0.
AbortCmd == [read |-> FALSE, stop |-> TRUE,
             slave |-> slave, req |-> req, op |-> 0, byte |-> 0]

\* What each wait of the driver polls for.
Ready ==
    CASE pc \in {"busy", "settle"} -> ~active           \* DwI2cWaitBusNotBusy
      [] pc = "put"                -> Len(tx) < TxFifo  \* DwI2cWaitTxData
      [] pc = "get"                -> rx # <<>>         \* DwI2cWaitRxData
      [] pc = "drain"              -> tx = <<>>         \* DwI2cFinish, TFE
      [] pc = "stop"               -> STOP_DET          \* DwI2cFinish, STOP_DET
      [] OTHER                     -> FALSE

Waits == {"busy", "put", "get", "drain", "stop", "settle"}

\* The wait in pc ends because the poll succeeds, or runs out of polls.
WaitOver(p)  == pc = p /\ ~late /\ Ready
WaitFails(p) == pc = p /\ late
-----------------------------------------------------------------------------
(***************************************************************************)
(* DwI2cStartRequest.  Requests refused for their arguments do not get as  *)
(* far as the lock and change nothing.                                     *)
(***************************************************************************)
StartRequest(s, p) ==
    /\ pc = "idle" /\ ~Lock
    /\ req < MaxRequests
    /\ Lock' = TRUE
    /\ req' = req + 1
    /\ slave' = s
    /\ packet' = p
    /\ op' = 1
    /\ byte' = 0
    /\ Status' = "SUCCESS"
    /\ wire' = <<>>
    /\ pc' = "busy"
    /\ UNCHANGED <<late, hwVars>>

\* The last poll of a wait fails; the controller may still move before the
\* driver acts on it.
LastPollFails ==
    /\ pc \in Waits /\ ~late /\ ~Ready
    /\ pc = "put" => packet[op].len > byte
    /\ late' = TRUE
    /\ UNCHANGED <<pc, Lock, reqVars, posVars, Status, hwVars, wire>>

BusFree ==
    /\ WaitOver("busy")
    /\ pc' = "disable"
    /\ UNCHANGED <<late, Lock, reqVars, posVars, Status, hwVars, wire>>

\* Slips: carry on with a busy bus; return without releasing the lock.
BusBusyIgnored ==
    /\ WaitFails("busy")
    /\ pc' = "disable"
    /\ late' = FALSE
    /\ UNCHANGED <<Lock, reqVars, posVars, Status, hwVars, wire>>

BusBusyKeepsLock ==
    /\ WaitFails("busy")
    /\ Status' = "TIMEOUT"
    /\ pc' = "idle"
    /\ late' = FALSE
    /\ UNCHANGED <<Lock, reqVars, posVars, hwVars, wire>>

BusBusy ==
    /\ WaitFails("busy")
    /\ Status' = "TIMEOUT"
    /\ Lock' = FALSE
    /\ pc' = "idle"
    /\ late' = FALSE
    /\ UNCHANGED <<reqVars, posVars, hwVars, wire>>

DisableFirst ==
    /\ pc = "disable"
    /\ Disable
    /\ pc' = "setup"
    /\ UNCHANGED <<late, Lock, reqVars, posVars, Status, tar, busVars, intVars, wire>>

\* IC_TAR (writable only while the controller is off), DwI2cEnable(1),
\* IC_CLR_INTR, and into the loop over the operations.
Setup ==
    /\ pc = "setup"
    /\ tar' = IF enabled THEN tar ELSE slave
    /\ en' = TRUE
    /\ enabled' = TRUE
    /\ TX_ABRT' = FALSE
    /\ STOP_DET' = FALSE
    /\ pc' = "put"
    /\ UNCHANGED <<late, Lock, reqVars, posVars, Status, halting, fifoVars, busVars, wire>>

\* A byte of a write operation is queued; the driver goes on to the next.
PutWrite ==
    /\ WaitOver("put")
    /\ byte < packet[op].len
    /\ ~packet[op].read
    /\ tx' = Push(ByteCmd)
    /\ byte' = byte + 1
    /\ UNCHANGED <<pc, late, Lock, reqVars, op, Status, ctlVars, rx, busVars, intVars,
                   wire>>

\* A read command is queued and its byte waited for.
PutRead ==
    /\ WaitOver("put")
    /\ byte < packet[op].len
    /\ packet[op].read
    /\ tx' = Push(ByteCmd)
    /\ pc' = "get"
    /\ UNCHANGED <<late, Lock, reqVars, posVars, Status, ctlVars, rx, busVars, intVars,
                   wire>>

\* Op->Buffer[ByteIdx] is filled from the receive FIFO.
GetByte ==
    /\ WaitOver("get")
    /\ rx' = Tail(rx)
    /\ byte' = byte + 1
    /\ pc' = "put"
    /\ UNCHANGED <<late, Lock, reqVars, op, Status, ctlVars, tx, busVars, intVars, wire>>

NextOp ==
    /\ pc = "put" /\ ~late
    /\ byte = packet[op].len
    /\ IF op < Len(packet)
       THEN op' = op + 1 /\ byte' = 0 /\ UNCHANGED pc
       ELSE pc' = "drain" /\ UNCHANGED posVars
    /\ UNCHANGED <<late, Lock, reqVars, Status, hwVars, wire>>

\* A slip: a read that timed out is skipped and the loop goes on.
TransferFailsSkipped ==
    /\ WaitFails("put") \/ WaitFails("get")
    /\ late' = FALSE
    /\ byte' = byte + 1
    /\ pc' = "put"
    /\ UNCHANGED <<Lock, reqVars, op, Status, hwVars, wire>>

\* WaitTxData or WaitRxData gives up; DwI2cCheckErrors, which they call when
\* the poll fails, tells an abort from a timeout and clears it.
TransferFails ==
    /\ WaitFails("put") \/ WaitFails("get")
    /\ Status' = IF TX_ABRT THEN "ABORTED" ELSE "TIMEOUT"
    /\ TX_ABRT' = FALSE
    /\ late' = FALSE
    /\ pc' = "abort"
    /\ UNCHANGED <<Lock, reqVars, posVars, ctlVars, fifoVars, busVars, STOP_DET, wire>>

Abort ==
    /\ pc = "abort"
    /\ tx' = Push(AbortCmd)
    /\ pc' = "drain"
    /\ UNCHANGED <<late, Lock, reqVars, posVars, Status, ctlVars, rx, busVars, intVars,
                   wire>>

Drained ==
    /\ WaitOver("drain")
    /\ pc' = "stop"
    /\ UNCHANGED <<late, Lock, reqVars, posVars, Status, hwVars, wire>>

Stopped ==
    /\ WaitOver("stop")
    /\ STOP_DET' = FALSE
    /\ pc' = "errors"
    /\ UNCHANGED <<late, Lock, reqVars, posVars, Status, ctlVars, fifoVars, busVars,
                   TX_ABRT, wire>>

\* DwI2cFinish gives up: Abort the first time, carry on the second.
FinishFails ==
    /\ WaitFails("drain") \/ WaitFails("stop")
    /\ late' = FALSE
    /\ IF Status = "SUCCESS"
       THEN Status' = "TIMEOUT" /\ pc' = "abort"
       ELSE pc' = "errors" /\ UNCHANGED Status
    /\ UNCHANGED <<Lock, reqVars, posVars, hwVars, wire>>

\* A slip: the errors are cleared and not looked at.
CheckErrorsBlind ==
    /\ pc = "errors"
    /\ TX_ABRT' = FALSE
    /\ pc' = "settle"
    /\ UNCHANGED <<late, Lock, reqVars, posVars, Status, ctlVars, fifoVars, busVars,
                   STOP_DET, wire>>

\* DwI2cCheckErrors at the end of the request.  RX_UNDER and RX_OVER cannot
\* be raised: the driver reads one byte for each read command it queues.
CheckErrors ==
    /\ pc = "errors"
    /\ Status' = IF Status = "SUCCESS" /\ TX_ABRT THEN "NO_RESPONSE" ELSE Status
    /\ TX_ABRT' = FALSE
    /\ pc' = "settle"
    /\ UNCHANGED <<late, Lock, reqVars, posVars, ctlVars, fifoVars, busVars, STOP_DET,
                   wire>>

\* The last WaitBusNotBusy, whose result nobody looks at.
Settled ==
    /\ WaitOver("settle") \/ WaitFails("settle")
    /\ late' = FALSE
    /\ pc' = "off"
    /\ UNCHANGED <<Lock, reqVars, posVars, Status, hwVars, wire>>

\* A slip: the controller is left on.
ReturnLeavesOn ==
    /\ pc = "off"
    /\ Lock' = FALSE
    /\ Status' = IF Status = "ABORTED" THEN "NO_RESPONSE" ELSE Status
    /\ pc' = "idle"
    /\ UNCHANGED <<late, reqVars, posVars, hwVars, wire>>

\* DwI2cEnable(0), release the lock, return.
Return ==
    /\ pc = "off"
    /\ Disable
    /\ Lock' = FALSE
    /\ Status' = IF Status = "ABORTED" THEN "NO_RESPONSE" ELSE Status
    /\ pc' = "idle"
    /\ UNCHANGED <<late, reqVars, posVars, tar, busVars, intVars, wire>>
-----------------------------------------------------------------------------
(***************************************************************************)
(* The other two entries of EFI_I2C_MASTER_PROTOCOL.  Neither waits for    *)
(* the bus.                                                                *)
(***************************************************************************)

\* DwI2cReset: DwI2cHwInit leaves the controller off.
Reset ==
    /\ pc = "idle" /\ ~Lock
    /\ Disable
    /\ TX_ABRT' = FALSE
    /\ STOP_DET' = FALSE
    /\ UNCHANGED <<drvVars, tar, busVars, wire>>

\* DwI2cSetBusFrequency: off, IC_CON, and on again; a busy controller still
\* stops at the end of the byte before it is on again.
SetBusFrequency ==
    /\ pc = "idle" /\ ~Lock
    /\ en' = TRUE
    /\ enabled' = TRUE
    /\ halting' = active
    /\ IF active THEN UNCHANGED fifoVars ELSE tx' = <<>> /\ rx' = <<>>
    /\ UNCHANGED <<drvVars, tar, busVars, intVars, wire>>
-----------------------------------------------------------------------------
(***************************************************************************)
(* The controller.                                                         *)
(***************************************************************************)
HwStart ==
    /\ enabled /\ ~halting /\ ~stopping
    /\ cur = <<>> /\ tx # <<>>
    /\ cur' = <<Head(tx)>>
    /\ tx' = Tail(tx)
    /\ active' = TRUE
    /\ UNCHANGED <<drvVars, ctlVars, rx, stopping, intVars, wire>>

\* The byte goes through.  Without STOP the controller holds the bus.
HwDone ==
    /\ cur # <<>>
    /\ cur' = <<>>
    /\ rx' = IF cur[1].read THEN Append(rx, cur[1]) ELSE rx
    /\ wire' = IF cur[1].req = req THEN Append(wire, <<cur[1].op, cur[1].byte>>) ELSE wire
    /\ active' = ~cur[1].stop
    /\ STOP_DET' = (STOP_DET \/ cur[1].stop)
    /\ UNCHANGED <<drvVars, ctlVars, tx, stopping, TX_ABRT>>

\* The slave refuses: what is queued is thrown away, a STOP follows.
HwNack ==
    /\ cur # <<>>
    /\ cur' = <<>>
    /\ tx' = <<>>
    /\ TX_ABRT' = TRUE
    /\ stopping' = TRUE
    /\ UNCHANGED <<drvVars, ctlVars, rx, active, STOP_DET, wire>>

HwStop ==
    /\ stopping
    /\ stopping' = FALSE
    /\ active' = FALSE
    /\ STOP_DET' = TRUE
    /\ UNCHANGED <<drvVars, ctlVars, fifoVars, cur, TX_ABRT, wire>>

\* The end of the byte during which IC_ENABLE was cleared.
HwDisable ==
    /\ halting /\ cur = <<>> /\ ~stopping
    /\ halting' = FALSE
    /\ enabled' = en
    /\ tx' = <<>>
    /\ rx' = <<>>
    /\ active' = FALSE
    /\ UNCHANGED <<drvVars, en, tar, cur, stopping, intVars, wire>>
-----------------------------------------------------------------------------
Init ==
    /\ pc = "idle"
    /\ late = FALSE
    /\ Lock = FALSE
    /\ req = 0
    /\ slave \in Slaves
    /\ packet \in Packets
    /\ op = 1
    /\ byte = 0
    /\ Status = "SUCCESS"
    /\ en = FALSE
    /\ enabled = FALSE
    /\ halting = FALSE
    /\ tar \in Slaves
    /\ tx = <<>>
    /\ cur = <<>>
    /\ rx = <<>>
    /\ active = FALSE
    /\ stopping = FALSE
    /\ TX_ABRT = FALSE
    /\ STOP_DET = FALSE
    /\ wire = <<>>

\* What StartRequest does once it has the lock.
Driver ==
    \/ LastPollFails \/ BusFree \/ BusBusy \/ DisableFirst \/ Setup
    \/ PutWrite \/ PutRead \/ GetByte \/ NextOp \/ TransferFails \/ Abort
    \/ Drained \/ Stopped \/ FinishFails \/ CheckErrors \/ Settled \/ Return

Controller == HwStart \/ HwDone \/ HwNack \/ HwStop \/ HwDisable

Next ==
    \/ \E s \in Slaves, p \in Packets : StartRequest(s, p)
    \/ Driver
    \/ Reset
    \/ SetBusFrequency
    \/ Controller

Spec == Init /\ [][Next]_vars

\* Polling loops are bounded, so the driver gets on; and the slave gives the
\* clock back in the end.
FairSpec == Spec /\ WF_vars(Driver) /\ WF_vars(Controller)
-----------------------------------------------------------------------------
(***************************************************************************)
(* Correctness.                                                            *)
(***************************************************************************)
Transfer == {"put", "get", "abort", "drain", "stop", "errors", "settle", "off"}

\* Every variable has its type.
DwTypeOK ==
    /\ pc \in {"idle", "busy", "disable", "setup"} \cup Transfer
    /\ late \in BOOLEAN
    /\ Lock \in BOOLEAN
    /\ req \in Nat
    /\ slave \in Slaves
    /\ packet \in Packets
    /\ op \in 1 .. Len(packet)
    /\ byte \in 0 .. packet[op].len
    /\ Status \in {"SUCCESS", "TIMEOUT", "ABORTED", "NO_RESPONSE"}
    /\ en \in BOOLEAN
    /\ enabled \in BOOLEAN
    /\ halting \in BOOLEAN
    /\ tar \in Slaves
    /\ tx \in Seq(Cmd)
    /\ cur \in Seq(Cmd) /\ Len(cur) <= 1
    /\ rx \in Seq(Cmd)
    /\ active \in BOOLEAN
    /\ stopping \in BOOLEAN
    /\ TX_ABRT \in BOOLEAN
    /\ STOP_DET \in BOOLEAN
    /\ wire \in Seq(Nat \X Nat)

\* The controller addresses whatever IC_TAR holds when a command reaches the
\* wire, not the slave the command was queued for: a byte of a request, one
\* that was given up included, never goes to the slave of another.
SentToItsSlave == cur # <<>> => cur[1].slave = tar

\* Once StartRequest has set the controller up, no command and no data of an
\* earlier request, given up while the wire was slow, is in the controller.
NothingLeftOver ==
    pc \in Transfer =>
        /\ \A i \in 1 .. Len(tx) : tx[i].req = req
        /\ \A i \in 1 .. Len(cur) : cur[i].req = req
        /\ \A i \in 1 .. Len(rx) : rx[i].req = req

\* DwI2cWaitRxData only asks whether the receive FIFO is empty: what it then
\* stores in Op->Buffer[ByteIdx] is the answer to the read command of that
\* byte.
ReadsOwnByte == (pc = "get" /\ rx # <<>>) => rx = <<ByteCmd>>

\* Between requests, and until the driver has turned it off, the controller
\* is either quiet or about to stop; it is off when IC_TAR is written, and on
\* for the rest of the request.
BusHandedOver ==
    /\ (cur # <<>> \/ stopping) => active
    /\ active \/ halting => enabled
    /\ stopping => cur = <<>>
    /\ (pc \in {"idle", "busy"} /\ ~halting) => ~active /\ tx = <<>>
    /\ pc = "disable" => ~active /\ (~halting => tx = <<>>)
    /\ pc = "setup" => ~enabled /\ tx = <<>> /\ rx = <<>>
    /\ pc \in Transfer => enabled /\ ~halting /\ tar = slave

\* At most one read command or byte is on its way, the one waited for.
NoRead(s) == \A i \in 1 .. Len(s) : ~s[i].read
OneRead ==
    /\ pc = "put" => rx = <<>> /\ NoRead(cur) /\ NoRead(tx)
    /\ pc = "get" => byte < packet[op].len
    /\ pc = "get" =>
        \/ /\ rx = <<>> /\ NoRead(cur)
           /\ \A i \in 1 .. Len(tx) : tx[i].read => tx[i] = ByteCmd /\ i = Len(tx)
        \/ rx = <<>> /\ cur = <<ByteCmd>> /\ NoRead(tx)
        \/ rx = <<ByteCmd>> /\ NoRead(cur) /\ NoRead(tx)

\* The inductive invariant behind the three properties above.
DwInv ==
    /\ BusHandedOver
    /\ OneRead
    /\ NothingLeftOver
    /\ SentToItsSlave
    /\ \A i \in 1 .. Len(tx) : tx[i].slave = tar

\* The bytes of a packet, as <<operation, byte>>, and their order.
Bytes(p)     == UNION {{<<o, b>> : b \in 0 .. p[o].len - 1} : o \in DOMAIN p}
Before(x, y) == x[1] < y[1] \/ (x[1] = y[1] /\ x[2] < y[2])

\* StartRequest returns EFI_SUCCESS only when the slave has taken or given
\* every byte of every operation, in order and once, and the bus is free.
SuccessMeansDone ==
    (pc = "idle" /\ req > 0 /\ Status = "SUCCESS") =>
        /\ {wire[i] : i \in DOMAIN wire} = Bytes(packet)
        /\ \A i, j \in DOMAIN wire : i < j => Before(wire[i], wire[j])
        /\ ~active

\* The controller seen as a bus that serves whole requests.  EFI_SUCCESS, bus
\* free and nothing left over, is the only promise its callers have; a failed
\* request may still move until the bus is quiet.
Bus == INSTANCE I2cBus WITH
    serving <- Lock,
    begun   <- pc \in Transfer,
    live    <- active \/ pc \in Transfer,
    to      <- tar,
    done    <- IF Status # "SUCCESS" THEN "spoilt"
               ELSE IF wire # <<>> /\ {wire[i] : i \in DOMAIN wire} = Bytes(packet)
               THEN "yes" ELSE "no"

\* DwI2cStartRequest, polling a slow controller, keeps the promise of an I2C
\* master: one request on the wire at a time, to its own slave, and success
\* only when it went through.
RefinesI2cBus == Bus!BusSpec

\* The lock is at TPL_NOTIFY: held for ever it would stop every timer and
\* event of the firmware.  Every path through StartRequest gives it back.
LockReleased == Lock ~> ~Lock

\* A request that failed, on a full FIFO or with no STOP on its way, does not
\* keep the bus for ever.
BusFreed == (pc = "idle" /\ active) ~> ~active

\* The comment at Abort, "Send STOP on abort": giving up a request puts no
\* byte on the wire that the caller did not ask for.
AbortSendsOnlyStop == \A i \in DOMAIN wire : wire[i] \in Bytes(packet)
=============================================================================

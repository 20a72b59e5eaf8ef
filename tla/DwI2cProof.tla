----------------------------- MODULE DwI2cProof -----------------------------
(***************************************************************************)
(* For every set of slaves and packets and every FIFO depth, DwI2cDxe      *)
(* sends each byte to the slave it was queued for, starts every request on *)
(* a controller with nothing left over, stores in the caller's buffer the  *)
(* byte it asked for, reports success only when every byte went through in *)
(* order, and so implements I2cBus.                                        *)
(***************************************************************************)
EXTENDS DwI2c, SequenceTheorems, TLAPS

LEMMA PacketType ==
    ASSUME DwTypeOK
    PROVE  /\ packet \in Seq(Op)
           /\ Len(packet) \in Nat
           /\ packet[op] \in Op
           /\ packet[op].len \in Nat
           /\ packet[op].read \in BOOLEAN
  <1>1. packet \in Seq(Op) /\ op \in 1 .. Len(packet)
    BY DwAssumption DEF DwTypeOK
  <1>2. packet[op] \in Op
    BY <1>1
  <1> QED
    BY <1>1, <1>2 DEF Op

LEMMA ByteCmdType ==
    ASSUME DwTypeOK, byte < packet[op].len
    PROVE  ByteCmd \in Cmd
  <1>1. op \in Nat /\ byte \in Nat /\ req \in Nat /\ slave \in Slaves
    BY PacketType DEF DwTypeOK
  <1>2. packet[op].read \in BOOLEAN
    BY PacketType
  <1> QED
    BY <1>1, <1>2 DEF ByteCmd, Cmd

LEMMA AbortCmdType ==
    ASSUME DwTypeOK
    PROVE  AbortCmd \in Cmd
  BY DEF AbortCmd, Cmd, DwTypeOK

LEMMA PushType ==
    ASSUME DwTypeOK, NEW c \in Cmd
    PROVE  Push(c) \in Seq(Cmd)
  BY DEF Push, DwTypeOK

LEMMA EmptySeqs ==
    /\ <<>> \in Seq(Cmd)
    /\ <<>> \in Seq(Nat \X Nat)
    /\ Len(<<>>) <= 1
  OBVIOUS

LEMMA TypeInit == Init => DwTypeOK
  <1> SUFFICES ASSUME Init PROVE DwTypeOK
    OBVIOUS
  <1>1. packet \in Seq(Op) /\ Len(packet) \in Nat /\ packet # <<>>
    BY DwAssumption DEF Init
  <1>2. 1 \in 1 .. Len(packet)
    BY <1>1
  <1>3. packet[1] \in Op
    BY <1>1, <1>2
  <1>4. packet[1].len \in Nat
    BY <1>3 DEF Op
  <1>5. 0 \in 0 .. packet[1].len
    BY <1>4
  <1>6. op \in 1 .. Len(packet) /\ byte \in 0 .. packet[op].len
    BY <1>2, <1>5 DEF Init
  <1> QED
    BY <1>6, EmptySeqs DEF Init, DwTypeOK

LEMMA TypeNext == DwTypeOK /\ OneRead /\ [Next]_vars => DwTypeOK'
  <1> SUFFICES ASSUME DwTypeOK, OneRead, [Next]_vars PROVE DwTypeOK'
    OBVIOUS
  <1> USE DEF drvVars, hwVars, reqVars, posVars, ctlVars, fifoVars, busVars, intVars
  <1>p. packet \in Seq(Op) /\ packet[op].len \in Nat /\ Len(packet) \in Nat
    BY PacketType
  <1>1. ASSUME NEW s \in Slaves, NEW p \in Packets, StartRequest(s, p)
        PROVE  DwTypeOK'
    <2>1. p \in Seq(Op) /\ Len(p) \in Nat /\ p # <<>>
      BY DwAssumption
    <2>2. 1 \in 1 .. Len(p)
      BY <2>1
    <2>3. p[1] \in Op
      BY <2>1, <2>2
    <2>4. 0 \in 0 .. p[1].len
      BY <2>3 DEF Op
    <2> QED
      BY <1>1, <2>2, <2>4 DEF StartRequest, DwTypeOK, Transfer
  <1>2. CASE LastPollFails
    BY <1>2 DEF LastPollFails, DwTypeOK
  <1>3. CASE BusFree
    BY <1>3 DEF BusFree, DwTypeOK, Transfer
  <1>22. CASE Drained
    BY <1>22 DEF Drained, DwTypeOK, Transfer
  <1>23. CASE Settled
    BY <1>23 DEF Settled, DwTypeOK, Transfer
  <1>21. CASE BusBusy
    BY <1>21 DEF BusBusy, DwTypeOK
  <1>15. CASE Stopped
    BY <1>15 DEF Stopped, DwTypeOK, Transfer
  <1>16. CASE FinishFails
    <2>1. Status' \in {"SUCCESS", "TIMEOUT", "ABORTED", "NO_RESPONSE"} /\ pc' \in Transfer
      BY <1>16 DEF FinishFails, DwTypeOK, Transfer
    <2> QED
      BY <1>16, <2>1 DEF FinishFails, DwTypeOK
  <1>17. CASE CheckErrors
    <2>1. Status' \in {"SUCCESS", "TIMEOUT", "ABORTED", "NO_RESPONSE"}
      BY <1>17 DEF CheckErrors, DwTypeOK
    <2> QED
      BY <1>17, <2>1 DEF CheckErrors, DwTypeOK, Transfer
  <1>18. CASE TransferFails
    <2>1. Status' \in {"SUCCESS", "TIMEOUT", "ABORTED", "NO_RESPONSE"}
      BY <1>18 DEF TransferFails, DwTypeOK
    <2> QED
      BY <1>18, <2>1 DEF TransferFails, DwTypeOK, Transfer
  <1>4. CASE DisableFirst \/ Return \/ Reset \/ SetBusFrequency
    <2>1. tx' \in {tx, <<>>} /\ rx' \in {rx, <<>>}
      BY <1>4 DEF DisableFirst, Return, Reset, SetBusFrequency, Disable
    <2>2. tx' \in Seq(Cmd) /\ rx' \in Seq(Cmd)
      BY <2>1, EmptySeqs DEF DwTypeOK
    <2>3. en' \in BOOLEAN /\ enabled' \in BOOLEAN /\ halting' \in BOOLEAN
      BY <1>4, Zenon DEF DisableFirst, Return, Reset, SetBusFrequency, Disable, DwTypeOK
    <2>4. CASE DisableFirst
      BY <2>4, <2>2, <2>3 DEF DisableFirst, DwTypeOK, Transfer
    <2>5. CASE Return
      <3>1. Status' \in {"SUCCESS", "TIMEOUT", "ABORTED", "NO_RESPONSE"}
        BY <2>5 DEF Return, DwTypeOK
      <3> QED
        BY <2>5, <2>2, <2>3, <3>1 DEF Return, DwTypeOK
    <2>6. CASE Reset
      BY <2>6, <2>2, <2>3 DEF Reset, DwTypeOK
    <2>7. CASE SetBusFrequency
      BY <2>7, <2>2, <2>3 DEF SetBusFrequency, DwTypeOK
    <2> QED
      BY <1>4, <2>4, <2>5, <2>6, <2>7
  <1>5. CASE Setup
    BY <1>5 DEF Setup, DwTypeOK, Transfer
  <1>6. CASE PutWrite
    <2>1. tx' \in Seq(Cmd)
      BY <1>6, ByteCmdType, PushType DEF PutWrite
    <2>2. byte' \in 0 .. packet[op].len
      BY <1>6, <1>p DEF PutWrite, DwTypeOK
    <2> QED
      BY <1>6, <2>1, <2>2 DEF PutWrite, DwTypeOK
  <1>7. CASE PutRead
    <2>1. tx' \in Seq(Cmd)
      BY <1>7, ByteCmdType, PushType DEF PutRead
    <2> QED
      BY <1>7, <2>1 DEF PutRead, DwTypeOK, Transfer
  <1>9. CASE NextOp
    <2>1. CASE op < Len(packet)
      <3>1. op' \in 1 .. Len(packet) /\ byte' = 0
        BY <1>9, <2>1, <1>p DEF NextOp, DwTypeOK
      <3>2. packet[op'] \in Op
        BY <3>1, <1>p
      <3>3. byte' \in 0 .. packet[op'].len
        BY <3>1, <3>2 DEF Op
      <3> QED
        BY <1>9, <2>1, <3>1, <3>3 DEF NextOp, DwTypeOK, Transfer
    <2>2. CASE ~(op < Len(packet))
      BY <1>9, <2>2 DEF NextOp, DwTypeOK, Transfer
    <2> QED
      BY <2>1, <2>2
  <1>10. CASE Abort
    <2>1. tx' \in Seq(Cmd)
      BY <1>10, AbortCmdType, PushType DEF Abort
    <2> QED
      BY <1>10, <2>1 DEF Abort, DwTypeOK, Transfer
  <1>11. CASE HwStart
    <2>1. Head(tx) \in Cmd /\ Tail(tx) \in Seq(Cmd)
      BY <1>11 DEF HwStart, DwTypeOK
    <2>2. <<Head(tx)>> \in Seq(Cmd) /\ Len(<<Head(tx)>>) <= 1
      BY <2>1
    <2> QED
      BY <1>11, <2>1, <2>2 DEF HwStart, DwTypeOK
  <1>12. CASE HwDone
    <2>1. cur[1] \in Cmd
      BY <1>12 DEF HwDone, DwTypeOK
    <2>2. rx' \in Seq(Cmd)
      BY <1>12, <2>1 DEF HwDone, DwTypeOK
    <2>3. <<cur[1].op, cur[1].byte>> \in Nat \X Nat
      BY <2>1 DEF Cmd
    <2>4. wire' \in Seq(Nat \X Nat)
      BY <1>12, <2>3 DEF HwDone, DwTypeOK
    <2>5. active' \in BOOLEAN /\ STOP_DET' \in BOOLEAN
      BY <1>12, <2>1 DEF HwDone, DwTypeOK, Cmd
    <2>6. cur' \in Seq(Cmd) /\ Len(cur') <= 1
      BY <1>12 DEF HwDone
    <2> QED
      BY <1>12, <2>2, <2>4, <2>5, <2>6 DEF HwDone, DwTypeOK
  <1>13. CASE HwNack
    BY <1>13, EmptySeqs DEF HwNack, DwTypeOK
  <1>19. CASE HwStop
    BY <1>19 DEF HwStop, DwTypeOK
  <1>20. CASE HwDisable
    BY <1>20, EmptySeqs DEF HwDisable, DwTypeOK
  <1>14. CASE UNCHANGED vars
    BY <1>14 DEF vars, DwTypeOK
  <1>8. CASE GetByte
    <2>1. byte < packet[op].len
      BY <1>8 DEF GetByte, WaitOver, OneRead
    <2>2. byte' \in 0 .. packet[op].len
      BY <1>8, <2>1, <1>p DEF GetByte, DwTypeOK
    <2>3. rx' \in Seq(Cmd)
      BY <1>8 DEF GetByte, WaitOver, Ready, DwTypeOK
    <2> QED
      BY <1>8, <2>2, <2>3 DEF GetByte, DwTypeOK, Transfer
  <1> QED
    BY <1>1, <1>2, <1>3, <1>4, <1>5, <1>6, <1>7, <1>8, <1>9, <1>10, <1>11, <1>12, <1>13,
       <1>14, <1>15, <1>16, <1>17, <1>18, <1>19, <1>20, <1>21, <1>22, <1>23
    DEF Next, Driver, Controller
-----------------------------------------------------------------------------
\* Turning the controller off: it is idle and empty, or about to stop.
LEMMA DisableEffect ==
    ASSUME DwTypeOK, Disable
    PROVE  /\ active => halting' /\ enabled' = enabled /\ tx' = tx /\ rx' = rx
           /\ ~active => ~halting' /\ ~enabled' /\ tx' = <<>> /\ rx' = <<>>
  BY DEF Disable, DwTypeOK, fifoVars

LEMMA HandedOverNext ==
    DwTypeOK /\ BusHandedOver /\ [Next]_vars => BusHandedOver'
  <1> SUFFICES ASSUME DwTypeOK, BusHandedOver, [Next]_vars PROVE BusHandedOver'
    OBVIOUS
  <1> USE DEF drvVars, hwVars, reqVars, posVars, ctlVars, fifoVars, busVars, intVars
  <1>1. ASSUME NEW s \in Slaves, NEW p \in Packets, StartRequest(s, p)
        PROVE  BusHandedOver'
    BY <1>1 DEF StartRequest, BusHandedOver, Transfer
  <1>2. CASE LastPollFails \/ NextOp \/ TransferFails
    BY <1>2 DEF LastPollFails, NextOp, TransferFails, WaitFails, BusHandedOver, Transfer
  <1>3. CASE BusFree
    BY <1>3 DEF BusFree, WaitOver, Ready, BusHandedOver, Transfer
  <1>4. CASE BusBusy
    BY <1>4 DEF BusBusy, WaitFails, BusHandedOver, Transfer
  <1>5. CASE DisableFirst
    <2>1. ~active /\ ~halting' /\ ~enabled' /\ tx' = <<>> /\ rx' = <<>>
      BY <1>5, DisableEffect DEF DisableFirst, BusHandedOver
    <2> QED
      BY <1>5, <2>1 DEF DisableFirst, BusHandedOver, Transfer
  <1>6. CASE Setup
    <2>1. ~enabled /\ ~active /\ ~halting
      BY <1>6 DEF Setup, BusHandedOver
    <2> QED
      BY <1>6, <2>1 DEF Setup, BusHandedOver, Transfer
  <1>7. CASE PutWrite \/ PutRead \/ GetByte \/ Abort
    BY <1>7 DEF PutWrite, PutRead, GetByte, Abort, WaitOver, BusHandedOver, Transfer
  <1>8. CASE Drained \/ Stopped \/ FinishFails \/ CheckErrors \/ Settled
    BY <1>8 DEF Drained, Stopped, FinishFails, CheckErrors, Settled, WaitOver, WaitFails,
                BusHandedOver, Transfer
  <1>9. CASE Return \/ Reset
    BY <1>9, DisableEffect DEF Return, Reset, BusHandedOver, Transfer
  <1>10. CASE SetBusFrequency
    BY <1>10 DEF SetBusFrequency, BusHandedOver, Transfer
  <1>11. CASE HwStart
    BY <1>11 DEF HwStart, BusHandedOver
  <1>12. CASE HwDone
    BY <1>12 DEF HwDone, BusHandedOver
  <1>13. CASE HwNack \/ HwStop
    BY <1>13 DEF HwNack, HwStop, BusHandedOver
  <1>14. CASE HwDisable
    BY <1>14 DEF HwDisable, BusHandedOver
  <1>15. CASE UNCHANGED vars
    BY <1>15 DEF vars, BusHandedOver
  <1> QED
    BY <1>1, <1>2, <1>3, <1>4, <1>5, <1>6, <1>7, <1>8, <1>9, <1>10, <1>11, <1>12, <1>13,
       <1>14, <1>15 DEF Next, Driver, Controller
-----------------------------------------------------------------------------
\* What a push and a start leave in the transmit FIFO.
LEMMA PushEffect ==
    ASSUME DwTypeOK, NEW c \in Cmd, NEW i \in 1 .. Len(Push(c))
    PROVE  \/ i \in 1 .. Len(tx) /\ Push(c)[i] = tx[i]
           \/ i = Len(Push(c)) /\ Push(c)[i] = c
  BY DEF Push, DwTypeOK

LEMMA TailEffect ==
    ASSUME DwTypeOK, tx # <<>>, NEW i \in 1 .. Len(Tail(tx))
    PROVE  /\ i + 1 \in 1 .. Len(tx)
           /\ Tail(tx)[i] = tx[i + 1]
           /\ i + 1 = Len(tx) => i = Len(Tail(tx))
  BY DEF DwTypeOK

LEMMA HeadEffect ==
    ASSUME DwTypeOK, tx # <<>>
    PROVE  1 \in 1 .. Len(tx) /\ Head(tx) = tx[1]
  BY DEF DwTypeOK

\* The commands in the controller are for the slave IC_TAR holds.
QueuedForTar == SentToItsSlave /\ \A i \in 1 .. Len(tx) : tx[i].slave = tar

LEMMA QueuedForTarNext ==
    DwTypeOK /\ BusHandedOver /\ QueuedForTar /\ [Next]_vars => QueuedForTar'
  <1> SUFFICES ASSUME DwTypeOK, BusHandedOver, QueuedForTar, [Next]_vars
               PROVE  QueuedForTar'
    OBVIOUS
  <1> USE DEF drvVars, hwVars, reqVars, posVars, ctlVars, fifoVars, busVars, intVars
  <1>1. CASE UNCHANGED <<cur, tx, tar>>
    BY <1>1 DEF QueuedForTar, SentToItsSlave
  <1>2. CASE cur' = cur /\ tar' = tar /\ tx' = <<>>
    BY <1>2 DEF QueuedForTar, SentToItsSlave
  <1>3. CASE Setup
    <2>1. tx' = <<>> /\ cur' = <<>>
      BY <1>3 DEF Setup, BusHandedOver
    <2> QED
      BY <2>1 DEF QueuedForTar, SentToItsSlave
  <1>4. ASSUME NEW c \in Cmd, c.slave = slave, tx' = Push(c), UNCHANGED <<cur, tar>>,
               pc \in Transfer
        PROVE  QueuedForTar'
    <2>1. c.slave = tar
      BY <1>4 DEF BusHandedOver
    <2>2. ASSUME NEW i \in 1 .. Len(tx') PROVE tx'[i].slave = tar
      BY <1>4, <2>1, <2>2, PushEffect DEF QueuedForTar
    <2> QED
      BY <1>4, <2>2 DEF QueuedForTar, SentToItsSlave
  <1>5. CASE PutWrite \/ PutRead
    <2>1. ByteCmd \in Cmd /\ ByteCmd.slave = slave
      BY <1>5, ByteCmdType DEF PutWrite, PutRead, ByteCmd
    <2> QED
      BY <1>5, <2>1, <1>4 DEF PutWrite, PutRead, WaitOver, Transfer
  <1>6. CASE Abort
    <2>1. AbortCmd \in Cmd /\ AbortCmd.slave = slave
      BY AbortCmdType DEF AbortCmd
    <2> QED
      BY <1>6, <2>1, <1>4 DEF Abort, Transfer
  <1>7. CASE HwStart
    <2>1. cur' = <<tx[1]>> /\ 1 \in 1 .. Len(tx)
      BY <1>7, HeadEffect DEF HwStart
    <2>2. SentToItsSlave'
      BY <1>7, <2>1 DEF HwStart, QueuedForTar, SentToItsSlave
    <2>3. ASSUME NEW i \in 1 .. Len(tx') PROVE tx'[i].slave = tar'
      BY <1>7, <2>3, TailEffect DEF HwStart, QueuedForTar
    <2> QED
      BY <2>2, <2>3 DEF QueuedForTar
  <1>8. CASE HwDone \/ HwNack
    BY <1>8 DEF HwDone, HwNack, QueuedForTar, SentToItsSlave
  <1>9. CASE DisableFirst \/ Return \/ Reset
    BY <1>9, DisableEffect, <1>1, <1>2 DEF DisableFirst, Return, Reset, DwTypeOK
  <1>10. CASE SetBusFrequency \/ HwDisable
    BY <1>10, <1>1, <1>2 DEF SetBusFrequency, HwDisable
  <1>11. CASE \/ \E s \in Slaves, p \in Packets : StartRequest(s, p)
              \/ LastPollFails \/ BusFree \/ BusBusy \/ GetByte \/ NextOp \/ TransferFails
              \/ Drained \/ Stopped \/ FinishFails \/ CheckErrors \/ Settled
              \/ HwStop \/ UNCHANGED vars
    BY <1>11, <1>1 DEF StartRequest, LastPollFails, BusFree, BusBusy, GetByte, NextOp,
       TransferFails, Drained, Stopped, FinishFails, CheckErrors, Settled, HwStop, vars
  <1> QED
    BY <1>3, <1>5, <1>6, <1>7, <1>8, <1>9, <1>10, <1>11 DEF Next, Driver, Controller

LEMMA NothingLeftOverNext ==
    DwTypeOK /\ BusHandedOver /\ NothingLeftOver /\ [Next]_vars => NothingLeftOver'
  <1> SUFFICES ASSUME DwTypeOK, BusHandedOver, NothingLeftOver, [Next]_vars,
                      pc' \in Transfer
               PROVE  /\ \A i \in 1 .. Len(tx') : tx'[i].req = req'
                      /\ \A i \in 1 .. Len(cur') : cur'[i].req = req'
                      /\ \A i \in 1 .. Len(rx') : rx'[i].req = req'
    BY DEF NothingLeftOver
  <1> DEFINE Goal == /\ \A i \in 1 .. Len(tx') : tx'[i].req = req'
                     /\ \A i \in 1 .. Len(cur') : cur'[i].req = req'
                     /\ \A i \in 1 .. Len(rx') : rx'[i].req = req'
  <1> USE DEF drvVars, hwVars, reqVars, posVars, ctlVars, fifoVars, busVars, intVars
  <1>1. CASE pc \in Transfer /\ UNCHANGED <<tx, cur, rx, req>>
    BY <1>1 DEF NothingLeftOver
  <1>2. CASE Setup
    <2>1. tx' = <<>> /\ cur' = <<>> /\ rx' = <<>>
      BY <1>2 DEF Setup, BusHandedOver
    <2> QED
      BY <2>1
  <1>3. ASSUME NEW c \in Cmd, c.req = req, tx' = Push(c), UNCHANGED <<cur, rx, req>>,
               pc \in Transfer
        PROVE  Goal
    <2>1. ASSUME NEW i \in 1 .. Len(tx') PROVE tx'[i].req = req
      BY <1>3, <2>1, PushEffect DEF NothingLeftOver
    <2> QED
      BY <1>3, <2>1 DEF NothingLeftOver
  <1>4. CASE PutWrite \/ PutRead
    <2>1. ByteCmd \in Cmd /\ ByteCmd.req = req
      BY <1>4, ByteCmdType DEF PutWrite, PutRead, ByteCmd
    <2> QED
      BY <1>4, <2>1, <1>3 DEF PutWrite, PutRead, WaitOver, Transfer
  <1>5. CASE Abort
    <2>1. AbortCmd \in Cmd /\ AbortCmd.req = req
      BY AbortCmdType DEF AbortCmd
    <2> QED
      BY <1>5, <2>1, <1>3 DEF Abort, Transfer
  <1>6. CASE GetByte
    <2>1. pc \in Transfer /\ rx # <<>> /\ UNCHANGED <<tx, cur, req>> /\ rx' = Tail(rx)
      BY <1>6 DEF GetByte, WaitOver, Ready, Transfer
    <2>2. ASSUME NEW i \in 1 .. Len(rx') PROVE rx'[i].req = req
      <3>1. i + 1 \in 1 .. Len(rx) /\ Tail(rx)[i] = rx[i + 1]
        BY <2>1, <2>2 DEF DwTypeOK
      <3> QED
        BY <2>1, <3>1 DEF NothingLeftOver
    <2> QED
      BY <2>1, <2>2 DEF NothingLeftOver
  <1>7. CASE HwStart
    <2>1. pc \in Transfer /\ tx # <<>> /\ UNCHANGED <<rx, req>> /\ tx' = Tail(tx)
          /\ cur' = <<tx[1]>> /\ 1 \in 1 .. Len(tx)
      BY <1>7, HeadEffect DEF HwStart
    <2>2. ASSUME NEW i \in 1 .. Len(tx') PROVE tx'[i].req = req
      BY <2>1, <2>2, TailEffect DEF NothingLeftOver
    <2> QED
      BY <2>1, <2>2 DEF NothingLeftOver
  <1>8. CASE HwDone
    <2>1. pc \in Transfer /\ UNCHANGED <<tx, req>> /\ cur' = <<>> /\ 1 \in 1 .. Len(cur)
          /\ cur[1] \in Cmd /\ rx' = IF cur[1].read THEN Append(rx, cur[1]) ELSE rx
      BY <1>8 DEF HwDone, DwTypeOK
    <2>2. ASSUME NEW i \in 1 .. Len(rx') PROVE rx'[i].req = req
      BY <2>1, <2>2 DEF NothingLeftOver, DwTypeOK
    <2> QED
      BY <2>1, <2>2 DEF NothingLeftOver
  <1>9. CASE HwNack
    BY <1>9 DEF HwNack, NothingLeftOver
  <1>10. CASE HwDisable
    BY <1>10 DEF HwDisable, BusHandedOver
  <1>11. CASE \/ \E s \in Slaves, p \in Packets : StartRequest(s, p)
              \/ BusFree \/ BusBusy \/ DisableFirst \/ Return
    BY <1>11 DEF StartRequest, BusFree, BusBusy, DisableFirst, Return, Transfer
  <1>12. CASE Reset \/ SetBusFrequency
    BY <1>12 DEF Reset, SetBusFrequency, Transfer
  <1>13. CASE LastPollFails \/ HwStop \/ UNCHANGED vars
    BY <1>13, <1>1 DEF LastPollFails, HwStop, vars
  <1>14. CASE NextOp \/ TransferFails \/ Drained \/ Stopped \/ FinishFails
              \/ CheckErrors \/ Settled
    <2>1. pc \in Transfer
      BY <1>14 DEF NextOp, TransferFails, Drained, Stopped, FinishFails, CheckErrors,
                   Settled, WaitOver, WaitFails, Transfer
    <2>2. UNCHANGED <<tx, cur, rx, req>>
      BY <1>14 DEF NextOp, TransferFails, Drained, Stopped, FinishFails, CheckErrors,
                   Settled
    <2> QED
      BY <2>1, <2>2, <1>1
  <1> QED
    BY <1>2, <1>4, <1>5, <1>6, <1>7, <1>8, <1>9, <1>10, <1>11, <1>12, <1>13, <1>14
    DEF Next, Driver, Controller

\* The read command waited for is the last one in the transmit FIFO, on the
\* wire, or its byte is in the receive FIFO.
ReadQueued ==
    /\ rx = <<>> /\ NoRead(cur)
    /\ \A i \in 1 .. Len(tx) : tx[i].read => tx[i] = ByteCmd /\ i = Len(tx)
ReadOnWire == rx = <<>> /\ cur = <<ByteCmd>> /\ NoRead(tx)
ReadBack   == rx = <<ByteCmd>> /\ NoRead(cur) /\ NoRead(tx)

LEMMA OneReadNext ==
    DwTypeOK /\ BusHandedOver /\ OneRead /\ [Next]_vars => OneRead'
  <1> SUFFICES ASSUME DwTypeOK, BusHandedOver, OneRead, [Next]_vars PROVE OneRead'
    OBVIOUS
  <1> USE DEF drvVars, hwVars, reqVars, posVars, ctlVars, fifoVars, busVars, intVars
  <1>g. ASSUME pc = "get"
        PROVE  byte < packet[op].len /\ (ReadQueued \/ ReadOnWire \/ ReadBack)
    BY <1>g DEF OneRead, ReadQueued, ReadOnWire, ReadBack
  <1>1. CASE pc' \notin {"put", "get"}
    BY <1>1 DEF OneRead
  <1>2. CASE UNCHANGED <<pc, tx, cur, rx, reqVars, posVars>>
    BY <1>2 DEF OneRead, NoRead, ByteCmd
  <1>3. CASE Setup
    <2>1. tx' = <<>> /\ cur' = <<>> /\ rx' = <<>> /\ pc' = "put"
      BY <1>3 DEF Setup, BusHandedOver
    <2> QED
      BY <2>1 DEF OneRead, NoRead
  <1>4. CASE PutWrite
    <2>1. pc = "put" /\ pc' = "put" /\ rx' = <<>> /\ cur' = cur /\ NoRead(cur) /\ NoRead(tx)
          /\ tx' = Push(ByteCmd) /\ ByteCmd \in Cmd /\ ~ByteCmd.read
      BY <1>4, ByteCmdType DEF PutWrite, WaitOver, OneRead, ByteCmd
    <2>2. ASSUME NEW i \in 1 .. Len(tx') PROVE ~tx'[i].read
      BY <2>1, <2>2, PushEffect DEF NoRead
    <2> QED
      BY <2>1, <2>2 DEF OneRead, NoRead
  <1>5. CASE PutRead
    <2>1. pc' = "get" /\ rx' = <<>> /\ cur' = cur /\ NoRead(cur) /\ NoRead(tx)
          /\ tx' = Push(ByteCmd) /\ ByteCmd \in Cmd /\ byte < packet[op].len
          /\ UNCHANGED <<op, byte, packet, slave, req>>
      BY <1>5, ByteCmdType DEF PutRead, WaitOver, OneRead
    <2>2. ASSUME NEW i \in 1 .. Len(tx'), tx'[i].read
          PROVE  tx'[i] = ByteCmd /\ i = Len(tx')
      BY <2>1, <2>2, PushEffect DEF NoRead
    <2>3. ByteCmd' = ByteCmd
      BY <2>1 DEF ByteCmd
    <2> QED
      BY <2>1, <2>2, <2>3 DEF OneRead, NoRead
  <1>6. CASE GetByte
    <2>1. ReadBack
      BY <1>6, <1>g DEF GetByte, WaitOver, Ready, ReadQueued, ReadOnWire
    <2>2. Tail(<<ByteCmd>>) = <<>>
      OBVIOUS
    <2>3. rx' = <<>> /\ UNCHANGED <<tx, cur>> /\ pc' = "put"
      BY <1>6, <2>1, <2>2 DEF GetByte, ReadBack
    <2> QED
      BY <2>1, <2>3 DEF OneRead, NoRead, ReadBack
  <1>7. CASE NextOp
    BY <1>7 DEF NextOp, OneRead, NoRead
  <1>8. CASE HwStart
    <2>1. cur = <<>> /\ tx # <<>> /\ cur' = <<tx[1]>> /\ tx' = Tail(tx) /\ rx' = rx
          /\ 1 \in 1 .. Len(tx) /\ UNCHANGED <<pc, op, byte, packet, slave, req>>
      BY <1>8, HeadEffect DEF HwStart
    <2>2. ByteCmd' = ByteCmd
      BY <2>1 DEF ByteCmd
    <2>3. ASSUME NoRead(tx) PROVE NoRead(cur') /\ NoRead(tx')
      BY <2>1, <2>3, TailEffect DEF NoRead
    <2>4. CASE pc = "put"
      BY <2>1, <2>3, <2>4 DEF OneRead
    <2>5. CASE pc = "get" /\ ReadBack
      BY <2>1, <2>2, <2>3, <2>5, <1>g DEF OneRead, ReadBack
    <2>6. CASE pc = "get" /\ ReadQueued
      <3>1. CASE tx[1].read
        <4>1. tx[1] = ByteCmd /\ Len(tx) = 1
          BY <3>1, <2>1, <2>6 DEF ReadQueued
        <4>2. Len(tx') = 0
          BY <4>1, <2>1 DEF DwTypeOK
        <4>3. NoRead(tx') /\ cur' = <<ByteCmd>> /\ rx' = <<>>
          BY <4>1, <4>2, <2>1, <2>6 DEF NoRead, ReadQueued
        <4> QED
          BY <4>3, <2>1, <2>2, <2>6, <1>g DEF OneRead, NoRead
      <3>2. CASE ~tx[1].read
        <4>1. NoRead(cur')
          BY <3>2, <2>1 DEF NoRead
        <4>2. ASSUME NEW i \in 1 .. Len(tx'), tx'[i].read
              PROVE  tx'[i] = ByteCmd /\ i = Len(tx')
          BY <4>2, <2>1, <2>6, TailEffect DEF ReadQueued
        <4> QED
          BY <4>1, <4>2, <2>1, <2>2, <2>6, <1>g DEF OneRead, NoRead, ReadQueued
      <3> QED
        BY <3>1, <3>2
    <2>7. ~ReadOnWire
      BY <2>1 DEF ReadOnWire
    <2> QED
      BY <2>1, <2>4, <2>5, <2>6, <2>7, <1>g, <1>1
  <1>9. CASE HwDone
    <2>1. cur # <<>> /\ cur' = <<>> /\ tx' = tx /\ 1 \in 1 .. Len(cur)
          /\ rx' = (IF cur[1].read THEN Append(rx, cur[1]) ELSE rx)
          /\ UNCHANGED <<pc, op, byte, packet, slave, req>>
      BY <1>9 DEF HwDone, DwTypeOK
    <2>2. ByteCmd' = ByteCmd
      BY <2>1 DEF ByteCmd
    <2>3. CASE NoRead(cur)
      <3>1. rx' = rx /\ NoRead(cur')
        BY <2>1, <2>3 DEF NoRead
      <3> QED
        BY <3>1, <2>1, <2>2, <2>3, <1>g, <1>1
        DEF OneRead, NoRead, ReadQueued, ReadOnWire, ReadBack
    <2>4. CASE pc = "get" /\ ReadOnWire
      <3>1. cur[1] = ByteCmd /\ rx = <<>>
        BY <2>4 DEF ReadOnWire
      <3>2. rx' = <<ByteCmd>> \/ rx' = <<>>
        BY <3>1, <2>1
      <3> QED
        BY <3>2, <2>1, <2>2, <2>4, <1>g DEF OneRead, NoRead, ReadOnWire
    <2> QED
      BY <2>1, <2>3, <2>4, <1>g, <1>1 DEF OneRead, ReadQueued, ReadBack
  <1>10. CASE HwNack
    <2>1. cur' = <<>> /\ tx' = <<>> /\ rx' = rx
          /\ UNCHANGED <<pc, op, byte, packet, slave, req>>
      BY <1>10 DEF HwNack
    <2>2. ByteCmd' = ByteCmd
      BY <2>1 DEF ByteCmd
    <2> QED
      BY <2>1, <2>2, <1>g DEF OneRead, NoRead, ReadQueued, ReadOnWire, ReadBack
  <1>11. CASE HwDisable
    BY <1>11, <1>1 DEF HwDisable, BusHandedOver, Transfer
  <1>12. CASE \/ \E s \in Slaves, p \in Packets : StartRequest(s, p)
              \/ BusFree \/ BusBusy \/ DisableFirst \/ TransferFails \/ Abort \/ Drained
              \/ Stopped \/ FinishFails \/ CheckErrors \/ Settled \/ Return
              \/ Reset \/ SetBusFrequency
    BY <1>12, <1>1 DEF StartRequest, BusFree, BusBusy, DisableFirst, TransferFails, Abort,
       Drained, Stopped, FinishFails, CheckErrors, Settled, Return, Reset, SetBusFrequency
  <1>13. CASE LastPollFails \/ HwStop \/ UNCHANGED vars
    BY <1>13, <1>2 DEF LastPollFails, HwStop, vars
  <1> QED
    BY <1>3, <1>4, <1>5, <1>6, <1>7, <1>8, <1>9, <1>10, <1>11, <1>12, <1>13
    DEF Next, Driver, Controller
-----------------------------------------------------------------------------
LEMMA DwInvInit == Init => DwInv
  BY EmptySeqs DEF Init, DwInv, BusHandedOver, OneRead, NothingLeftOver, SentToItsSlave,
                   Transfer

LEMMA DwInvNext == DwTypeOK /\ DwInv /\ [Next]_vars => DwTypeOK' /\ DwInv'
  <1> SUFFICES ASSUME DwTypeOK, DwInv, [Next]_vars PROVE DwTypeOK' /\ DwInv'
    OBVIOUS
  <1>1. BusHandedOver /\ OneRead /\ NothingLeftOver /\ QueuedForTar
    BY DEF DwInv, QueuedForTar
  <1>2. DwTypeOK'
    BY <1>1, TypeNext
  <1>3. BusHandedOver' /\ OneRead' /\ NothingLeftOver' /\ QueuedForTar'
    BY <1>1, HandedOverNext, OneReadNext, NothingLeftOverNext, QueuedForTarNext
  <1> QED
    BY <1>2, <1>3 DEF DwInv, QueuedForTar

\* Every behaviour of the driver and the controller keeps the types, and the
\* hand-over of the controller between requests in order.
THEOREM DwInvariant == Spec => [](DwTypeOK /\ DwInv)
  BY TypeInit, DwInvInit, DwInvNext, PTL DEF Spec

\* Every variable keeps its type; OpIdx and ByteIdx stay inside the packet.
THEOREM DwTypeCorrect == Spec => []DwTypeOK
  BY DwInvariant, PTL

\* A byte queued for a slave goes to that slave, whatever was given up before.
THEOREM SentCorrect == Spec => []SentToItsSlave
  <1>1. DwInv => SentToItsSlave
    BY DEF DwInv
  <1> QED
    BY <1>1, DwInvariant, PTL

\* A request starts on a controller with nothing of an earlier one in it.
THEOREM LeftOverCorrect == Spec => []NothingLeftOver
  <1>1. DwInv => NothingLeftOver
    BY DEF DwInv
  <1> QED
    BY <1>1, DwInvariant, PTL

\* The byte stored in the caller's buffer answers the read it is stored for.
THEOREM ReadCorrect == Spec => []ReadsOwnByte
  <1>1. DwInv => ReadsOwnByte
    BY DEF DwInv, OneRead, ReadsOwnByte
  <1> QED
    BY <1>1, DwInvariant, PTL
-----------------------------------------------------------------------------
(***************************************************************************)
(* The bytes of the current request as one stream, from the first one that *)
(* went through to the last one queued.                                    *)
(***************************************************************************)
Place(c)   == <<c.op, c.byte>>
Places(s)  == [i \in 1 .. Len(s) |-> Place(s[i])]
Stream     == (wire \o Places(cur)) \o Places(tx)
InOrder(s) == \A i, j \in DOMAIN s : i < j => Before(s[i], s[j])
All(s)     == {s[i] : i \in DOMAIN s}

\* The byte that STOP goes with.
LastByte == <<Len(packet), packet[Len(packet)].len - 1>>

\* What the loop over the operations has queued.
QueuedTo(p, o, b) == {x \in Bytes(p) : Before(x, <<o, b>>)}
NextByte == IF pc = "get" THEN byte + 1 ELSE byte
Queued   == QueuedTo(packet, op, NextByte)

Empty == cur = <<>> /\ tx = <<>> /\ ~active /\ ~stopping

\* Nothing has gone wrong with the request so far.
Going == pc \in Transfer /\ Status = "SUCCESS" /\ ~TX_ABRT

\* The commands in the controller belong to requests that were made, and to
\* none that is still to be set up.
OldCommands ==
    /\ \A i \in 1 .. Len(tx) : tx[i].req \in 1 .. req
    /\ \A i \in 1 .. Len(cur) : cur[i].req \in 1 .. req
    /\ pc \in {"busy", "disable", "setup"} =>
        /\ \A i \in 1 .. Len(cur) : cur[i].req # req
        /\ \A i \in 1 .. Len(tx) : tx[i].req # req

\* Where the driver is, and what it knows by then.
DriverAt ==
    /\ Lock <=> pc # "idle"
    /\ pc \in {"busy", "disable", "setup"} =>
        op = 1 /\ byte = 0 /\ wire = <<>> /\ Status = "SUCCESS"
    /\ pc = "abort" => Status # "SUCCESS"
    /\ (pc \in {"drain", "stop", "errors", "settle", "off"} /\ Status = "SUCCESS") =>
        op = Len(packet) /\ byte = packet[op].len
    /\ (pc \in {"settle", "off"} /\ Status = "SUCCESS") => ~TX_ABRT
    /\ (pc \in Transfer /\ TX_ABRT) => cur = <<>> /\ tx = <<>>
    /\ req = 0 => pc = "idle" /\ wire = <<>>

\* As long as nothing has gone wrong, the stream is what was queued, in order,
\* and STOP is on its last byte; once STOP was seen, or the wait for it is
\* over, all of it is on the wire.
StreamInOrder ==
    Going =>
        /\ InOrder(Stream) /\ All(Stream) = Queued
        /\ ~stopping
        /\ \A i \in 1 .. Len(cur) : cur[i].stop => Place(cur[i]) = LastByte
        /\ \A i \in 1 .. Len(tx) : tx[i].stop => Place(tx[i]) = LastByte
        /\ (STOP_DET \/ pc \in {"errors", "settle", "off"}) => Empty /\ LastByte \in Queued

\* A request that succeeded left all its bytes on the wire and the bus free.
Succeeded ==
    (pc = "idle" /\ req > 0 /\ Status = "SUCCESS") =>
        Empty /\ wire # <<>> /\ InOrder(wire) /\ All(wire) = Bytes(packet)

SuccessInv == OldCommands /\ DriverAt /\ StreamInOrder /\ Succeeded
-----------------------------------------------------------------------------
\* The bytes of a packet are the places of its operations' bytes.
LEMMA BytesOf ==
    ASSUME NEW p \in Packets, NEW x
    PROVE  x \in Bytes(p) <=> \E o \in 1 .. Len(p) : \E b \in 0 .. p[o].len - 1 : x = <<o, b>>
  <1>1. DOMAIN p = 1 .. Len(p)
    BY DwAssumption
  <1> QED
    BY <1>1 DEF Bytes

\* A concatenation, part by part.
LEMMA Parts ==
    ASSUME NEW S, NEW a \in Seq(S), NEW b \in Seq(S)
    PROVE  /\ a \o b \in Seq(S)
           /\ Len(a) \in Nat /\ Len(b) \in Nat
           /\ Len(a \o b) = Len(a) + Len(b)
           /\ \A i \in 1 .. Len(a) : (a \o b)[i] = a[i]
           /\ \A i \in 1 .. Len(b) : (a \o b)[Len(a) + i] = b[i]
  OBVIOUS

\* A command's place, and the places of a FIFO.
Pair == Nat \X Nat

LEMMA PlaceType == ASSUME NEW c \in Cmd PROVE Place(c) \in Pair
  BY DEF Place, Cmd, Pair

LEMMA PlacesOf ==
    ASSUME NEW s \in Seq(Cmd)
    PROVE  /\ Places(s) \in Seq(Pair)
           /\ Len(Places(s)) = Len(s)
           /\ \A i \in 1 .. Len(s) : Places(s)[i] = Place(s[i])
  <1>1. \A i \in 1 .. Len(s) : Place(s[i]) \in Pair
    BY PlaceType
  <1> QED
    BY <1>1 DEF Places

LEMMA PlacesEmpty == Places(<<>>) = <<>>
  <1>1. <<>> \in Seq(Cmd)
    BY EmptySeqs
  <1>2. Places(<<>>) \in Seq(Pair) /\ Len(Places(<<>>)) = 0
    BY <1>1, PlacesOf
  <1> QED
    BY <1>2

LEMMA PlacesOne == ASSUME NEW c \in Cmd PROVE Places(<<c>>) = <<Place(c)>>
  <1> DEFINE one == <<c>>
  <1>1. one \in Seq(Cmd) /\ Len(one) = 1 /\ one[1] = c
    OBVIOUS
  <1> HIDE DEF one
  <1>2. Places(one) \in Seq(Pair) /\ Len(Places(one)) = 1
        /\ Places(one)[1] = Place(c)
    BY <1>1, PlacesOf
  <1>3. <<Place(c)>> \in Seq(Pair) /\ Len(<<Place(c)>>) = 1
        /\ <<Place(c)>>[1] = Place(c)
    BY PlaceType
  <1>4. Places(one) = <<Place(c)>>
    BY <1>2, <1>3, SeqEqual
  <1> QED
    BY <1>4 DEF one

LEMMA PlacesAppend ==
    ASSUME NEW s \in Seq(Cmd), NEW c \in Cmd
    PROVE  Places(Append(s, c)) = Append(Places(s), Place(c))
  <1>1. Append(s, c) \in Seq(Cmd) /\ Len(Append(s, c)) = Len(s) + 1
        /\ \A i \in 1 .. Len(s) + 1 : Append(s, c)[i] = IF i <= Len(s) THEN s[i] ELSE c
    OBVIOUS
  <1>2. Len(s) \in Nat /\ Places(s) \in Seq(Pair) /\ Len(Places(s)) = Len(s)
        /\ \A i \in 1 .. Len(s) : Places(s)[i] = Place(s[i])
    BY PlacesOf
  <1>3. Places(Append(s, c)) \in Seq(Pair) /\ Len(Places(Append(s, c))) = Len(s) + 1
        /\ \A i \in 1 .. Len(s) + 1 : Places(Append(s, c))[i] = Place(Append(s, c)[i])
    BY <1>1, PlacesOf
  <1>4. Append(Places(s), Place(c)) \in Seq(Pair)
        /\ Len(Append(Places(s), Place(c))) = Len(s) + 1
        /\ \A i \in 1 .. Len(s) + 1 :
              Append(Places(s), Place(c))[i] = IF i <= Len(s) THEN Place(s[i]) ELSE Place(c)
    BY <1>2, PlaceType
  <1>5. \A i \in 1 .. Len(s) + 1 : Places(Append(s, c))[i] = Append(Places(s), Place(c))[i]
    BY <1>1, <1>3, <1>4
  <1> QED
    BY <1>3, <1>4, <1>5, SeqEqual

LEMMA PlacesTail ==
    ASSUME NEW s \in Seq(Cmd), s # <<>>
    PROVE  Places(s) = <<Place(Head(s))>> \o Places(Tail(s))
  <1>1. Head(s) \in Cmd /\ Head(s) = s[1] /\ Tail(s) \in Seq(Cmd) /\ Len(Tail(s)) = Len(s) - 1
        /\ Len(s) \in Nat \ {0} /\ \A i \in 1 .. Len(s) - 1 : Tail(s)[i] = s[i + 1]
    OBVIOUS
  <1> DEFINE x == <<Place(Head(s))>>
             t == Places(Tail(s))
  <1>2. t \in Seq(Pair) /\ Len(t) = Len(s) - 1
        /\ \A i \in 1 .. Len(s) - 1 : t[i] = Place(s[i + 1])
    BY <1>1, PlacesOf
  <1>3. Places(s) \in Seq(Pair) /\ Len(Places(s)) = Len(s)
        /\ \A i \in 1 .. Len(s) : Places(s)[i] = Place(s[i])
    BY PlacesOf
  <1>4. x \in Seq(Pair) /\ Len(x) = 1 /\ x[1] = Place(s[1])
    BY <1>1, PlaceType
  <1> HIDE DEF x, t
  <1>5. x \o t \in Seq(Pair) /\ Len(x \o t) = Len(s)
        /\ (x \o t)[1] = Place(s[1])
        /\ \A i \in 1 .. Len(s) - 1 : (x \o t)[1 + i] = Place(s[i + 1])
    <2>1. x \in Seq(Pair) /\ t \in Seq(Pair)
      BY <1>2, <1>4
    <2>2. /\ x \o t \in Seq(Pair) /\ Len(x \o t) = Len(x) + Len(t)
          /\ \A i \in 1 .. Len(x) : (x \o t)[i] = x[i]
          /\ \A i \in 1 .. Len(t) : (x \o t)[Len(x) + i] = t[i]
      BY <2>1, Parts
    <2> QED
      BY <1>1, <1>2, <1>4, <2>2
  <1>6. ASSUME NEW i \in 1 .. Len(s) PROVE (x \o t)[i] = Places(s)[i]
    <2>1. CASE i = 1
      BY <1>3, <1>5, <2>1
    <2>2. CASE i # 1
      <3>1. i - 1 \in 1 .. Len(s) - 1 /\ (i - 1) + 1 = i /\ 1 + (i - 1) = i
        BY <1>1, <2>2
      <3>2. (x \o t)[1 + (i - 1)] = Place(s[(i - 1) + 1])
        BY <1>5, <3>1
      <3> QED
        BY <1>3, <3>1, <3>2
    <2> QED
      BY <2>1, <2>2
  <1>7. Places(s) = x \o t
    BY <1>3, <1>5, <1>6, SeqEqual
  <1> QED
    BY <1>7 DEF x, t

\* One more at the end keeps the order if it comes behind all the others.
LEMMA AppendInOrder ==
    ASSUME NEW s \in Seq(Pair), NEW x \in Pair, InOrder(s),
           \A y \in All(s) : Before(y, x)
    PROVE  InOrder(Append(s, x)) /\ All(Append(s, x)) = All(s) \cup {x}
  <1>1. Len(s) \in Nat /\ DOMAIN s = 1 .. Len(s) /\ DOMAIN Append(s, x) = 1 .. Len(s) + 1
        /\ \A i \in 1 .. Len(s) : Append(s, x)[i] = s[i]
        /\ Append(s, x)[Len(s) + 1] = x
    BY AppendProperties, LenProperties
  <1>2. ASSUME NEW i \in 1 .. Len(s) + 1, NEW j \in 1 .. Len(s) + 1, i < j
        PROVE  Before(Append(s, x)[i], Append(s, x)[j])
    <2>1. i \in 1 .. Len(s)
      BY <1>1, <1>2
    <2>2. CASE j = Len(s) + 1
      BY <1>1, <2>1, <2>2 DEF All
    <2>3. CASE j \in 1 .. Len(s)
      BY <1>1, <1>2, <2>1, <2>3 DEF InOrder
    <2> QED
      BY <1>1, <2>2, <2>3
  <1>3. InOrder(Append(s, x))
    BY <1>1, <1>2 DEF InOrder
  <1>4. All(Append(s, x)) = All(s) \cup {x}
    <2>1. \A i \in 1 .. Len(s) + 1 : i \in 1 .. Len(s) \/ i = Len(s) + 1
      BY <1>1
    <2>2. \A i \in 1 .. Len(s) : i \in 1 .. Len(s) + 1
      BY <1>1
    <2>3. Len(s) + 1 \in 1 .. Len(s) + 1
      BY <1>1
    <2> QED
      BY <1>1, <2>1, <2>2, <2>3 DEF All
  <1> QED
    BY <1>3, <1>4

\* The stream, part by part.
LEMMA StreamType ==
    ASSUME DwTypeOK
    PROVE  /\ Stream \in Seq(Pair)
           /\ Len(Stream) = Len(wire) + Len(cur) + Len(tx)
           /\ \A i \in 1 .. Len(wire) : Stream[i] = wire[i]
           /\ \A i \in 1 .. Len(cur) : Stream[Len(wire) + i] = Place(cur[i])
           /\ \A i \in 1 .. Len(tx) : Stream[Len(wire) + Len(cur) + i] = Place(tx[i])
  <1>1. wire \in Seq(Pair) /\ cur \in Seq(Cmd) /\ tx \in Seq(Cmd)
        /\ Len(wire) \in Nat /\ Len(cur) \in Nat /\ Len(tx) \in Nat
    BY LenProperties DEF DwTypeOK, Pair
  <1> DEFINE c == Places(cur)
             t == Places(tx)
             a == wire \o c
  <1>2. c \in Seq(Pair) /\ Len(c) = Len(cur) /\ \A i \in 1 .. Len(cur) : c[i] = Place(cur[i])
    BY <1>1, PlacesOf
  <1>3. t \in Seq(Pair) /\ Len(t) = Len(tx) /\ \A i \in 1 .. Len(tx) : t[i] = Place(tx[i])
    BY <1>1, PlacesOf
  <1> HIDE DEF c, t
  <1>4. a \in Seq(Pair) /\ Len(a) = Len(wire) + Len(cur)
        /\ (\A i \in 1 .. Len(wire) : a[i] = wire[i])
        /\ \A i \in 1 .. Len(cur) : a[Len(wire) + i] = Place(cur[i])
    <2>1. wire \in Seq(Pair) /\ c \in Seq(Pair)
      BY <1>1, <1>2
    <2>2. /\ a \in Seq(Pair) /\ Len(a) = Len(wire) + Len(c)
          /\ \A i \in 1 .. Len(wire) : a[i] = wire[i]
          /\ \A i \in 1 .. Len(c) : a[Len(wire) + i] = c[i]
      BY <2>1, Parts
    <2> HIDE DEF a
    <2> QED
      BY <1>2, <2>2
  <1>6. Stream = a \o t
    BY DEF Stream, a, c, t
  <1> HIDE DEF a
  <1>5. a \o t \in Seq(Pair)
        /\ Len(a \o t) = Len(wire) + Len(cur) + Len(tx)
        /\ (\A i \in 1 .. Len(wire) + Len(cur) : (a \o t)[i] = a[i])
        /\ \A i \in 1 .. Len(tx) : (a \o t)[Len(wire) + Len(cur) + i] = Place(tx[i])
    <2>1. a \in Seq(Pair) /\ t \in Seq(Pair)
      BY <1>3, <1>4
    <2>2. /\ a \o t \in Seq(Pair) /\ Len(a \o t) = Len(a) + Len(t)
          /\ \A i \in 1 .. Len(a) : (a \o t)[i] = a[i]
          /\ \A i \in 1 .. Len(t) : (a \o t)[Len(a) + i] = t[i]
      BY <2>1, Parts
    <2> QED
      BY <1>3, <1>4, <2>2
  <1>7. \A i \in 1 .. Len(wire) : i \in 1 .. Len(wire) + Len(cur)
    BY <1>1
  <1>8. \A i \in 1 .. Len(cur) : Len(wire) + i \in 1 .. Len(wire) + Len(cur)
    BY <1>1
  <1> QED
    BY <1>4, <1>5, <1>6, <1>7, <1>8

\* Joining three sequences, either way round.
LEMMA Joined ==
    ASSUME NEW a \in Seq(Pair), NEW b \in Seq(Pair), NEW c \in Seq(Pair)
    PROVE  (a \o b) \o c = a \o (b \o c)
  BY ConcatAssociative

\* The controller moves a command from the FIFO to the wire, and lets it go
\* through: the stream stays as it is.
LEMMA StreamStart ==
    ASSUME DwTypeOK, cur = <<>>, tx # <<>>, cur' = <<Head(tx)>>, tx' = Tail(tx), wire' = wire
    PROVE  Stream' = Stream
  <1>1. wire \in Seq(Pair) /\ tx \in Seq(Cmd)
    BY DEF DwTypeOK, Pair
  <1>2. Head(tx) \in Cmd /\ Tail(tx) \in Seq(Cmd)
    BY <1>1
  <1> DEFINE x == <<Place(Head(tx))>>
             t == Places(Tail(tx))
  <1>3. Places(tx) = x \o t
    BY <1>1, PlacesTail
  <1>4. x \in Seq(Pair) /\ t \in Seq(Pair)
    <2>1. Place(Head(tx)) \in Pair /\ t \in Seq(Pair)
      BY <1>2, PlaceType, PlacesOf
    <2>2. ASSUME NEW y \in Pair PROVE <<y>> \in Seq(Pair)
      OBVIOUS
    <2> QED
      BY <2>1, <2>2
  <1>5. Stream' = (wire \o x) \o t
    <2>1. Places(<<Head(tx)>>) = x
      BY <1>2, PlacesOne
    <2> QED
      BY <2>1 DEF Stream
  <1>6. Stream = wire \o (x \o t)
    <2>1. wire \o <<>> = wire
      BY <1>1, ConcatEmptySeq
    <2> QED
      BY <1>3, <2>1, PlacesEmpty DEF Stream
  <1> HIDE DEF x, t
  <1>7. (wire \o x) \o t = wire \o (x \o t)
    BY <1>1, <1>4, Joined, Zenon
  <1> QED
    BY <1>5, <1>6, <1>7, Zenon

LEMMA StreamDone ==
    ASSUME DwTypeOK, cur # <<>>, cur' = <<>>, tx' = tx, wire' = Append(wire, Place(cur[1]))
    PROVE  Stream' = Stream
  <1>1. wire \in Seq(Pair) /\ cur \in Seq(Cmd) /\ Len(cur) <= 1
    BY DEF DwTypeOK, Pair
  <1>2. cur[1] \in Cmd /\ cur = <<cur[1]>>
    <2>0. Len(cur) \in Nat \ {0}
      BY <1>1, EmptySeq
    <2>1. Len(cur) = 1 /\ cur[1] \in Cmd
      <3>1. ASSUME NEW n \in Nat \ {0}, n <= 1 PROVE n = 1
        BY <3>1
      <3>2. Len(cur) = 1
        BY <1>1, <2>0, <3>1
      <3>3. 1 \in 1 .. Len(cur)
        BY <3>2
      <3> QED
        BY <1>1, <3>2, <3>3, ElementOfSeq
    <2>2. ASSUME NEW c \in Cmd PROVE <<c>> \in Seq(Cmd) /\ Len(<<c>>) = 1 /\ <<c>>[1] = c
      OBVIOUS
    <2>3. \A i \in 1 .. 1 : cur[i] = <<cur[1]>>[i]
      BY <2>1, <2>2
    <2> QED
      BY <1>1, <2>1, <2>2, <2>3, SeqEqual
  <1>3. Place(cur[1]) \in Pair
    BY <1>2, PlaceType
  <1> DEFINE x == Place(cur[1])
  <1>4. Places(cur) = <<x>>
    BY <1>2, PlacesOne
  <1>5. Append(wire, x) = wire \o <<x>>
    BY <1>1, <1>3, AppendIsConcat
  <1>6. Append(wire, x) \o <<>> = Append(wire, x)
    <2>1. Append(wire, x) \in Seq(Pair)
      BY <1>1, <1>3
    <2> QED
      BY <2>1, ConcatEmptySeq
  <1> QED
    BY <1>4, <1>5, <1>6, PlacesEmpty DEF Stream

\* The driver queues one more.
LEMMA StreamPush ==
    ASSUME DwTypeOK, NEW c \in Cmd, tx' = Append(tx, c), cur' = cur, wire' = wire
    PROVE  Stream' = Append(Stream, Place(c))
  <1>1. wire \in Seq(Pair) /\ cur \in Seq(Cmd) /\ tx \in Seq(Cmd)
    BY DEF DwTypeOK, Pair
  <1>2. Place(c) \in Pair /\ Places(cur) \in Seq(Pair) /\ Places(tx) \in Seq(Pair)
    BY <1>1, PlaceType, PlacesOf
  <1> DEFINE a == wire \o Places(cur)
             t == Places(tx)
             x == Place(c)
  <1>3. a \in Seq(Pair)
    BY <1>1, <1>2, ConcatProperties
  <1>4. Stream' = a \o Append(t, x)
    BY <1>1, PlacesAppend DEF Stream
  <1>5. Stream = a \o t /\ Stream \in Seq(Pair)
    BY StreamType DEF Stream
  <1>6. t \in Seq(Pair) /\ x \in Pair /\ <<x>> \in Seq(Pair)
    BY <1>2
  <1> HIDE DEF a, t, x
  <1>7. Append(t, x) = t \o <<x>> /\ Append(Stream, x) = Stream \o <<x>>
    BY <1>5, <1>6, AppendIsConcat
  <1>8. (a \o t) \o <<x>> = a \o (t \o <<x>>)
    BY <1>3, <1>6, Joined
  <1> QED
    BY <1>4, <1>5, <1>7, <1>8 DEF x

LEMMA StreamSame ==
    ASSUME UNCHANGED <<wire, cur, tx>>
    PROVE  Stream' = Stream
  BY DEF Stream, Places, Place

\* With nothing on its way, the stream is what went through.
LEMMA StreamOver ==
    ASSUME DwTypeOK, cur = <<>>, tx = <<>>
    PROVE  Stream = wire
  <1>1. wire \in Seq(Pair)
    BY DEF DwTypeOK, Pair
  <1>2. wire \o <<>> = wire
    BY <1>1, ConcatEmptySeq
  <1> QED
    BY <1>2, PlacesEmpty DEF Stream

(***************************************************************************)
(* What the loop has queued, at each of its steps.                         *)
(***************************************************************************)

\* The packet, once more, and where the loop is in it.
LEMMA AtByte ==
    ASSUME DwTypeOK
    PROVE  /\ packet \in Packets /\ Len(packet) \in Nat
           /\ op \in 1 .. Len(packet) /\ byte \in 0 .. packet[op].len
           /\ \A o \in 1 .. Len(packet) : packet[o].len \in Nat
  <1>1. packet \in Packets /\ packet \in Seq(Op) /\ op \in 1 .. Len(packet)
        /\ byte \in 0 .. packet[op].len
    BY DwAssumption DEF DwTypeOK
  <1>2. \A o \in 1 .. Len(packet) : packet[o] \in Op
    BY <1>1
  <1> QED
    BY <1>1, <1>2, LenProperties DEF Op

\* Membership in Queued, in numbers.
LEMMA QueuedToIs ==
    ASSUME NEW p \in Packets, NEW o0, NEW b0, NEW x
    PROVE  x \in QueuedTo(p, o0, b0) <=>
             \E o \in 1 .. Len(p) : \E b \in 0 .. p[o].len - 1 :
                x = <<o, b>> /\ (o < o0 \/ (o = o0 /\ b < b0))
  <1>1. x \in Bytes(p) <=> \E o \in 1 .. Len(p) : \E b \in 0 .. p[o].len - 1 : x = <<o, b>>
    BY BytesOf
  <1>2. \A o, b : Before(<<o, b>>, <<o0, b0>>) <=> o < o0 \/ (o = o0 /\ b < b0)
    BY DEF Before
  <1> QED
    BY <1>1, <1>2 DEF QueuedTo

LEMMA QueuedIs ==
    ASSUME DwTypeOK, NEW x
    PROVE  x \in Queued <=>
             \E o \in 1 .. Len(packet) : \E b \in 0 .. packet[o].len - 1 :
                x = <<o, b>> /\ (o < op \/ (o = op /\ b < NextByte))
  BY AtByte, QueuedToIs DEF Queued

\* At the end of the last operation all is queued.
LEMMA QueuedAll ==
    ASSUME DwTypeOK, op = Len(packet), byte = packet[op].len
    PROVE  Queued = Bytes(packet)
  <1>1. /\ packet \in Packets /\ Len(packet) \in Nat
        /\ \A o \in 1 .. Len(packet) : packet[o].len \in Nat
    BY AtByte
  <1>2. ASSUME NEW x \in Bytes(packet) PROVE x \in Queued
    <2>1. PICK o \in 1 .. Len(packet) : \E b \in 0 .. packet[o].len - 1 : x = <<o, b>>
      BY <1>1, BytesOf
    <2>2. PICK b \in 0 .. packet[o].len - 1 : x = <<o, b>>
      BY <2>1
    <2>3. o < op \/ (o = op /\ b < NextByte)
      BY <1>1 DEF NextByte
    <2> QED
      BY <2>2, <2>3, QueuedIs
  <1> QED
    BY <1>2 DEF Queued, QueuedTo

\* Every queued byte comes before the one that is next.
LEMMA QueuedBefore ==
    ASSUME DwTypeOK, pc = "put"
    PROVE  \A x \in Queued : Before(x, <<op, byte>>)
  BY DEF Queued, QueuedTo, NextByte

\* The last byte is queued only when the loop is past it.
LEMMA LastQueued ==
    ASSUME DwTypeOK, pc = "put", LastByte \in Queued
    PROVE  ~(byte < packet[op].len)
  <1>1. /\ packet \in Packets /\ Len(packet) \in Nat /\ op \in 1 .. Len(packet)
        /\ byte \in 0 .. packet[op].len
        /\ \A o \in 1 .. Len(packet) : packet[o].len \in Nat
    BY AtByte
  <1>2. Len(packet) \in 1 .. Len(packet) /\ packet[Len(packet)].len \in Nat
    BY <1>1
  <1>3. Before(LastByte, <<op, byte>>)
    BY QueuedBefore
  <1>4. Len(packet) < op \/ (Len(packet) = op /\ packet[Len(packet)].len - 1 < byte)
    BY <1>3 DEF Before, LastByte
  <1> QED
    BY <1>1, <1>2, <1>4

\* Nothing follows the last byte.
LEMMA NothingAfterLast ==
    ASSUME DwTypeOK, NEW x \in Bytes(packet)
    PROVE  ~Before(LastByte, x)
  <1>1. /\ packet \in Packets /\ Len(packet) \in Nat
        /\ \A o \in 1 .. Len(packet) : packet[o].len \in Nat
    BY AtByte
  <1>2. PICK o \in 1 .. Len(packet) : \E b \in 0 .. packet[o].len - 1 : x = <<o, b>>
    BY <1>1, BytesOf
  <1>3. PICK b \in 0 .. packet[o].len - 1 : x = <<o, b>>
    BY <1>2
  <1>4. Before(LastByte, x) <=> Len(packet) < o \/ (Len(packet) = o /\ packet[Len(packet)].len - 1 < b)
    BY <1>3 DEF Before, LastByte
  <1> QED
    BY <1>1, <1>4
-----------------------------------------------------------------------------
\* The commands in the controller stay those of requests that were made.
LEMMA OldCommandsNext ==
    ASSUME DwTypeOK, DwInv, SuccessInv, [Next]_vars
    PROVE  OldCommands'
  <1> USE DEF drvVars, hwVars, reqVars, posVars, ctlVars, fifoVars, busVars, intVars
  <1>0. OldCommands /\ DriverAt /\ BusHandedOver /\ req \in Nat
    BY DEF SuccessInv, DwInv, DwTypeOK
  <1>1. CASE /\ UNCHANGED <<cur, req>> /\ tx' \in {tx, <<>>}
             /\ pc' \in {"busy", "disable", "setup"} => pc \in {"busy", "disable", "setup"}
    BY <1>0, <1>1 DEF OldCommands
  <1>2. ASSUME NEW s \in Slaves, NEW p \in Packets, StartRequest(s, p)
        PROVE  OldCommands'
    <2>1. UNCHANGED <<tx, cur>> /\ req' = req + 1
      BY <1>2 DEF StartRequest
    <2>2. \A n \in 1 .. req : n \in 1 .. req' /\ n # req'
      BY <1>0, <2>1
    <2> QED
      BY <1>0, <2>1, <2>2 DEF OldCommands
  <1>3. ASSUME NEW c \in Cmd, c.req = req, tx' = Push(c), UNCHANGED <<cur, req>>,
               pc \in Transfer, pc' \in Transfer
        PROVE  OldCommands'
    <2>1. c.req \in 1 .. req
      BY <1>0, <1>3 DEF DriverAt, Transfer
    <2>2. ASSUME NEW i \in 1 .. Len(tx') PROVE tx'[i].req \in 1 .. req
      BY <1>0, <1>3, <2>1, <2>2, PushEffect DEF OldCommands
    <2> QED
      BY <1>0, <1>3, <2>2 DEF OldCommands, Transfer
  <1>4. CASE PutWrite \/ PutRead
    <2>1. ByteCmd \in Cmd /\ ByteCmd.req = req
      BY <1>4, ByteCmdType DEF PutWrite, PutRead, ByteCmd
    <2> QED
      BY <1>4, <2>1, <1>3 DEF PutWrite, PutRead, WaitOver, Transfer
  <1>5. CASE Abort
    <2>1. AbortCmd \in Cmd /\ AbortCmd.req = req
      BY AbortCmdType DEF AbortCmd
    <2> QED
      BY <1>5, <2>1, <1>3 DEF Abort, Transfer
  <1>6. CASE HwStart
    <2>1. tx # <<>> /\ UNCHANGED <<pc, req>> /\ tx' = Tail(tx) /\ cur' = <<tx[1]>>
          /\ 1 \in 1 .. Len(tx)
      BY <1>6, HeadEffect DEF HwStart
    <2>2. ASSUME NEW i \in 1 .. Len(tx') PROVE i + 1 \in 1 .. Len(tx) /\ tx'[i] = tx[i + 1]
      BY <2>1, <2>2, TailEffect
    <2> QED
      BY <1>0, <2>1, <2>2 DEF OldCommands
  <1>7. CASE HwDone \/ HwNack
    BY <1>0, <1>7 DEF HwDone, HwNack, OldCommands
  <1>8. CASE DisableFirst \/ Return \/ Reset
    BY <1>8, <1>1, DisableEffect DEF DisableFirst, Return, Reset, DwTypeOK
  <1>9. CASE SetBusFrequency \/ HwDisable
    BY <1>9, <1>1 DEF SetBusFrequency, HwDisable
  <1>10. CASE \/ LastPollFails \/ BusFree \/ BusBusy \/ Setup \/ GetByte \/ NextOp
              \/ TransferFails \/ Drained \/ Stopped \/ FinishFails \/ CheckErrors \/ Settled
              \/ HwStop \/ UNCHANGED vars
    BY <1>10, <1>1 DEF LastPollFails, BusFree, BusBusy, Setup, GetByte, NextOp, WaitOver,
       TransferFails, Drained, Stopped, FinishFails, CheckErrors, Settled, HwStop, vars
  <1> QED
    BY <1>2, <1>4, <1>5, <1>6, <1>7, <1>8, <1>9, <1>10 DEF Next, Driver, Controller

\* The driver's place and what it knows there.
LEMMA DriverAtNext ==
    ASSUME DwTypeOK, DwInv, SuccessInv, [Next]_vars
    PROVE  DriverAt'
  <1> USE DEF drvVars, hwVars, reqVars, posVars, ctlVars, fifoVars, busVars, intVars
  <1>0. DriverAt /\ BusHandedOver /\ req \in Nat /\ OldCommands /\ StreamInOrder
        /\ Lock \in BOOLEAN
    BY DEF SuccessInv, DwInv, DwTypeOK
  <1>1. ASSUME NEW s \in Slaves, NEW p \in Packets, StartRequest(s, p)
        PROVE  DriverAt'
    BY <1>0, <1>1 DEF StartRequest, DriverAt, Transfer
  <1>2. CASE LastPollFails
    BY <1>0, <1>2 DEF LastPollFails, DriverAt, Waits
  <1>3. CASE BusFree \/ BusBusy
    BY <1>0, <1>3 DEF BusFree, BusBusy, WaitOver, WaitFails, DriverAt, Transfer
  <1>4. CASE DisableFirst
    BY <1>0, <1>4 DEF DisableFirst, DriverAt, Transfer
  <1>5. CASE Setup
    BY <1>0, <1>5 DEF Setup, DriverAt
  <1>6. CASE PutWrite \/ PutRead \/ Abort
    <2>1. TX_ABRT => tx' = tx
      BY <1>6 DEF PutWrite, PutRead, Abort, Push
    <2>2. pc \in {"put", "abort"} /\ pc' \in {"put", "get", "drain"}
          /\ (pc' = "drain" => pc = "abort" /\ Status # "SUCCESS")
          /\ UNCHANGED <<Lock, Status, TX_ABRT, cur, req>>
      BY <1>0, <1>6 DEF PutWrite, PutRead, Abort, WaitOver, DriverAt
    <2> QED
      BY <1>0, <2>1, <2>2 DEF DriverAt, Transfer
  <1>7. CASE GetByte
    BY <1>0, <1>7 DEF GetByte, WaitOver, DriverAt, Transfer
  <1>8. CASE NextOp
    <2>1. pc' = "drain" => op = Len(packet)
      BY <1>8, AtByte DEF NextOp
    <2> QED
      BY <1>0, <1>8, <2>1 DEF NextOp, DriverAt, Transfer
  <1>9. CASE TransferFails
    BY <1>0, <1>9 DEF TransferFails, WaitFails, DriverAt, Transfer
  <1>10. CASE Drained \/ Stopped
    BY <1>0, <1>10 DEF Drained, Stopped, WaitOver, DriverAt, Transfer
  <1>11. CASE FinishFails
    BY <1>0, <1>11 DEF FinishFails, WaitFails, DriverAt, Transfer
  <1>12. CASE CheckErrors
    BY <1>0, <1>12 DEF CheckErrors, DriverAt, Transfer
  <1>13. CASE Settled
    BY <1>0, <1>13 DEF Settled, WaitOver, WaitFails, DriverAt, Transfer
  <1>14. CASE Return
    BY <1>0, <1>14 DEF Return, DriverAt, Transfer
  <1>15. CASE Reset \/ SetBusFrequency
    BY <1>0, <1>15 DEF Reset, SetBusFrequency, DriverAt, Transfer
  <1>16. CASE HwStart
    BY <1>0, <1>16 DEF HwStart, DriverAt
  <1>17. CASE HwDone
    <2>1. 1 \in 1 .. Len(cur)
      BY <1>17 DEF HwDone, DwTypeOK
    <2>2. (pc \in {"busy", "disable", "setup"} \/ req = 0) => wire' = wire
      BY <1>0, <1>17, <2>1 DEF HwDone, OldCommands
    <2> QED
      BY <1>0, <1>17, <2>2 DEF HwDone, DriverAt
  <1>18. CASE HwNack
    <2>1. (pc \in {"settle", "off"} /\ Status = "SUCCESS") => FALSE
      BY <1>0, <1>18 DEF HwNack, DriverAt, StreamInOrder, Going, Empty, Transfer
    <2> QED
      BY <1>0, <1>18, <2>1 DEF HwNack, DriverAt
  <1>19. CASE HwStop
    BY <1>0, <1>19 DEF HwStop, DriverAt
  <1>20. CASE HwDisable
    BY <1>0, <1>20 DEF HwDisable, DriverAt
  <1>21. CASE UNCHANGED vars
    BY <1>0, <1>21 DEF vars, DriverAt
  <1> QED
    BY <1>1, <1>2, <1>3, <1>4, <1>5, <1>6, <1>7, <1>8, <1>9, <1>10, <1>11, <1>12, <1>13,
       <1>14, <1>15, <1>16, <1>17, <1>18, <1>19, <1>20, <1>21 DEF Next, Driver, Controller

\* What StreamInOrder says of a request that goes on.
StreamFacts ==
    /\ InOrder(Stream) /\ All(Stream) = Queued
    /\ ~stopping
    /\ \A i \in 1 .. Len(cur) : cur[i].stop => Place(cur[i]) = LastByte
    /\ \A i \in 1 .. Len(tx) : tx[i].stop => Place(tx[i]) = LastByte
    /\ (STOP_DET \/ pc \in {"errors", "settle", "off"}) => Empty /\ LastByte \in Queued

\* One more byte, the one the loop is at.
LEMMA PushInOrder ==
    ASSUME DwTypeOK, DwTypeOK', StreamFacts, pc = "put", byte < packet[op].len, ~TX_ABRT,
           Len(tx) < TxFifo, tx' = Push(ByteCmd),
           UNCHANGED <<wire, cur, stopping, STOP_DET, packet, op>>,
           \/ pc' = "put" /\ byte' = byte + 1
           \/ pc' = "get" /\ byte' = byte
    PROVE  StreamFacts'
  <1>0. packet \in Packets /\ Len(packet) \in Nat /\ op \in 1 .. Len(packet)
        /\ byte \in 0 .. packet[op].len /\ \A o \in 1 .. Len(packet) : packet[o].len \in Nat
    BY AtByte
  <1>1. ByteCmd \in Cmd /\ Place(ByteCmd) = <<op, byte>>
    BY ByteCmdType DEF ByteCmd, Place
  <1>2. tx' = Append(tx, ByteCmd)
    <2>1. ~(Len(tx) >= TxFifo)
      <3>1. Len(tx) \in Nat /\ TxFifo \in Nat
        BY DwAssumption, LenProperties DEF DwTypeOK
      <3> QED
        BY <3>1
    <2> QED
      BY <2>1 DEF Push
  <1>3. Stream' = Append(Stream, <<op, byte>>)
    BY <1>1, <1>2, StreamPush
  <1>4. <<op, byte>> \in Pair
    BY <1>1, PlaceType
  <1>5. \A y \in All(Stream) : Before(y, <<op, byte>>)
    BY QueuedBefore DEF StreamFacts
  <1>6. InOrder(Stream') /\ All(Stream') = Queued \cup {<<op, byte>>}
    <2>1. Stream \in Seq(Pair)
      BY StreamType
    <2> QED
      BY <1>3, <1>4, <1>5, <2>1, AppendInOrder DEF StreamFacts
  <1>7. ASSUME NEW x PROVE x \in Queued' <=> x \in Queued \/ x = <<op, byte>>
    <2>1. x \in Queued' <=>
            \E o \in 1 .. Len(packet) : \E b \in 0 .. packet[o].len - 1 :
               x = <<o, b>> /\ (o < op \/ (o = op /\ b < byte + 1))
      <3>1. Queued' = QueuedTo(packet, op, byte + 1)
        BY DEF Queued, NextByte
      <3> QED
        BY <1>0, <3>1, QueuedToIs
    <2>2. x \in Queued <=>
            \E o \in 1 .. Len(packet) : \E b \in 0 .. packet[o].len - 1 :
               x = <<o, b>> /\ (o < op \/ (o = op /\ b < byte))
      BY QueuedIs DEF NextByte
    <2>3. op \in 1 .. Len(packet) /\ byte \in 0 .. packet[op].len - 1
      BY <1>0
    <2>4. \A o \in 1 .. Len(packet) : \A b \in 0 .. packet[o].len - 1 :
            (o < op \/ (o = op /\ b < byte + 1))
              <=> ((o < op \/ (o = op /\ b < byte)) \/ (o = op /\ b = byte))
      BY <1>0
    <2> QED
      BY <2>1, <2>2, <2>3, <2>4
  <1>8. All(Stream') = Queued'
    BY <1>6, <1>7
  <1>9. ByteCmd.stop => Place(ByteCmd) = LastByte
    BY <1>1 DEF ByteCmd, LastByte
  <1>10. \A i \in 1 .. Len(tx') : tx'[i].stop => Place(tx'[i]) = LastByte'
    <2>1. LastByte' = LastByte
      BY DEF LastByte
    <2> SUFFICES ASSUME NEW i \in 1 .. Len(tx'), tx'[i].stop PROVE Place(tx'[i]) = LastByte
      BY <2>1
    <2> QED
      BY <1>1, <1>9, PushEffect DEF StreamFacts
  <1>11. ~STOP_DET
    BY LastQueued DEF StreamFacts
  <1>12. \A i \in 1 .. Len(cur') : cur'[i].stop => Place(cur'[i]) = LastByte'
    BY DEF StreamFacts, LastByte
  <1> QED
    BY <1>6, <1>8, <1>10, <1>11, <1>12 DEF StreamFacts, Place

\* The loop goes on to the next byte or operation, or leaves.
LEMMA MoveInOrder ==
    ASSUME DwTypeOK, DwTypeOK', StreamFacts, UNCHANGED <<wire, cur, tx, stopping, packet>>,
           STOP_DET' => STOP_DET,
           \/ UNCHANGED <<pc, op, byte>>
           \/ pc = "get" /\ pc' = "put" /\ UNCHANGED op /\ byte' = byte + 1
           \/ pc = "put" /\ pc' = "put" /\ byte = packet[op].len /\ op' = op + 1 /\ byte' = 0
           \/ pc # "get" /\ pc' # "get" /\ UNCHANGED <<op, byte>>,
           pc' \in {"errors", "settle", "off"} =>
              pc \in {"errors", "settle", "off"} \/ STOP_DET,
           UNCHANGED active
    PROVE  StreamFacts'
  <1>0. packet \in Packets /\ Len(packet) \in Nat /\ op \in 1 .. Len(packet)
        /\ byte \in 0 .. packet[op].len /\ \A o \in 1 .. Len(packet) : packet[o].len \in Nat
    BY AtByte
  <1>1. Stream' = Stream /\ LastByte' = LastByte
    BY StreamSame DEF LastByte
  <1>2. Queued' = Queued
    <2>1. CASE UNCHANGED <<op, NextByte>>
      BY <2>1 DEF Queued
    <2>2. CASE pc = "put" /\ pc' = "put" /\ byte = packet[op].len /\ op' = op + 1 /\ byte' = 0
      <3> SUFFICES ASSUME NEW x PROVE x \in Queued' <=> x \in Queued
        OBVIOUS
      <3>1. x \in Queued' <=>
              \E o \in 1 .. Len(packet) : \E b \in 0 .. packet[o].len - 1 :
                 x = <<o, b>> /\ (o < op + 1 \/ (o = op + 1 /\ b < 0))
        <4>1. Queued' = QueuedTo(packet, op + 1, 0)
          BY <2>2 DEF Queued, NextByte
        <4> QED
          BY <1>0, <4>1, QueuedToIs
      <3>2. x \in Queued <=>
              \E o \in 1 .. Len(packet) : \E b \in 0 .. packet[o].len - 1 :
                 x = <<o, b>> /\ (o < op \/ (o = op /\ b < packet[op].len))
        BY <2>2, QueuedIs DEF NextByte
      <3>3. \A o \in 1 .. Len(packet) : \A b \in 0 .. packet[o].len - 1 :
              (o < op + 1 \/ (o = op + 1 /\ b < 0)) <=> (o < op \/ (o = op /\ b < packet[op].len))
        BY <1>0
      <3> QED
        BY <3>1, <3>2, <3>3
    <2> QED
      BY <2>1, <2>2 DEF NextByte
  <1>3. Empty' <=> Empty
    BY DEF Empty
  <1>4. InOrder(Stream') /\ All(Stream') = Queued'
    BY <1>1, <1>2 DEF StreamFacts
  <1>5. /\ \A i \in 1 .. Len(cur') : cur'[i].stop => Place(cur'[i]) = LastByte'
        /\ \A i \in 1 .. Len(tx') : tx'[i].stop => Place(tx'[i]) = LastByte'
    BY <1>1 DEF StreamFacts
  <1>6. (STOP_DET' \/ pc' \in {"errors", "settle", "off"}) => Empty' /\ LastByte' \in Queued'
    BY <1>1, <1>2, <1>3 DEF StreamFacts
  <1> QED
    BY <1>4, <1>5, <1>6 DEF StreamFacts, Place

\* A byte goes through; with it, perhaps, the STOP.
LEMMA DoneInOrder ==
    ASSUME DwTypeOK, DwTypeOK', StreamFacts, HwDone, cur[1].req = req
    PROVE  StreamFacts'
  <1> USE DEF drvVars, hwVars, reqVars, posVars, ctlVars, fifoVars, busVars, intVars
  <1>1. /\ cur # <<>> /\ cur' = <<>> /\ wire' = Append(wire, Place(cur[1]))
        /\ STOP_DET' = (STOP_DET \/ cur[1].stop) /\ active' = ~cur[1].stop
        /\ UNCHANGED <<pc, op, byte, packet, tx, stopping>>
    BY DEF HwDone, Place
  <1>2. Stream' = Stream
    BY <1>1, StreamDone
  <1>3. Queued' = Queued /\ LastByte' = LastByte
    BY <1>1 DEF Queued, NextByte, LastByte
  <1>4. ~STOP_DET /\ pc \notin {"errors", "settle", "off"}
    BY <1>1 DEF StreamFacts, Empty
  <1>5. 1 \in 1 .. Len(cur) /\ Len(cur) = 1 /\ Len(wire) \in Nat /\ Len(tx) \in Nat /\ tx \in Seq(Cmd)
    <2>1. cur \in Seq(Cmd) /\ Len(cur) <= 1 /\ tx \in Seq(Cmd) /\ wire \in Seq(Pair)
      BY DEF DwTypeOK, Pair
    <2>2. Len(cur) \in Nat \ {0}
      BY <1>1, <2>1, EmptySeq
    <2>3. ASSUME NEW n \in Nat \ {0}, n <= 1 PROVE n = 1 /\ 1 \in 1 .. n
      BY <2>3
    <2> QED
      BY <2>1, <2>2, <2>3, LenProperties
  <1>6. ASSUME cur[1].stop PROVE tx = <<>> /\ LastByte \in Queued
    <2>1. Place(cur[1]) = LastByte
      BY <1>5, <1>6 DEF StreamFacts
    <2> DEFINE k == Len(wire) + 1
    <2>2. /\ Stream \in Seq(Pair) /\ Len(Stream) = k + Len(tx) /\ Stream[k] = LastByte
          /\ \A i \in 1 .. Len(tx) : Stream[k + i] = Place(tx[i])
      BY <1>5, <2>1, StreamType
    <2>3. DOMAIN Stream = 1 .. k + Len(tx) /\ k \in DOMAIN Stream
      <3>1. DOMAIN Stream = 1 .. Len(Stream)
        BY <2>2, LenProperties
      <3> QED
        BY <1>5, <2>2, <3>1
    <2>4. LastByte \in Queued
      BY <2>2, <2>3 DEF StreamFacts, All
    <2>5. ASSUME tx # <<>> PROVE FALSE
      <3>1. Len(tx) \in Nat \ {0}
        BY <1>5, <2>5, EmptySeq
      <3>2. k + 1 \in 1 .. k + Len(tx) /\ k < k + 1
        BY <1>5, <3>1
      <3> HIDE DEF k
      <3>3. Before(LastByte, Stream[k + 1])
        BY <2>2, <2>3, <3>2 DEF StreamFacts, InOrder
      <3>4. Stream[k + 1] \in Bytes(packet)
        BY <2>3, <3>2 DEF StreamFacts, All, Queued, QueuedTo
      <3> QED
        BY <3>3, <3>4, NothingAfterLast
    <2> QED
      BY <2>4, <2>5
  <1>7. STOP_DET' => Empty' /\ LastByte' \in Queued'
    BY <1>1, <1>3, <1>4, <1>6 DEF Empty, StreamFacts
  <1>8. /\ \A i \in 1 .. Len(cur') : cur'[i].stop => Place(cur'[i]) = LastByte'
        /\ \A i \in 1 .. Len(tx') : tx'[i].stop => Place(tx'[i]) = LastByte'
    BY <1>1, <1>3 DEF StreamFacts
  <1>9. InOrder(Stream') /\ All(Stream') = Queued' /\ ~stopping'
    BY <1>1, <1>2, <1>3 DEF StreamFacts
  <1>10. pc' \notin {"errors", "settle", "off"}
    BY <1>1, <1>4
  <1> QED
    BY <1>7, <1>8, <1>9, <1>10 DEF StreamFacts, Place

\* A command goes from the FIFO to the wire.
LEMMA StartInOrder ==
    ASSUME DwTypeOK, DwTypeOK', StreamFacts, HwStart
    PROVE  StreamFacts'
  <1> USE DEF drvVars, hwVars, reqVars, posVars, ctlVars, fifoVars, busVars, intVars
  <1>1. /\ cur = <<>> /\ tx # <<>> /\ cur' = <<Head(tx)>> /\ tx' = Tail(tx)
        /\ UNCHANGED <<wire, pc, op, byte, packet, stopping, STOP_DET>>
        /\ Head(tx) = tx[1] /\ 1 \in 1 .. Len(tx)
    BY HeadEffect DEF HwStart
  <1>2. Stream' = Stream
    BY <1>1, StreamStart
  <1>3. Queued' = Queued /\ LastByte' = LastByte
    BY <1>1 DEF Queued, NextByte, LastByte
  <1>4. ~STOP_DET /\ pc \notin {"errors", "settle", "off"}
    BY <1>1 DEF StreamFacts, Empty
  <1>5. \A i \in 1 .. Len(cur') : cur'[i].stop => Place(cur'[i]) = LastByte'
    BY <1>1, <1>3 DEF StreamFacts
  <1>6. \A i \in 1 .. Len(tx') : tx'[i].stop => Place(tx'[i]) = LastByte'
    <2> SUFFICES ASSUME NEW i \in 1 .. Len(tx'), tx'[i].stop PROVE Place(tx'[i]) = LastByte
      BY <1>3
    <2>1. i + 1 \in 1 .. Len(tx) /\ tx'[i] = tx[i + 1]
      BY <1>1, TailEffect
    <2> QED
      BY <2>1 DEF StreamFacts
  <1>7. InOrder(Stream') /\ All(Stream') = Queued' /\ ~stopping'
    BY <1>1, <1>2, <1>3 DEF StreamFacts
  <1> QED
    BY <1>1, <1>4, <1>5, <1>6, <1>7 DEF StreamFacts, Place

\* IC_TAR is written, the controller is empty and nothing is queued.
LEMMA SetupInOrder ==
    ASSUME DwTypeOK, DwTypeOK', DwInv, DriverAt, Setup
    PROVE  StreamFacts'
  <1> USE DEF drvVars, hwVars, reqVars, posVars, ctlVars, fifoVars, busVars, intVars
  <1>1. cur' = <<>> /\ tx' = <<>> /\ wire' = <<>> /\ ~stopping' /\ ~STOP_DET' /\ pc' = "put"
        /\ op' = 1 /\ byte' = 0
    BY DEF Setup, DwInv, BusHandedOver, DriverAt
  <1>2. Stream' = <<>>
    <2>1. <<>> \o <<>> = <<>>
      BY EmptySeqs, ConcatEmptySeq
    <2> QED
      BY <1>1, <2>1, PlacesEmpty DEF Stream
  <1>3. InOrder(Stream') /\ All(Stream') = {}
    BY <1>2 DEF InOrder, All
  <1>4. Queued' = {}
    <2> SUFFICES ASSUME NEW x \in Queued' PROVE FALSE
      OBVIOUS
    <2>1. \E o \in 1 .. Len(packet') : \E b \in 0 .. packet'[o].len - 1 :
             o < 1 \/ (o = 1 /\ b < 0)
      <3>1. packet' \in Packets
        BY DEF DwTypeOK
      <3>2. x \in QueuedTo(packet', 1, 0)
        BY <1>1 DEF Queued, NextByte
      <3> QED
        BY <3>1, <3>2, QueuedToIs
    <2> QED
      BY <2>1
  <1> QED
    BY <1>1, <1>3, <1>4 DEF StreamFacts

\* Every step keeps the stream of a request that goes on in order.
LEMMA StreamInOrderNext ==
    ASSUME DwTypeOK, DwTypeOK', DwInv, SuccessInv, [Next]_vars
    PROVE  StreamInOrder'
  <1> SUFFICES ASSUME Going' PROVE StreamFacts'
    BY DEF StreamInOrder, StreamFacts
  <1> USE DEF drvVars, hwVars, reqVars, posVars, ctlVars, fifoVars, busVars, intVars
  <1>0. DriverAt /\ BusHandedOver /\ NothingLeftOver /\ (Going => StreamFacts)
    BY DEF SuccessInv, DwInv, StreamInOrder, StreamFacts
  <1>1. CASE Setup
    BY <1>0, <1>1, SetupInOrder
  <1>2. CASE PutWrite \/ PutRead
    <2>1. Going /\ pc = "put" /\ byte < packet[op].len /\ ~TX_ABRT /\ Len(tx) < TxFifo
          /\ tx' = Push(ByteCmd) /\ UNCHANGED <<wire, cur, stopping, STOP_DET, packet, op>>
      BY <1>2 DEF PutWrite, PutRead, WaitOver, Ready, Going, Transfer
    <2>2. \/ pc' = "put" /\ byte' = byte + 1
          \/ pc' = "get" /\ byte' = byte
      BY <1>2 DEF PutWrite, PutRead, WaitOver
    <2> QED
      BY <1>0, <2>1, <2>2, PushInOrder
  <1>3. CASE GetByte \/ NextOp \/ Drained \/ LastPollFails \/ Settled \/ UNCHANGED vars
    <2>1. Going /\ UNCHANGED <<wire, cur, tx, stopping, packet, STOP_DET, active>>
      BY <1>3 DEF GetByte, NextOp, Drained, LastPollFails, Settled, WaitOver, WaitFails, Going,
                  Transfer, vars
    <2>2. /\ \/ UNCHANGED <<pc, op, byte>>
             \/ pc = "get" /\ pc' = "put" /\ UNCHANGED op /\ byte' = byte + 1
             \/ pc = "put" /\ pc' = "put" /\ byte = packet[op].len /\ op' = op + 1 /\ byte' = 0
             \/ pc # "get" /\ pc' # "get" /\ UNCHANGED <<op, byte>>
          /\ pc' \in {"errors", "settle", "off"} => pc \in {"errors", "settle", "off"}
      BY <1>3 DEF GetByte, NextOp, Drained, LastPollFails, Settled, WaitOver, WaitFails, vars
    <2> QED
      BY <1>0, <2>1, <2>2, MoveInOrder
  <1>4. CASE Stopped
    <2>1. Going /\ UNCHANGED <<wire, cur, tx, stopping, packet, active, op, byte>>
          /\ STOP_DET /\ ~STOP_DET' /\ pc = "stop" /\ pc' = "errors"
      BY <1>4 DEF Stopped, WaitOver, Ready, Going, Transfer
    <2> QED
      BY <1>0, <2>1, MoveInOrder
  <1>5. CASE CheckErrors
    <2>1. Going /\ UNCHANGED <<wire, cur, tx, stopping, packet, STOP_DET, active, op, byte>>
          /\ pc = "errors" /\ pc' = "settle"
      BY <1>5 DEF CheckErrors, Going, Transfer
    <2> QED
      BY <1>0, <2>1, MoveInOrder
  <1>6. CASE HwDone
    <2>1. Going /\ cur[1].req = req
      <3>1. 1 \in 1 .. Len(cur)
        BY <1>6 DEF HwDone, DwTypeOK
      <3> QED
        BY <1>0, <1>6, <3>1 DEF HwDone, Going, NothingLeftOver
    <2> QED
      BY <1>0, <1>6, <2>1, DoneInOrder
  <1>7. CASE HwStart
    <2>1. Going
      BY <1>7 DEF HwStart, Going
    <2> QED
      BY <1>0, <1>7, <2>1, StartInOrder
  <1>8. CASE HwStop \/ HwNack \/ HwDisable
    <2>1. ASSUME HwStop PROVE FALSE
      BY <1>0, <2>1 DEF HwStop, Going, StreamFacts
    <2>2. ASSUME HwNack PROVE FALSE
      BY <2>2 DEF HwNack, Going
    <2>3. ASSUME HwDisable PROVE FALSE
      BY <1>0, <2>3 DEF HwDisable, Going, BusHandedOver
    <2> QED
      BY <1>8, <2>1, <2>2, <2>3
  <1>9. CASE \/ \E s \in Slaves, p \in Packets : StartRequest(s, p)
             \/ BusFree \/ BusBusy \/ DisableFirst \/ Return \/ Reset \/ SetBusFrequency
    BY <1>9 DEF StartRequest, BusFree, BusBusy, DisableFirst, Return, Reset, SetBusFrequency,
                Going, Transfer
  <1>10. CASE TransferFails \/ FinishFails \/ Abort
    BY <1>0, <1>10 DEF TransferFails, FinishFails, Abort, Going, DriverAt
  <1> QED
    BY <1>1, <1>2, <1>3, <1>4, <1>5, <1>6, <1>7, <1>8, <1>9, <1>10 DEF Next, Driver, Controller

\* A request returns EFI_SUCCESS only from a controller that is done with it,
\* and nothing between two requests disturbs what it left.
LEMMA SucceededNext ==
    ASSUME DwTypeOK, DwInv, SuccessInv, [Next]_vars
    PROVE  Succeeded'
  <1> SUFFICES ASSUME pc' = "idle", req' > 0, Status' = "SUCCESS"
               PROVE  Empty' /\ wire' # <<>> /\ InOrder(wire') /\ All(wire') = Bytes(packet')
    BY DEF Succeeded
  <1> USE DEF drvVars, hwVars, reqVars, posVars, ctlVars, fifoVars, busVars, intVars
  <1>0. DriverAt /\ BusHandedOver /\ StreamInOrder /\ Succeeded
    BY DEF SuccessInv, DwInv
  <1>1. CASE Return
    <2>1. pc = "off" /\ Status = "SUCCESS" /\ Disable /\ UNCHANGED <<cur, active, stopping, wire, packet>>
      BY <1>1 DEF Return
    <2>2. Going
      BY <1>0, <2>1 DEF Going, DriverAt, Transfer
    <2>3. Empty /\ LastByte \in Queued /\ InOrder(Stream) /\ All(Stream) = Queued
      BY <1>0, <2>1, <2>2 DEF StreamInOrder
    <2>4. Queued = Bytes(packet)
      BY <1>0, <2>1, QueuedAll DEF DriverAt
    <2>5. Stream = wire
      BY <2>3, StreamOver DEF Empty
    <2>6. wire # <<>>
      BY <2>3, <2>5 DEF All
    <2>7. tx' = <<>>
      BY <2>1, <2>3, DisableEffect DEF Empty
    <2>8. Empty'
      BY <2>1, <2>3, <2>7 DEF Empty
    <2> QED
      BY <2>1, <2>3, <2>4, <2>5, <2>6, <2>8
  <1>2. CASE pc = "idle" /\ UNCHANGED <<req, Status, packet>>
    <2>1. Empty /\ wire # <<>> /\ InOrder(wire) /\ All(wire) = Bytes(packet)
      BY <1>0, <1>2 DEF Succeeded
    <2>2. Empty' /\ wire' = wire
      <3>1. CASE Reset
        BY <2>1, <3>1, DisableEffect DEF Reset, Empty
      <3>2. CASE SetBusFrequency
        BY <2>1, <3>2 DEF SetBusFrequency, Empty
      <3>3. CASE Controller
        BY <2>1, <3>3 DEF Controller, HwStart, HwDone, HwNack, HwStop, HwDisable, Empty
      <3>4. CASE UNCHANGED vars
        BY <2>1, <3>4 DEF vars, Empty
      <3>5. CASE Driver
        BY <1>2, <3>5 DEF Driver, LastPollFails, BusFree, BusBusy, DisableFirst, Setup, PutWrite,
           PutRead, GetByte, NextOp, TransferFails, Abort, Drained, Stopped, FinishFails,
           CheckErrors, Settled, Return, WaitOver, WaitFails, Waits
      <3>6. CASE \E s \in Slaves, p \in Packets : StartRequest(s, p)
        BY <3>6 DEF StartRequest
      <3> QED
        BY <3>1, <3>2, <3>3, <3>4, <3>5, <3>6 DEF Next
    <2> QED
      BY <1>2, <2>1, <2>2
  <1>3. Return \/ (pc = "idle" /\ UNCHANGED <<req, Status, packet>>)
    <2>1. CASE Driver
      BY <2>1 DEF Driver, LastPollFails, BusFree, BusBusy, DisableFirst, Setup, PutWrite,
         PutRead, GetByte, NextOp, TransferFails, Abort, Drained, Stopped, FinishFails,
         CheckErrors, Settled, Waits, WaitOver, WaitFails
    <2>2. CASE Controller
      BY <2>2 DEF Controller, HwStart, HwDone, HwNack, HwStop, HwDisable
    <2>3. CASE Reset \/ SetBusFrequency \/ UNCHANGED vars
      BY <2>3 DEF Reset, SetBusFrequency, vars
    <2>4. CASE \E s \in Slaves, p \in Packets : StartRequest(s, p)
      BY <2>4 DEF StartRequest
    <2> QED
      BY <2>1, <2>2, <2>3, <2>4 DEF Next
  <1> QED
    BY <1>1, <1>2, <1>3

\* The controller starts off, with no request made.
LEMMA SuccessInit == Init => SuccessInv
  BY EmptySeqs DEF Init, SuccessInv, OldCommands, DriverAt, StreamInOrder, Succeeded, Going,
                   Transfer

\* The three inductive parts together.
FullInv == DwTypeOK /\ DwInv /\ SuccessInv

\* They are kept together.
LEMMA FullNext == FullInv /\ [Next]_vars => FullInv'
  <1> SUFFICES ASSUME FullInv, [Next]_vars PROVE FullInv'
    OBVIOUS
  <1>1. DwTypeOK /\ DwInv /\ SuccessInv
    BY DEF FullInv
  <1>2. DwTypeOK' /\ DwInv'
    BY <1>1, DwInvNext
  <1>3. OldCommands' /\ DriverAt' /\ StreamInOrder' /\ Succeeded'
    BY <1>1, <1>2, OldCommandsNext, DriverAtNext, StreamInOrderNext, SucceededNext
  <1> QED
    BY <1>2, <1>3 DEF FullInv, SuccessInv

\* As long as nothing went wrong, the bytes that went through, the one on the
\* wire and those in the FIFO are, in order, the bytes the loop has queued.
THEOREM StreamCorrect == Spec => []SuccessInv
  <1>1. Init => FullInv
    BY TypeInit, DwInvInit, SuccessInit DEF FullInv
  <1>2. FullInv => SuccessInv
    BY DEF FullInv
  <1> QED
    BY <1>1, <1>2, FullNext, PTL DEF Spec

\* DwI2cStartRequest returns EFI_SUCCESS only when the slave has taken or given
\* every byte of every operation, in order and once, and the bus is free.
THEOREM SuccessCorrect == Spec => []SuccessMeansDone
  <1>1. SuccessInv => SuccessMeansDone
    BY DEF SuccessInv, Succeeded, SuccessMeansDone, Empty, InOrder, All
  <1> QED
    BY <1>1, StreamCorrect, PTL
-----------------------------------------------------------------------------
(***************************************************************************)
(* The driver implements I2cBus, step by step.                             *)
(***************************************************************************)

\* Every byte of the packet went through.
Covered == wire # <<>> /\ All(wire) = Bytes(packet)

\* A step that changes neither what callers see nor, outside a transfer,
\* whether the bus is in use.
LEMMA BusStutters ==
    ASSUME UNCHANGED <<Lock, slave, tar, Status, wire, packet>>,
           (pc' \in Transfer) <=> (pc \in Transfer),
           pc \in Transfer \/ (active' <=> active)
    PROVE  UNCHANGED Bus!busVars
  <1>1. (pc' \in Transfer) = (pc \in Transfer)
    OBVIOUS
  <1>2. (active' \/ pc' \in Transfer) = (active \/ pc \in Transfer)
    OBVIOUS
  <1> QED
    BY <1>1, <1>2 DEF Bus!busVars

\* Outside a transfer, the bus becomes quiet.
LEMMA BusQuiets ==
    ASSUME UNCHANGED <<Lock, slave, tar, Status, wire, packet, pc>>, pc \notin Transfer,
           active, ~active'
    PROVE  Bus!Quiet
  BY DEF Bus!Quiet

\* Initial states are initial states of the bus.
LEMMA RefineInit == Init => Bus!BusInit
  BY DEF Init, Bus!BusInit, Transfer

\* Every step is a step of the bus, or none.
LEMMA RefineNext == FullInv /\ [Next]_vars => [Bus!BusNext]_Bus!busVars
  <1> SUFFICES ASSUME FullInv, [Next]_vars PROVE [Bus!BusNext]_Bus!busVars
    OBVIOUS
  <1> USE DEF drvVars, hwVars, reqVars, posVars, ctlVars, fifoVars, busVars, intVars
  <1>0. /\ DwTypeOK /\ DriverAt /\ BusHandedOver /\ NothingLeftOver /\ OldCommands
        /\ StreamInOrder /\ Succeeded
        /\ active \in BOOLEAN /\ Lock \in BOOLEAN
    BY DEF FullInv, DwInv, SuccessInv, DwTypeOK
  <1>1. ASSUME NEW s \in Slaves, NEW p \in Packets, StartRequest(s, p)
        PROVE  Bus!Ask(s)
    BY <1>0, <1>1 DEF StartRequest, DriverAt, Transfer, Bus!Ask
  <1>2. CASE BusBusy
    <2>1. Bus!Refuse
      BY <1>0, <1>2 DEF BusBusy, WaitFails, DriverAt, Transfer, Bus!Refuse
    <2> QED
      BY <2>1 DEF Bus!BusNext
  <1>3. CASE Setup
    <2>1. ~active /\ ~enabled /\ pc = "setup" /\ pc' = "put" /\ tar' = slave /\ Lock /\ Lock'
          /\ UNCHANGED <<slave, Status, wire, packet>>
      BY <1>0, <1>3 DEF Setup, BusHandedOver, DriverAt
    <2>2. Bus!Begin
      BY <2>1 DEF Transfer, Bus!Begin
    <2> QED
      BY <2>2 DEF Bus!BusNext
  <1>4. CASE Return
    <2>1. pc = "off" /\ pc' = "idle" /\ Lock' = FALSE /\ UNCHANGED <<slave, tar, wire, packet, active>>
          /\ (Status' = "SUCCESS" <=> Status = "SUCCESS")
      BY <1>4 DEF Return
    <2>2. CASE Status = "SUCCESS"
      <3>1. Going
        BY <1>0, <2>1, <2>2 DEF Going, DriverAt, Transfer
      <3>2. Empty /\ LastByte \in Queued /\ All(Stream) = Queued
        BY <1>0, <2>1, <3>1 DEF StreamInOrder
      <3>3. Queued = Bytes(packet)
        BY <1>0, <2>1, <2>2, QueuedAll DEF DriverAt
      <3>4. Stream = wire
        BY <1>0, <3>2, StreamOver DEF Empty
      <3>5. wire # <<>> /\ {wire[i] : i \in DOMAIN wire} = Bytes(packet) /\ ~active
        BY <3>2, <3>3, <3>4 DEF All, Empty
      <3>6. Bus!End(TRUE)
        BY <2>1, <2>2, <3>5 DEF Transfer, Bus!End
      <3> QED
        BY <3>6 DEF Bus!BusNext
    <2>3. CASE Status # "SUCCESS"
      <3>1. (active \/ pc \in Transfer)' \in {active \/ pc \in Transfer, FALSE}
        <4>1. (active \/ pc \in Transfer) = TRUE
          BY <2>1 DEF Transfer
        <4>2. (active \/ pc \in Transfer)' \in BOOLEAN
          OBVIOUS
        <4> QED
          BY <4>1, <4>2, Zenon
      <3>2. pc \in Transfer /\ (pc \in Transfer)' = FALSE
        BY <2>1 DEF Transfer
      <3>3. Bus!End(FALSE)
        BY <2>1, <2>3, <3>1, <3>2, Zenon DEF Bus!End
      <3> QED
        BY <3>3 DEF Bus!BusNext
    <2> QED
      BY <2>2, <2>3
  <1>5. CASE TransferFails \/ FinishFails \/ CheckErrors
    <2>1. pc \in Transfer /\ pc' \in Transfer /\ UNCHANGED <<Lock, slave, tar, wire, packet>>
          /\ (Status' = "SUCCESS" => Status = "SUCCESS")
      BY <1>5 DEF TransferFails, FinishFails, CheckErrors, WaitFails, Transfer
    <2>2. CASE Status' = "SUCCESS"
      <3>1. UNCHANGED Bus!busVars
        BY <2>1, <2>2 DEF Bus!busVars
      <3> QED
        BY <3>1
    <2>3. CASE Status = "SUCCESS" /\ Status' # "SUCCESS"
      <3>1. Bus!Spoil
        BY <2>1, <2>3 DEF Bus!Spoil
      <3> QED
        BY <3>1 DEF Bus!BusNext
    <2>4. CASE Status # "SUCCESS" /\ Status' # "SUCCESS"
      <3>1. UNCHANGED Bus!busVars
        BY <2>1, <2>4 DEF Bus!busVars
      <3> QED
        BY <3>1
    <2> QED
      BY <2>1, <2>2, <2>3, <2>4
  <1>6. CASE HwDone
    <2>1. /\ UNCHANGED <<Lock, slave, tar, packet, pc, Status>> /\ 1 \in 1 .. Len(cur) /\ cur # <<>>
          /\ wire' = IF cur[1].req = req THEN Append(wire, Place(cur[1])) ELSE wire
      BY <1>0, <1>6 DEF HwDone, DwTypeOK, Place
    <2>2. CASE pc \in Transfer /\ Status = "SUCCESS"
      <3>1. cur[1].req = req /\ Going
        BY <1>0, <2>1, <2>2 DEF NothingLeftOver, Going, DriverAt
      <3>2. InOrder(Stream) /\ All(Stream) = Queued
        BY <1>0, <3>1 DEF StreamInOrder
      <3>3. ~Covered
        <4>1. ASSUME Covered PROVE FALSE
          <5>1. wire \in Seq(Pair) /\ Len(wire) \in Nat /\ DOMAIN wire = 1 .. Len(wire)
                /\ cur \in Seq(Cmd) /\ tx \in Seq(Cmd) /\ Len(cur) \in Nat /\ Len(tx) \in Nat
            BY <1>0, LenProperties DEF DwTypeOK, Pair
          <5> DEFINE k == Len(wire) + 1
          <5>2. /\ Stream \in Seq(Pair) /\ Len(Stream) = Len(wire) + Len(cur) + Len(tx)
                /\ Stream[k] = Place(cur[1]) /\ \A i \in 1 .. Len(wire) : Stream[i] = wire[i]
            BY <1>0, <2>1, StreamType
          <5>3. DOMAIN Stream = 1 .. Len(Stream)
            BY <5>2, LenProperties
          <5>4. k \in DOMAIN Stream /\ \A i \in 1 .. Len(wire) : i \in DOMAIN Stream /\ i < k
            BY <2>1, <5>1, <5>2, <5>3
          <5> HIDE DEF k
          <5>5. Stream[k] \in Bytes(packet)
            BY <3>2, <5>4 DEF All, Queued, QueuedTo
          <5>6. PICK i \in 1 .. Len(wire) : wire[i] = Stream[k]
            BY <4>1, <5>1, <5>5 DEF Covered, All
          <5>7. Before(Stream[i], Stream[k]) /\ Stream[i] = Stream[k]
            BY <3>2, <5>2, <5>4, <5>6 DEF InOrder
          <5>8. Stream[k] \in Pair
            BY <5>2, <5>3, <5>4, ElementOfSeq
          <5>9. ASSUME NEW x \in Pair PROVE ~Before(x, x)
            BY DEF Pair, Before
          <5> QED
            BY <5>7, <5>8, <5>9
        <4> QED
          BY <4>1
      <3>4. CASE Covered'
        <4>1. Bus!Deliver
          BY <2>1, <2>2, <3>3, <3>4 DEF Bus!Deliver, Covered, All
        <4> QED
          BY <4>1 DEF Bus!BusNext
      <3>5. CASE ~Covered'
        <4>1. UNCHANGED Bus!busVars
          BY <2>1, <2>2, <3>3, <3>5 DEF Bus!busVars, Covered, All
        <4> QED
          BY <4>1
      <3> QED
        BY <3>4, <3>5
    <2>3. CASE pc \in Transfer /\ Status # "SUCCESS"
      <3>1. UNCHANGED Bus!busVars
        BY <2>1, <2>3 DEF Bus!busVars
      <3> QED
        BY <3>1
    <2>4. CASE pc \notin Transfer
      <3>1. active
        BY <1>0, <2>1 DEF BusHandedOver
      <3>2. Status # "SUCCESS" \/ wire' = wire
        <4>1. CASE pc = "idle"
          <5>1. req \in 1 .. req \/ cur[1].req # req
            BY <1>0, <2>1 DEF OldCommands
          <5>2. CASE Status = "SUCCESS" /\ req > 0
            BY <1>0, <2>1, <4>1, <5>2 DEF Succeeded, Empty
          <5>3. CASE ~(req > 0)
            BY <1>0, <2>1, <5>3 DEF OldCommands, DwTypeOK
          <5> QED
            BY <5>2, <5>3
        <4>2. CASE pc \in {"busy", "disable", "setup"}
          BY <1>0, <2>1, <4>2 DEF OldCommands
        <4> QED
          BY <1>0, <2>4, <4>1, <4>2 DEF DwTypeOK
      <3>3. CASE active' <=> active
        <4>1. UNCHANGED Bus!busVars
          BY <2>1, <2>4, <3>2, <3>3 DEF Bus!busVars
        <4> QED
          BY <4>1
      <3>4. CASE ~active'
        <4>1. Bus!Quiet
          BY <2>1, <2>4, <3>1, <3>2, <3>4 DEF Bus!Quiet
        <4> QED
          BY <4>1 DEF Bus!BusNext
      <3>5. active' \in BOOLEAN
        BY <1>6 DEF HwDone
      <3> QED
        BY <3>1, <3>3, <3>4, <3>5
    <2> QED
      BY <2>2, <2>3, <2>4
  <1>7. CASE HwStart
    <2>1. pc \in Transfer
      BY <1>0, <1>7 DEF HwStart, BusHandedOver, DwTypeOK
    <2>2. UNCHANGED Bus!busVars
      BY <1>7, <2>1, BusStutters DEF HwStart
    <2> QED
      BY <2>2
  <1>8. CASE HwStop \/ HwDisable
    <2>1. UNCHANGED <<Lock, slave, tar, Status, wire, packet, pc>> /\ active' = FALSE
      BY <1>8 DEF HwStop, HwDisable
    <2>2. CASE pc \in Transfer \/ ~active
      <3>1. UNCHANGED Bus!busVars
        BY <2>1, <2>2, BusStutters
      <3> QED
        BY <3>1
    <2>3. CASE pc \notin Transfer /\ active
      <3>1. Bus!Quiet
        BY <2>1, <2>3, BusQuiets
      <3> QED
        BY <3>1 DEF Bus!BusNext
    <2> QED
      BY <1>0, <2>2, <2>3
  <1>9. CASE HwNack \/ Reset \/ SetBusFrequency \/ LastPollFails \/ UNCHANGED vars
    <2>1. UNCHANGED <<Lock, slave, tar, Status, wire, packet, pc, active>>
      BY <1>9 DEF HwNack, Reset, SetBusFrequency, LastPollFails, vars
    <2>2. UNCHANGED Bus!busVars
      BY <2>1, BusStutters
    <2> QED
      BY <2>2
  <1>10. CASE BusFree \/ DisableFirst
    <2>1. UNCHANGED <<Lock, slave, tar, Status, wire, packet, active>>
          /\ pc \notin Transfer /\ pc' \notin Transfer
      BY <1>10 DEF BusFree, DisableFirst, WaitOver, Transfer
    <2>2. UNCHANGED Bus!busVars
      BY <2>1, BusStutters
    <2> QED
      BY <2>2
  <1>11. CASE PutWrite \/ PutRead \/ GetByte \/ NextOp \/ Abort \/ Drained \/ Stopped \/ Settled
    <2>1. UNCHANGED <<Lock, slave, tar, Status, wire, packet, active>>
      BY <1>11 DEF PutWrite, PutRead, GetByte, NextOp, Abort, Drained, Stopped, Settled
    <2>2. pc \in Transfer /\ pc' \in Transfer
      BY <1>11 DEF PutWrite, PutRead, GetByte, NextOp, Abort, Drained, Stopped, Settled,
                   WaitOver, WaitFails, Transfer
    <2>3. UNCHANGED Bus!busVars
      BY <2>1, <2>2, BusStutters
    <2> QED
      BY <2>3
  <1>12. (\E s \in Slaves, p \in Packets : StartRequest(s, p)) => Bus!BusNext
    BY <1>1 DEF Bus!BusNext
  <1> QED
    BY <1>2, <1>3, <1>4, <1>5, <1>6, <1>7, <1>8, <1>9, <1>10, <1>11, <1>12
    DEF Next, Driver, Controller

\* Polling a slow controller, with timeouts, refusals and late completions,
\* DwI2cStartRequest is an I2C master that serves whole requests: one on the
\* wire at a time, to its own slave, and success only when it went through.
THEOREM BusRefined == Spec => RefinesI2cBus
  <1>1. Init => FullInv
    BY TypeInit, DwInvInit, SuccessInit DEF FullInv
  <1> QED
    BY <1>1, FullNext, RefineInit, RefineNext, PTL DEF Spec, RefinesI2cBus, Bus!BusSpec
=============================================================================

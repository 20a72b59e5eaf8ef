---------------------------- MODULE Pca954xProof ----------------------------
(***************************************************************************)
(* Proofs about the multiplexer's cached channel and the two levels of     *)
(* callers over the abstract bus, for every set of channels.  MuxInv is    *)
(* inductive: one step for every action.                                   *)
(***************************************************************************)
EXTENDS Pca954x, TLAPS

USE DEF callVars, initVars, muxVars, fanVars, wireVars, busVars, vars, softVars, Bus!busVars

-----------------------------------------------------------------------------
(***************************************************************************)
(* The bus.                                                                *)
(***************************************************************************)

\* What a return of the parent's StartRequest leaves behind: the bus is no
\* longer serving and nothing new is on the wire.
AfterReturn ==
    /\ serving /\ ~serving' /\ ~begun'
    /\ begun' \in BOOLEAN /\ serving' \in BOOLEAN /\ live' \in BOOLEAN
    /\ done' \in {"no", "yes", "spoilt"}
    /\ slave' = slave /\ to' = to
    /\ live' => live

\* After a success the request has gone through and the wire is free.
LEMMA ReturnsEffect ==
    ASSUME MuxTypeOK, OneAtATime, NEW ok \in BOOLEAN, Returns(ok)
    PROVE  AfterReturn /\ (ok => begun /\ done = "yes" /\ ~live')
  BY DEF AfterReturn, MuxTypeOK, OneAtATime, Returns, Bus!End, Bus!Refuse

\* While a context's request is served, it is the one the bus' record names.
LEMMA CallerUnique ==
    ASSUME MuxTypeOK, OneAtATime, serving
    PROVE  /\ Caller \in Contexts
           /\ pc[Caller] \in OnBus
           /\ \A c \in Contexts : pc[c] \in OnBus => c = Caller
  <1>1. \E c \in Contexts : pc[c] \in OnBus
    BY DEF OneAtATime
  <1>2. Caller \in Contexts /\ pc[Caller] \in OnBus
    BY <1>1 DEF Caller
  <1>3. ASSUME NEW c \in Contexts, NEW d \in Contexts, pc[c] \in OnBus, pc[d] \in OnBus
        PROVE  c = d
    BY <1>3 DEF OneAtATime, OnBus, Contexts
  <1> QED BY <1>2, <1>3

-----------------------------------------------------------------------------
(***************************************************************************)
(* The invariant.                                                          *)
(***************************************************************************)

\* The initial states satisfy it, whatever channel was left connected.
LEMMA MuxInitial == Init => MuxInv
  BY MuxAssumption
  DEF Init, Bus!BusInit, Contexts, Slaves, Values, InMux, OnBus, Selecting, MuxInv, MuxTypeOK,
      OneAtATime, ProbeFirst, SelectOnWire, CacheIsRight, ReachesItsChannel

\* Every step keeps it.
LEMMA MuxStep == ASSUME MuxInv, [Next]_vars PROVE MuxInv'
  <1> USE MuxAssumption
      DEF MuxInv, MuxTypeOK, OneAtATime, ProbeFirst, SelectOnWire, CacheIsRight, ReachesItsChannel,
          Slaves, Contexts, Values, InMux, OnBus, Selecting,
          Running, Dispatchable, CanCall, Goto, AfterReturn
  <1>1. ASSUME NEW c \in Contexts, NEW k \in Channels, StartRequest(c, k) PROVE MuxInv'
    BY <1>1 DEF StartRequest
  <1>2. ASSUME NEW c \in Contexts, SelectCached(c) PROVE MuxInv'
    BY <1>2 DEF SelectCached
  <1>3. ASSUME NEW c \in Contexts, SelectChannel(c) PROVE MuxInv'
    BY <1>3 DEF SelectChannel, Request, Bus!Ask
  <1>4. ASSUME NEW c \in Contexts, SelectDone(c) PROVE MuxInv'
    <2>1. Returns(TRUE)
      BY <1>4 DEF SelectDone
    <2>2. AfterReturn /\ begun /\ done = "yes" /\ ~live'
      BY <2>1, ReturnsEffect
    <2>3. MuxTypeOK'
      BY <1>4, <2>2 DEF SelectDone
    <2>4. OneAtATime'
      BY <1>4, <2>2 DEF SelectDone
    <2>5. ProbeFirst'
      BY <1>4, <2>2 DEF SelectDone
    <2>6. SelectOnWire'
      BY <1>4, <2>2 DEF SelectDone
    <2>7. CacheIsRight'
      BY <1>4, <2>2 DEF SelectDone
    <2>8. ReachesItsChannel'
      BY <1>4, <2>2 DEF SelectDone
    <2> QED BY <2>3, <2>4, <2>5, <2>6, <2>7, <2>8
  <1>5. ASSUME NEW c \in Contexts, SelectFails(c) PROVE MuxInv'
    <2>1. Returns(FALSE)
      BY <1>5 DEF SelectFails
    <2>2. AfterReturn
      BY <2>1, ReturnsEffect
    <2>3. /\ Running(c) /\ pc[c] = "selecting" /\ Goto(c, "idle") /\ ActiveChannel' = None
          /\ UNCHANGED <<chan, initVars, fanVars, wireVars>>
      BY <1>5 DEF SelectFails
    <2>4. Lock' \in BOOLEAN /\ ~Lock'
      BY <1>5, Zenon DEF SelectFails
    <2>5. MuxTypeOK'
      BY <2>2, <2>3, <2>4
    <2>6. OneAtATime'
      BY <2>2, <2>3, <2>4
    <2>7. ProbeFirst'
      BY <2>2, <2>3, <2>4
    <2>8. SelectOnWire'
      BY <2>2, <2>3, <2>4
    <2>9. CacheIsRight'
      BY <2>2, <2>3, <2>4
    <2>10. ReachesItsChannel'
      BY <2>2, <2>3, <2>4
    <2> QED BY <2>5, <2>6, <2>7, <2>8, <2>9, <2>10
  <1>6. ASSUME NEW c \in Contexts, Forward(c) PROVE MuxInv'
    BY <1>6 DEF Forward, Request, Bus!Ask
  <1>7. ASSUME NEW c \in Contexts, ForwardEnds(c) PROVE MuxInv'
    <2>1. PICK ok \in BOOLEAN : Returns(ok)
      BY <1>7 DEF ForwardEnds
    <2>2. AfterReturn
      BY <2>1, ReturnsEffect
    <2>3. /\ Running(c) /\ pc[c] = "forwarding" /\ Goto(c, "idle")
          /\ UNCHANGED <<chan, initVars, ActiveChannel, fanVars, wireVars>>
      BY <1>7 DEF ForwardEnds
    <2>4. Lock' \in BOOLEAN /\ ~Lock'
      BY <1>7, Zenon DEF ForwardEnds
    <2>5. MuxTypeOK'
      BY <2>2, <2>3, <2>4
    <2>6. OneAtATime'
      BY <2>2, <2>3, <2>4
    <2>7. ProbeFirst'
      BY <2>2, <2>3, <2>4
    <2>8. SelectOnWire'
      BY <2>2, <2>3, <2>4
    <2>9. CacheIsRight'
      BY <2>2, <2>3, <2>4
    <2>10. ReachesItsChannel'
      BY <2>2, <2>3, <2>4
    <2> QED BY <2>5, <2>6, <2>7, <2>8, <2>9, <2>10
  <1>8. ASSUME NEW c \in Contexts, Reset(c) PROVE MuxInv'
    BY <1>8 DEF Reset
  <1>9. ASSUME NEW c \in Contexts, ResetForgets(c) PROVE MuxInv'
    BY <1>9 DEF ResetForgets
  <1>10. CASE Probe
    BY <1>10 DEF Probe, Request, Bus!Ask
  <1>11. CASE ProbeEnds
    <2>1. PICK ok \in BOOLEAN : Returns(ok)
      BY <1>11 DEF ProbeEnds
    <2>2. AfterReturn
      BY <2>1, ReturnsEffect
    <2>3. MuxTypeOK'
      BY <1>11, <2>2 DEF ProbeEnds
    <2>4. OneAtATime'
      BY <1>11, <2>2 DEF ProbeEnds
    <2>5. ProbeFirst'
      BY <1>11, <2>2 DEF ProbeEnds
    <2>6. SelectOnWire'
      BY <1>11, <2>2 DEF ProbeEnds
    <2>7. CacheIsRight'
      BY <1>11, <2>2 DEF ProbeEnds
    <2>8. ReachesItsChannel'
      BY <1>11, <2>2 DEF ProbeEnds
    <2> QED BY <2>3, <2>4, <2>5, <2>6, <2>7, <2>8
  <1>12. ASSUME NEW k \in Channels, CreateChannel(k) PROVE MuxInv'
    BY <1>12 DEF CreateChannel
  <1>13. CASE CreateFails
    BY <1>13 DEF CreateFails
  <1>14. CASE FanReadVersion
    BY <1>14 DEF FanReadVersion, Request, Bus!Ask
  <1>15. CASE FanVersionRead
    <2>1. PICK ok \in BOOLEAN : Returns(ok)
      BY <1>15 DEF FanVersionRead
    <2>2. AfterReturn
      BY <2>1, ReturnsEffect
    <2>3. MuxTypeOK'
      BY <1>15, <2>2 DEF FanVersionRead
    <2>4. OneAtATime'
      BY <1>15, <2>2 DEF FanVersionRead
    <2>5. ProbeFirst'
      BY <1>15, <2>2 DEF FanVersionRead
    <2>6. SelectOnWire'
      BY <1>15, <2>2 DEF FanVersionRead
    <2>7. CacheIsRight'
      BY <1>15, <2>2 DEF FanVersionRead
    <2>8. ReachesItsChannel'
      BY <1>15, <2>2 DEF FanVersionRead
    <2> QED BY <2>3, <2>4, <2>5, <2>6, <2>7, <2>8
  <1>16. CASE FanSendPwm
    BY <1>16 DEF FanSendPwm, Request, Bus!Ask
  <1>17. CASE FanPwmSent
    <2>1. PICK ok \in BOOLEAN : Returns(ok)
      BY <1>17 DEF FanPwmSent
    <2>2. AfterReturn
      BY <2>1, ReturnsEffect
    <2>3. MuxTypeOK'
      BY <1>17, <2>2 DEF FanPwmSent
    <2>4. OneAtATime'
      BY <1>17, <2>2 DEF FanPwmSent
    <2>5. ProbeFirst'
      BY <1>17, <2>2 DEF FanPwmSent
    <2>6. SelectOnWire'
      BY <1>17, <2>2 DEF FanPwmSent
    <2>7. CacheIsRight'
      BY <1>17, <2>2 DEF FanPwmSent
    <2>8. ReachesItsChannel'
      BY <1>17, <2>2 DEF FanPwmSent
    <2> QED BY <2>3, <2>4, <2>5, <2>6, <2>7, <2>8
  <1>18. CASE TimerFires
    BY <1>18 DEF TimerFires
  <1>19. CASE Keepalive
    <2>1. keepalive' \in BOOLEAN
      BY <1>19, Zenon DEF Keepalive
    <2>2. CanCall("callback") /\ UNCHANGED <<chan, fan, initVars, muxVars, wireVars>>
      BY <1>19 DEF Keepalive
    <2>3. CASE Request("callback", Fan, "direct")
      BY <2>1, <2>2, <2>3 DEF Request, Bus!Ask
    <2>4. CASE UNCHANGED <<callVars, fan, busVars>>
      BY <2>1, <2>2, <2>4
    <2> QED BY <1>19, <2>3, <2>4 DEF Keepalive
  <1>20. CASE Eeprom
    BY <1>20 DEF Eeprom, Request, Bus!Ask
  <1>21. ASSUME NEW c \in Contexts, DirectEnds(c) PROVE MuxInv'
    <2>1. PICK ok \in BOOLEAN : Returns(ok)
      BY <1>21 DEF DirectEnds
    <2>2. AfterReturn
      BY <2>1, ReturnsEffect
    <2>3. MuxTypeOK'
      BY <1>21, <2>2 DEF DirectEnds
    <2>4. OneAtATime'
      BY <1>21, <2>2 DEF DirectEnds
    <2>5. ProbeFirst'
      BY <1>21, <2>2 DEF DirectEnds
    <2>6. SelectOnWire'
      BY <1>21, <2>2 DEF DirectEnds
    <2>7. CacheIsRight'
      BY <1>21, <2>2 DEF DirectEnds
    <2>8. ReachesItsChannel'
      BY <1>21, <2>2 DEF DirectEnds
    <2> QED BY <2>3, <2>4, <2>5, <2>6, <2>7, <2>8
  <1>22. CASE WireBegins
    <2>1. /\ serving /\ ~begun /\ ~live /\ begun' /\ live' /\ to' = slave
          /\ begun' \in BOOLEAN /\ live' \in BOOLEAN
          /\ serving' = serving /\ slave' = slave /\ done' = done
      BY <1>22 DEF WireBegins, Bus!Begin
    <2> DEFINE d == Caller
    <2>2. /\ d \in Contexts /\ pc[d] \in OnBus
          /\ \A c \in Contexts : pc[c] \in OnBus => c = d
      BY <2>1, CallerUnique
    <2>3. /\ value' = IF pc[d] = "selecting" THEN chan[d] ELSE None
          /\ route' = IF pc[d] = "forwarding" THEN chan[d] ELSE Trunk
          /\ UNCHANGED <<softVars, sel>>
      BY <1>22 DEF WireBegins
    <2> HIDE DEF d
    <2>4. MuxTypeOK'
      BY <2>1, <2>2, <2>3
    <2>5. OneAtATime'
      BY <2>1, <2>2, <2>3
    <2>6. ProbeFirst'
      BY <2>1, <2>2, <2>3
    <2>7. SelectOnWire'
      BY <2>1, <2>2, <2>3
    <2>8. CacheIsRight'
      BY <2>1, <2>2, <2>3
    <2>9. ReachesItsChannel'
      BY <2>1, <2>2, <2>3
    <2> QED BY <2>4, <2>5, <2>6, <2>7, <2>8, <2>9
  <1>23. CASE WireDelivers
    BY <1>23 DEF WireDelivers, Bus!Deliver
  <1>24. CASE WireFails
    BY <1>24 DEF WireFails, Bus!Spoil
  <1>25. CASE WireStrays
    BY <1>25 DEF WireStrays, Bus!Stray
  <1>26. CASE WireQuiet
    <2>1. /\ live /\ ~begun /\ ~live' /\ live' \in BOOLEAN
          /\ UNCHANGED <<softVars, wireVars, serving, slave, begun, done, to>>
      BY <1>26, Zenon DEF WireQuiet, Bus!Quiet
    <2> QED BY <2>1
  <1>27. CASE UNCHANGED vars
    BY <1>27
  <1> QED
    BY <1>1, <1>2, <1>3, <1>4, <1>5, <1>6, <1>7, <1>8, <1>9, <1>10, <1>11, <1>12, <1>13,
       <1>14, <1>15, <1>16, <1>17, <1>18, <1>19, <1>20, <1>21, <1>22, <1>23, <1>24, <1>25,
       <1>26, <1>27
    DEF Next, Continue, Initialize, Wire

\* In every reachable state the cached channel is the connected one and a
\* request on a channel finds it connected, for any number of channels, any
\* interleaving of the two levels and any failures of the bus.
THEOREM MuxCorrect == Spec => []MuxInv
  <1> QED BY MuxInitial, MuxStep, PTL DEF Spec
=============================================================================

------------------------------ MODULE Pca954x -------------------------------
(***************************************************************************)
(* Pca954xDxe and FanDxe over one I2C bus.  The multiplexer's driver keeps *)
(* in ActiveChannel which channel it last selected and skips the select    *)
(* when it is asked for the same one again; FanDxe and                     *)
(* BoardI2cEepromProbeApp use the bus underneath it directly.              *)
(*                                                                         *)
(* Two execution contexts: code at TPL_APPLICATION, and notifications at   *)
(* TPL_CALLBACK, which interrupt it whenever neither the multiplexer's     *)
(* lock nor the bus' lock (both TPL_NOTIFY) is held, and run to their end. *)
(* Assumed: nobody but this driver addresses the multiplexer.              *)
(***************************************************************************)
EXTENDS Naturals

CONSTANTS
    Channels,       \* channels of the multiplexer
    Mux,            \* PCA9546_SLAVE_ADDRESS
    Fan,            \* FAN_MCU_SLAVE_ADDRESS
    Device          \* a slave behind the channels, or on the trunk

Slaves   == {Mux, Fan, Device}
Contexts == {"app", "callback"}
None     == "none"      \* PCA954X_NO_CHANNEL; the register value 0
Trunk    == "trunk"     \* a request that was not made through a channel
Values   == Channels \cup {None}

ASSUME MuxAssumption ==
    /\ Channels # {}
    /\ {None, Trunk} \cap Channels = {}
    /\ Mux # Fan /\ Mux # Device

VARIABLES
    pc,             \* position of each context
    chan,           \* Chan->Channel of the call each context is in
    phase,          \* Pca954xDxeInitialize: "start", "create", "up", "failed"
    created,        \* channels whose protocols are installed
    Lock,           \* Mux->Lock
    ActiveChannel,  \* Mux->ActiveChannel
    fan,            \* FanDxeInitialize: "start", "version", "off", "on"
    keepalive,      \* mKeepaliveEvent is signalled
    serving, slave, begun, done, live, to,      \* the bus
    value,          \* the register value the request on the wire carries, if any
    route,          \* history: the channel the request on the wire was made for
    sel             \* the multiplexer: the channel that is connected

callVars == <<pc, chan>>
initVars == <<phase, created>>
muxVars  == <<Lock, ActiveChannel>>
fanVars  == <<fan, keepalive>>
wireVars == <<value, route, sel>>
busVars  == <<serving, slave, begun, done, live, to>>
vars     == <<callVars, initVars, muxVars, fanVars, wireVars, busVars>>

Bus == INSTANCE I2cBus

Goto(c, l) == pc' = [pc EXCEPT ![c] = l]

\* Context c has the processor; a notification is dispatched only while the
\* task priority is below TPL_NOTIFY, that is while no lock is held.
Running(c)     == c = "app" => pc["callback"] = "idle"
Dispatchable(c) == c = "callback" => ~Lock /\ ~serving
CanCall(c)     == Running(c) /\ Dispatchable(c) /\ pc[c] = "idle"

\* Context c calls the parent's StartRequest and goes on at l when it returns.
Request(c, s, l) ==
    /\ Bus!Ask(s)
    /\ Goto(c, l)

\* The parent's StartRequest returns to context c.
Returns(ok) == IF ok THEN Bus!End(TRUE) ELSE Bus!End(FALSE) \/ Bus!Refuse
-----------------------------------------------------------------------------
(***************************************************************************)
(* Pca954xStartRequest on channel k.                                       *)
(***************************************************************************)

StartRequest(c, k) ==
    /\ CanCall(c) /\ ~Lock /\ k \in created
    /\ Lock' = TRUE
    /\ chan' = [chan EXCEPT ![c] = k]
    /\ Goto(c, "select")
    /\ UNCHANGED <<initVars, ActiveChannel, fanVars, wireVars, busVars>>

\* Pca954xSelectChannel, "already active".
SelectCached(c) ==
    /\ Running(c) /\ pc[c] = "select"
    /\ ActiveChannel = chan[c]
    /\ Goto(c, "forward")
    /\ UNCHANGED <<chan, initVars, muxVars, fanVars, wireVars, busVars>>

SelectChannel(c) ==
    /\ Running(c) /\ pc[c] = "select"
    /\ ActiveChannel # chan[c]
    /\ Request(c, Mux, "selecting")
    /\ UNCHANGED <<chan, initVars, muxVars, fanVars, wireVars>>

SelectDone(c) ==
    /\ Running(c) /\ pc[c] = "selecting"
    /\ Returns(TRUE)
    /\ ActiveChannel' = chan[c]
    /\ Goto(c, "forward")
    /\ UNCHANGED <<chan, initVars, Lock, fanVars, wireVars>>

\* Slips: a failed select leaves the cache alone; the early exit keeps the lock.
SelectFailsKeepsCache(c) ==
    /\ Running(c) /\ pc[c] = "selecting"
    /\ Returns(FALSE)
    /\ Lock' = FALSE
    /\ Goto(c, "idle")
    /\ UNCHANGED <<chan, initVars, ActiveChannel, fanVars, wireVars>>

SelectFailsKeepsLock(c) ==
    /\ Running(c) /\ pc[c] = "selecting"
    /\ Returns(FALSE)
    /\ ActiveChannel' = None
    /\ Goto(c, "idle")
    /\ UNCHANGED <<chan, initVars, Lock, fanVars, wireVars>>

SelectFails(c) ==
    /\ Running(c) /\ pc[c] = "selecting"
    /\ Returns(FALSE)
    /\ ActiveChannel' = None
    /\ Lock' = FALSE
    /\ Goto(c, "idle")
    /\ UNCHANGED <<chan, initVars, fanVars, wireVars>>

Forward(c) ==
    /\ Running(c) /\ pc[c] = "forward"
    /\ Request(c, Device, "forwarding")
    /\ UNCHANGED <<chan, initVars, muxVars, fanVars, wireVars>>

ForwardEnds(c) ==
    /\ Running(c) /\ pc[c] = "forwarding"
    /\ \E ok \in BOOLEAN : Returns(ok)
    /\ Lock' = FALSE
    /\ Goto(c, "idle")
    /\ UNCHANGED <<chan, initVars, ActiveChannel, fanVars, wireVars>>
-----------------------------------------------------------------------------
(***************************************************************************)
(* Pca954xReset takes no lock: the parent's Reset, which a caller of the   *)
(* bus cannot tell from no step, and then the cache, with room for a       *)
(* notification between the two.  Pca954xSetBusFrequency only forwards.    *)
(***************************************************************************)
Reset(c) ==
    /\ CanCall(c) /\ created # {} /\ ~serving
    /\ Goto(c, "reset")
    /\ UNCHANGED <<chan, initVars, muxVars, fanVars, wireVars, busVars>>

ResetForgets(c) ==
    /\ Running(c) /\ pc[c] = "reset"
    /\ ActiveChannel' = None
    /\ Goto(c, "idle")
    /\ UNCHANGED <<chan, initVars, Lock, fanVars, wireVars, busVars>>
-----------------------------------------------------------------------------
(***************************************************************************)
(* Pca954xDxeInitialize, in the dispatcher's context.                      *)
(***************************************************************************)
Probe ==
    /\ CanCall("app") /\ phase = "start"
    /\ Request("app", Mux, "probe")
    /\ UNCHANGED <<chan, initVars, muxVars, fanVars, wireVars>>

\* A failed probe frees the context and installs nothing.
ProbeEnds ==
    /\ Running("app") /\ pc["app"] = "probe"
    /\ \E ok \in BOOLEAN : Returns(ok) /\ phase' = IF ok THEN "create" ELSE "failed"
    /\ Goto("app", "idle")
    /\ UNCHANGED <<chan, created, muxVars, fanVars, wireVars>>

\* (The code creates them by index; here in any order.)
\* Channels are created one by one; from the installation of one on, it can
\* be used (a notification may, before the next is there).
CreateChannel(k) ==
    /\ CanCall("app") /\ phase = "create"
    /\ k \notin created
    /\ created' = created \cup {k}
    /\ phase' = IF created' = Channels THEN "up" ELSE phase
    /\ UNCHANGED <<callVars, muxVars, fanVars, wireVars, busVars>>

\* Out of memory, or the installation fails: those created so far remain.
CreateFails ==
    /\ CanCall("app") /\ phase = "create"
    /\ phase' = "failed"
    /\ UNCHANGED <<callVars, created, muxVars, fanVars, wireVars, busVars>>
-----------------------------------------------------------------------------
(***************************************************************************)
(* Users of the bus underneath: FanDxe, which reads the MCU's version,     *)
(* sets the speed and starts a periodic timer, and                         *)
(* BoardI2cEepromProbeApp.                                                 *)
(***************************************************************************)
FanReadVersion ==
    /\ CanCall("app") /\ fan = "start"
    /\ Request("app", Fan, "version")
    /\ UNCHANGED <<chan, initVars, muxVars, fanVars, wireVars>>

\* The request fails or the answer does not check; or it is the MCU.
FanVersionRead ==
    /\ Running("app") /\ pc["app"] = "version"
    /\ \E ok \in BOOLEAN : Returns(ok) /\ fan' \in IF ok THEN {"version", "off"} ELSE {"off"}
    /\ Goto("app", "idle")
    /\ UNCHANGED <<chan, initVars, muxVars, keepalive, wireVars>>

FanSendPwm ==
    /\ CanCall("app") /\ fan = "version"
    /\ Request("app", Fan, "pwm")
    /\ UNCHANGED <<chan, initVars, muxVars, fanVars, wireVars>>

\* The timer is set, unless the command fails or no event is to be had.
FanPwmSent ==
    /\ Running("app") /\ pc["app"] = "pwm"
    /\ \E ok \in BOOLEAN : Returns(ok) /\ fan' \in IF ok THEN {"on", "off"} ELSE {"off"}
    /\ Goto("app", "idle")
    /\ UNCHANGED <<chan, initVars, muxVars, keepalive, wireVars>>

TimerFires ==
    /\ fan = "on" /\ ~keepalive
    /\ keepalive' = TRUE
    /\ UNCHANGED <<callVars, initVars, muxVars, fan, wireVars, busVars>>

\* FanKeepaliveTimerCallback; without memory for the packet it sends nothing.
Keepalive ==
    /\ CanCall("callback") /\ keepalive
    /\ keepalive' = FALSE
    /\ \/ Request("callback", Fan, "direct") /\ UNCHANGED <<chan, fan>>
       \/ UNCHANGED <<callVars, fan, busVars>>
    /\ UNCHANGED <<initVars, muxVars, wireVars>>

\* EepromProbe and EepromRead.
Eeprom ==
    /\ CanCall("app")
    /\ Request("app", Device, "direct")
    /\ UNCHANGED <<chan, initVars, muxVars, fanVars, wireVars>>

DirectEnds(c) ==
    /\ Running(c) /\ pc[c] = "direct"
    /\ \E ok \in BOOLEAN : Returns(ok)
    /\ Goto(c, "idle")
    /\ UNCHANGED <<chan, initVars, muxVars, fanVars, wireVars>>
-----------------------------------------------------------------------------
(***************************************************************************)
(* The bus and the multiplexer on it.                                      *)
(***************************************************************************)
softVars == <<callVars, initVars, muxVars, fanVars>>

\* The context whose request the bus serves.
OnBus  == {"selecting", "forwarding", "probe", "version", "pwm", "direct"}
Caller == CHOOSE c \in Contexts : pc[c] \in OnBus

WireBegins ==
    /\ Bus!Begin
    /\ value' = IF pc[Caller] = "selecting" THEN chan[Caller] ELSE None
    /\ route' = IF pc[Caller] = "forwarding" THEN chan[Caller] ELSE Trunk
    /\ UNCHANGED <<softVars, sel>>

\* The multiplexer connects the channel it is told.
WireDelivers ==
    /\ Bus!Deliver
    /\ sel' = IF to = Mux THEN value ELSE sel
    /\ UNCHANGED <<softVars, value, route>>

WireFails ==
    /\ Bus!Spoil
    /\ UNCHANGED <<softVars, wireVars>>

\* What a failing request still does: its byte arrives, or the zero byte of
\* the abort, which connects no channel.
WireStrays ==
    /\ Bus!Stray
    /\ to = Mux
    /\ sel' \in {value, None}
    /\ UNCHANGED <<softVars, value, route, busVars>>

WireQuiet ==
    /\ Bus!Quiet
    /\ UNCHANGED <<softVars, wireVars>>
-----------------------------------------------------------------------------
Init ==
    /\ pc = [c \in Contexts |-> "idle"]
    /\ chan \in [Contexts -> Channels]
    /\ phase = "start"
    /\ created = {}
    /\ Lock = FALSE
    /\ ActiveChannel = None
    /\ fan = "start"
    /\ keepalive = FALSE
    /\ Bus!BusInit
    /\ value = None
    /\ route = Trunk
    /\ sel \in Values           \* RouterBOOT may have left a channel connected

\* A call that has begun goes on.
Continue(c) ==
    \/ SelectCached(c) \/ SelectChannel(c) \/ SelectDone(c) \/ SelectFails(c)
    \/ Forward(c) \/ ForwardEnds(c) \/ ResetForgets(c) \/ DirectEnds(c)

Initialize == ProbeEnds \/ FanVersionRead \/ FanPwmSent

Wire == WireBegins \/ WireDelivers \/ WireFails \/ WireQuiet

Next ==
    \/ \E c \in Contexts, k \in Channels : StartRequest(c, k)
    \/ \E c \in Contexts : Continue(c) \/ Reset(c)
    \/ Probe \/ CreateFails \/ \E k \in Channels : CreateChannel(k)
    \/ FanReadVersion \/ FanSendPwm \/ Eeprom
    \/ Initialize
    \/ TimerFires
    \/ Keepalive
    \/ Wire
    \/ WireStrays

Spec == Init /\ [][Next]_vars

\* Calls end because the bus' polling loops do; a request under way is
\* carried, refused or given up; a notification that can be dispatched is.
FairSpec ==
    /\ Spec
    /\ \A c \in Contexts : WF_vars(Continue(c))
    /\ WF_vars(Initialize)
    /\ WF_vars(Wire)
    /\ SF_vars(Keepalive)
-----------------------------------------------------------------------------
(***************************************************************************)
(* Correctness.                                                            *)
(***************************************************************************)

\* Every variable has its type.
MuxTypeOK ==
    /\ pc \in [Contexts -> {"idle", "select", "selecting", "forward", "forwarding",
                            "reset", "probe", "version", "pwm", "direct"}]
    /\ chan \in [Contexts -> Channels]
    /\ phase \in {"start", "create", "up", "failed"}
    /\ created \subseteq Channels
    /\ Lock \in BOOLEAN
    /\ ActiveChannel \in Values
    /\ fan \in {"start", "version", "off", "on"}
    /\ keepalive \in BOOLEAN
    /\ serving \in BOOLEAN
    /\ slave \in Slaves
    /\ begun \in BOOLEAN
    /\ done \in {"no", "yes", "spoilt"}
    /\ live \in BOOLEAN
    /\ to \in Slaves
    /\ value \in Values
    /\ route \in Channels \cup {Trunk}
    /\ sel \in Values

\* Pca954xSelectChannel skips the select on the strength of ActiveChannel
\* alone: when it names a channel, that is the one connected, and no select
\* that was given up can still change it; only the next select can.
Selecting == \E c \in Contexts : pc[c] = "selecting"
CacheIsRight ==
    (ActiveChannel # None /\ ~Selecting) => sel = ActiveChannel /\ ~(live /\ to = Mux)

\* A request made on a channel, to its last byte and also when it was given
\* up, finds that channel connected and not a slave of the same address
\* behind another.
ReachesItsChannel == (live /\ route # Trunk) => sel = route

\* What both rest on: one context at a time uses the bus, under the lock if
\* it goes through the multiplexer.
InMux == {"select", "selecting", "forward", "forwarding"}
OneAtATime ==
    /\ \A c \in Contexts : pc[c] \in InMux => Lock /\ chan[c] \in created
    /\ \A c, d \in Contexts : c # d /\ pc[c] # "idle" /\ pc[d] # "idle" => pc["app"] = "reset"
    /\ (\E c \in Contexts : pc[c] \in OnBus) <=> serving
    /\ begun => serving /\ live /\ to = slave
    /\ \A c \in Contexts :
        /\ pc[c] \in {"selecting", "probe"} => slave = Mux
        /\ pc[c] \in {"forwarding", "version", "pwm", "direct"} => slave # Mux
        /\ pc[c] = "selecting" /\ begun => value = chan[c]
        /\ pc[c] \in {"forward", "forwarding"} => ActiveChannel = chan[c]
        /\ pc[c] = "forwarding" /\ begun => route = chan[c]

\* A select, also one given up, is on the wire for no channel's request, and
\* one that has gone through has connected what it carried.
SelectOnWire ==
    /\ serving /\ ~begun => done = "no"
    /\ live /\ to = Mux => route = Trunk
    /\ begun /\ to = Mux /\ done = "yes" => sel = value

\* The driver's probe writes the register too, before any channel exists.
ProbeFirst ==
    /\ \A c \in Contexts : pc[c] = "probe" => phase = "start"
    /\ phase = "start" => created = {}
    /\ created = {} => ActiveChannel = None

\* A request on a channel goes to that channel, at every point of every
\* interleaving of the two levels and after every failed or late request: the
\* cache tells the truth because the bus has one user at a time.
MuxInv ==
    /\ MuxTypeOK /\ OneAtATime /\ ProbeFirst
    /\ SelectOnWire /\ CacheIsRight /\ ReachesItsChannel

\* FanDxe's keepalive shares the bus with everything else and runs at
\* TPL_CALLBACK: a timer that has fired is served, whatever request is under
\* way and whether it fails or not.
KeepaliveServed == keepalive ~> ~keepalive
=============================================================================

----------------------------- MODULE WANService -----------------------------
(***************************************************************************)
(* usecase.WANService: data connect, data disconnect and the selection of  *)
(* the modem they work on, over MBIM (a bearer brought up with mbimcli and *)
(* the host interface configured from what the modem reports) and RNDIS (a *)
(* PDP context activated over AT and the interface configured statically   *)
(* or by DHCP).                                                            *)
(*                                                                         *)
(* Nothing serializes the calls.  A step is one external command with its  *)
(* outcomes, or one section under ModemService.mu or wanMu; consecutive    *)
(* reads of the selection are one step.  A modem has at most one control   *)
(* node (/dev/cdc-wdmN) and one host interface, named by the modem.        *)
(***************************************************************************)
EXTENDS Naturals

CONSTANTS
    Requests,         \* the HTTP handler goroutines
    Modems,
    Mbim,             \* the modems with a control node, whose driver is cdc_mbim
    WithNet,          \* the modems with a host interface
    FirstMBIM,        \* the first listed modem with a control node
    FirstNet,         \* the first listed modem with a host interface
    NoModem

ASSUME ModemsAssumption ==
    /\ Mbim \subseteq Modems
    /\ WithNet \subseteq Modems
    /\ NoModem \notin Modems
    /\ FirstMBIM \in (IF Mbim = {} THEN {NoModem} ELSE Mbim)
    /\ FirstNet \in (IF WithNet = {} THEN {NoModem} ELSE WithNet)

Stages == {"idle", "mbimConnect", "query", "configure", "publish", "rollback",
           "activate", "static", "dhcp", "connected", "clearConnected",
           "resolveMBIM", "mbimDown", "clearHost", "publishDown",
           "resolveRNDIS", "rndisDown", "mark", "markFailed", "restore",
           "clearDown", "deactivate", "bind", "clearSelected"}

Sessions == {"connected", "down"}

\* WANInfo without counters and addresses; what is not connected is down.
WANInfo == [iface : Modems \cup {NoModem}, session : Sessions]

VARIABLES
    pc,
    dev,              \* the modem each request works on
    before,           \* the published WANInfo a disconnect read
    clean,            \* history: has the request run alone, without a network drop?
    selectedModemID, selectedMBIM, selectedNet,
    bound,            \* the modem behind the bound AT port
    bearer,           \* is a data session up in the modem?
    host,             \* the host interface of each modem
    status,           \* FullStatus.WAN of ModemService
    wanOverride, hasWAN, hasPDP,
    excused           \* history: modems with a named reason to be misreported

locals == <<pc, dev, before>>
selection == <<selectedModemID, selectedMBIM, selectedNet>>
world == <<bearer, host>>
overrides == <<wanOverride, hasWAN, hasPDP>>

vars == <<locals, clean, selection, bound, world, status, overrides, excused>>

NoInfo == [iface |-> NoModem, session |-> "down"]

TypeOK ==
    /\ pc \in [Requests -> Stages]
    /\ dev \in [Requests -> Modems \cup {NoModem}]
    /\ before \in [Requests -> WANInfo]
    /\ clean \in [Requests -> BOOLEAN]
    /\ selectedModemID \in Modems
    /\ selectedMBIM \in Mbim \cup {NoModem}
    /\ selectedNet \in WithNet \cup {NoModem}
    /\ bound \in Modems
    /\ bearer \in [Modems -> BOOLEAN]
    /\ host \in [Modems -> {"bare", "partial", "configured"}]
    /\ status \in WANInfo
    /\ wanOverride \in WANInfo
    /\ hasWAN \in BOOLEAN
    /\ hasPDP \in BOOLEAN
    /\ excused \subseteq Modems

(***************************************************************************)
(* After the first listing and the first poll: the selected modem is the   *)
(* owner of the AT port, and the first modem that has one gives the        *)
(* control node and the interface, whether it is the selected one or not.  *)
(***************************************************************************)
Init ==
    /\ pc = [r \in Requests |-> "idle"]
    /\ dev = [r \in Requests |-> NoModem]
    /\ before = [r \in Requests |-> NoInfo]
    /\ clean = [r \in Requests |-> FALSE]
    /\ bound \in Modems
    /\ selectedModemID = bound
    /\ selectedMBIM = FirstMBIM
    /\ selectedNet = FirstNet
    /\ bearer = [m \in Modems |-> FALSE]
    /\ host = [m \in Modems |-> "bare"]
    /\ status = [NoInfo EXCEPT !.iface = FirstNet]
    /\ wanOverride = NoInfo
    /\ hasWAN = FALSE
    /\ hasPDP = FALSE
    /\ excused = {}

-----------------------------------------------------------------------------
\* Helpers

\* decorateStatus: the override, where there is one, hides the service's own view.
Published ==
    IF hasWAN THEN wanOverride ELSE status

SetOverrides(wan, pdp) == wanOverride' = wan /\ hasWAN' = TRUE /\ hasPDP' = pdp

ClearOverrides == wanOverride' = NoInfo /\ hasWAN' = FALSE /\ hasPDP' = FALSE

(***************************************************************************)
(* The outcomes of an external command: done, with the value `done', or    *)
(* failed, with a value of `failed'.  One that is to give the value `to'   *)
(* to what is now `from' may fail without effect, or (timed out, killed)   *)
(* after it has taken effect.                                              *)
(***************************************************************************)
Ends(done, failed) == [ok : {TRUE}, now : {done}] \cup [ok : {FALSE}, now : failed]

Outcomes(from, to) == Ends(to, {from, to})

\* mbimcli --simple-connect and --disconnect on the bearer of modem m.
Connect(m) == Outcomes(bearer[m], TRUE)

Disconnect(m) == Outcomes(bearer[m], FALSE)

\* ValidateFM350RNDISIface: only an interface of the driver rndis_host.
RNDISIface(m) == m \notin Mbim

\* ConnectRNDISStatic: link up, address, default route, which fails on its own.
HostStatic(m) == Ends("configured", {host[m], "partial", "configured"})

\* ConnectRNDIS: dhclient releases an old lease before it asks for a new one.
HostDHCP(m) == Ends("configured", {host[m], "bare", "configured"})

(***************************************************************************)
(* DisconnectRNDIS ends like its last command, which takes the link down   *)
(* and the routes with it; the errors of dhclient -r and of the flush are  *)
(* dropped, so the address may stay whether it says so or not.             *)
(***************************************************************************)
HostDown(m) ==
    LET linkDown == {"bare", IF host[m] = "bare" THEN "bare" ELSE "partial"}
    IN  [ok : {TRUE}, now : linkDown] \cup [ok : {FALSE}, now : {host[m]} \cup linkDown]

\* ClearNetInterface: its flush must succeed before the link is taken down.
HostClear(m) == Outcomes(host[m], "bare")

Refused(m) == [ok : {FALSE}, now : {host[m]}]

Start(r, stage, m) ==
    /\ pc[r] = "idle"
    /\ pc' = [pc EXCEPT ![r] = stage]
    /\ dev' = [dev EXCEPT ![r] = m]
    /\ clean' = [q \in Requests |->
                    q = r /\ \A p \in Requests : p = r \/ pc[p] = "idle"]

Goto(r, stage) ==
    /\ pc' = [pc EXCEPT ![r] = stage]
    /\ UNCHANGED <<dev, before, clean, excused>>

(***************************************************************************)
(* The end of a request.  History: a success that nothing disturbed        *)
(* settles what is known of its modem; anything else but a failure without *)
(* consequence excuses it.                                                 *)
(***************************************************************************)
Return(r, verdict) ==
    /\ pc' = [pc EXCEPT ![r] = "idle"]
    /\ dev' = [dev EXCEPT ![r] = NoModem]
    /\ before' = [before EXCEPT ![r] = NoInfo]
    /\ clean' = [clean EXCEPT ![r] = FALSE]
    /\ excused' = IF clean[r] /\ verdict = "done" THEN excused \ {dev[r]}
                  ELSE IF clean[r] /\ verdict = "harmless" THEN excused
                  ELSE excused \cup {dev[r]}

PublishedConnected(m) ==
    Published.session = "connected" /\ Published.iface = m

-----------------------------------------------------------------------------
\* resolveDataEndpoint

\* What a request may name: a control node, a host interface, or nothing.
Endpoints == [kind : {"node"}, of : Mbim] \cup [kind : {"net"}, of : WithNet]

Unnamed == [kind |-> "unnamed", of |-> NoModem]

DataModes == {"auto", "mbim", "rndis"}

Names(iface, kind, m) == iface.kind = kind /\ iface.of = m

ResolvedMode(mode, iface) ==
    IF mode # "auto" THEN mode
    ELSE IF \/ iface = Unnamed /\ selectedMBIM # NoModem
            \/ Names(iface, "node", selectedMBIM)
            \/ iface # Unnamed /\ iface.of = selectedModemID /\ selectedModemID \in Mbim
         THEN "mbim" ELSE "rndis"

(***************************************************************************)
(* The endpoint must be the selected one and belong to the selected modem. *)
(* Automatic mode takes the interface of an MBIM modem for its node.       *)
(***************************************************************************)
MBIMResolves(mode, iface) ==
    /\ selectedMBIM = selectedModemID
    /\ \/ iface = Unnamed
       \/ Names(iface, "node", selectedMBIM)
       \/ mode = "auto" /\ Names(iface, "net", selectedModemID)
    /\ selectedModemID \in WithNet

RNDISResolves(iface) ==
    /\ selectedNet = selectedModemID
    /\ iface = Unnamed \/ Names(iface, "net", selectedNet)

(***************************************************************************)
(* DataConnect and MBIMConnect.  A request that does not resolve fails     *)
(* without any effect.                                                     *)
(***************************************************************************)
DataConnect(r) ==
    \E mode \in DataModes, iface \in Endpoints \cup {Unnamed} :
        /\ IF ResolvedMode(mode, iface) = "mbim"
           THEN /\ MBIMResolves(mode, iface)
                /\ Start(r, "mbimConnect", selectedModemID)
           ELSE /\ RNDISResolves(iface)
                /\ Start(r, "activate", selectedModemID)
        /\ UNCHANGED <<before, selection, bound, world, status, overrides, excused>>

-----------------------------------------------------------------------------
\* connectMBIM

MBIMUp(r) ==
    /\ pc[r] = "mbimConnect"
    /\ \E o \in Connect(dev[r]) :
         /\ bearer' = [bearer EXCEPT ![dev[r]] = o.now]
         /\ IF o.ok THEN Goto(r, "query")
            ELSE Return(r, IF o.now = bearer[dev[r]] THEN "harmless" ELSE "failed")
    /\ UNCHANGED <<selection, bound, host, status, overrides>>

\* QueryIPConfig, up to three times; without a bearer it has nothing to report.
QueryIPConfig(r) ==
    /\ pc[r] = "query"
    /\ \/ bearer[dev[r]] /\ Goto(r, "configure")
       \/ Goto(r, "rollback")
    /\ UNCHANGED <<selection, bound, world, status, overrides>>

\* Mutant: a failure to configure the host leaves the bearer up.
ConfigureStatic_NoRollback(r) ==
    /\ pc[r] = "configure"
    /\ \E o \in HostStatic(dev[r]) :
         /\ host' = [host EXCEPT ![dev[r]] = o.now]
         /\ IF o.ok THEN Goto(r, "publish")
            ELSE Return(r, IF o.now = host[dev[r]] THEN "harmless" ELSE "failed")
    /\ UNCHANGED <<selection, bound, bearer, status, overrides>>

\* ConfigureStatic: what the modem reported goes to the interface.
ConfigureStatic(r) ==
    /\ pc[r] = "configure"
    /\ \E o \in HostStatic(dev[r]) :
         /\ host' = [host EXCEPT ![dev[r]] = o.now]
         /\ Goto(r, IF o.ok THEN "publish" ELSE "rollback")
    /\ UNCHANGED <<selection, bound, bearer, status, overrides>>

(***************************************************************************)
(* The bearer is disconnected and the error of that ignored.  What is      *)
(* published stays: harmless unless an earlier session of this modem was.  *)
(***************************************************************************)
Rollback(r) ==
    /\ pc[r] = "rollback"
    /\ \E o \in Disconnect(dev[r]) :
         /\ bearer' = [bearer EXCEPT ![dev[r]] = o.now]
         /\ Return(r, IF o.now \/ host[dev[r]] # "bare" \/ PublishedConnected(dev[r])
                      THEN "failed" ELSE "harmless")
    /\ UNCHANGED <<selection, bound, host, status, overrides>>

\* Mutant: the override does not say that it stands for an MBIM session.
PublishMBIM_NoPDP(r) ==
    /\ pc[r] = "publish"
    /\ SetOverrides([iface |-> dev[r], session |-> "connected"], FALSE)
    /\ Return(r, "done")
    /\ UNCHANGED <<selection, bound, world, status>>

\* After DNS, which is best effort.
PublishMBIM(r) ==
    /\ pc[r] = "publish"
    /\ SetOverrides([iface |-> dev[r], session |-> "connected"], TRUE)
    /\ Return(r, "done")
    /\ UNCHANGED <<selection, bound, world, status>>

-----------------------------------------------------------------------------
\* connectRNDISConfigured.  The address method asked for decides what is tried:
\* static alone, DHCP alone, or DHCP after static.

(***************************************************************************)
(* ActivatePDP goes to the modem behind the bound AT port, whatever modem  *)
(* is selected by now; errors of QueryPDP are only noted.                  *)
(***************************************************************************)
ActivatePDP(r) ==
    /\ pc[r] = "activate"
    /\ \E o \in Outcomes(bearer[bound], TRUE) :
         /\ bearer' = [bearer EXCEPT ![bound] = o.now]
         /\ \/ o.ok /\ \E next \in {"static", "dhcp"} : Goto(r, next)
            \/ /\ ~o.ok
               /\ Return(r, IF o.now = bearer[bound] THEN "harmless" ELSE "failed")
    /\ UNCHANGED <<selection, bound, host, status, overrides>>

(***************************************************************************)
(* waitRNDISIPConfig and ConnectRNDISStatic.  The modem may report no      *)
(* usable configuration, which is a refusal here.  The PDP context is left *)
(* as it is when the connect ends.                                         *)
(***************************************************************************)
StaticRNDIS(r) ==
    /\ pc[r] = "static"
    /\ \E o \in Refused(dev[r]) \cup (IF RNDISIface(dev[r]) THEN HostStatic(dev[r]) ELSE {}) :
         /\ host' = [host EXCEPT ![dev[r]] = o.now]
         /\ IF o.ok THEN Goto(r, "connected")
            ELSE Return(r, "failed") \/ Goto(r, "dhcp")
    /\ UNCHANGED <<selection, bound, bearer, status, overrides>>

DHCPRNDIS(r) ==
    /\ pc[r] = "dhcp"
    /\ \E o \in IF RNDISIface(dev[r]) THEN HostDHCP(dev[r]) ELSE Refused(dev[r]) :
         /\ host' = [host EXCEPT ![dev[r]] = o.now]
         /\ IF o.ok THEN Goto(r, "connected") ELSE Return(r, "failed")
    /\ UNCHANGED <<selection, bound, bearer, status, overrides>>

MarkConnected(r) ==
    /\ pc[r] = "connected"
    /\ status' = [iface |-> dev[r], session |-> "connected"]
    /\ Goto(r, "clearConnected")
    /\ UNCHANGED <<selection, bound, world, overrides>>

ClearConnected(r) ==
    /\ pc[r] = "clearConnected"
    /\ ClearOverrides
    /\ Return(r, IF bound = dev[r] THEN "done" ELSE "failed")
    /\ UNCHANGED <<selection, bound, world, status>>

-----------------------------------------------------------------------------
(***************************************************************************)
(* DataDisconnect: a published MBIM session decides for MBIM when the mode *)
(* is automatic or no interface is named.                                  *)
(***************************************************************************)
DisconnectMode(mode, iface) ==
    IF /\ mode = "auto" \/ iface = Unnamed
       /\ hasWAN /\ hasPDP
       /\ wanOverride.session = "connected" /\ wanOverride.iface # NoModem
    THEN "mbim" ELSE mode

DataDisconnect(r) ==
    \E mode \in DataModes, iface \in Endpoints \cup {Unnamed} :
        /\ IF DisconnectMode(mode, iface) = "mbim"
           THEN /\ iface.kind # "node" \/ iface.of = selectedMBIM
                /\ Start(r, "resolveMBIM", NoModem)
           ELSE /\ RNDISResolves(iface)
                /\ Start(r, "resolveRNDIS", selectedNet)
        /\ UNCHANGED <<before, selection, bound, world, status, overrides,
                       excused>>

\* MBIMDisconnect: the selected control node, if it belongs to the selected modem.
ResolveMBIM(r) ==
    /\ pc[r] = "resolveMBIM"
    /\ IF selectedMBIM = selectedModemID
       THEN /\ pc' = [pc EXCEPT ![r] = "mbimDown"]
            /\ dev' = [dev EXCEPT ![r] = selectedMBIM]
            /\ UNCHANGED <<before, clean, excused>>
       ELSE /\ pc' = [pc EXCEPT ![r] = "idle"]
            /\ clean' = [clean EXCEPT ![r] = FALSE]
            /\ UNCHANGED <<dev, before, excused>>
    /\ UNCHANGED <<selection, bound, world, status, overrides>>

MBIMDown(r) ==
    /\ pc[r] = "mbimDown"
    /\ \E o \in Disconnect(dev[r]) :
         /\ bearer' = [bearer EXCEPT ![dev[r]] = o.now]
         /\ IF o.ok THEN Goto(r, IF dev[r] \in WithNet THEN "clearHost" ELSE "publishDown")
            ELSE Return(r, IF o.now = bearer[dev[r]] THEN "harmless" ELSE "failed")
    /\ UNCHANGED <<selection, bound, host, status, overrides>>

\* Mutant: a cleanup that failed is reported before the session is published as down.
ClearHost_ReturnsEarly(r) ==
    /\ pc[r] = "clearHost"
    /\ \E o \in HostClear(dev[r]) :
         /\ host' = [host EXCEPT ![dev[r]] = o.now]
         /\ IF o.ok THEN Goto(r, "publishDown")
            ELSE Return(r, IF o.now = "bare" THEN "harmless" ELSE "failed")
    /\ UNCHANGED <<selection, bound, bearer, status, overrides>>

\* ClearInterface; its error is returned after the session is published as down.
ClearHost(r) ==
    /\ pc[r] = "clearHost"
    /\ \E o \in HostClear(dev[r]) :
         host' = [host EXCEPT ![dev[r]] = o.now]
    /\ Goto(r, "publishDown")
    /\ UNCHANGED <<selection, bound, bearer, status, overrides>>

PublishDown(r) ==
    /\ pc[r] = "publishDown"
    /\ SetOverrides([iface |-> IF dev[r] \in WithNet THEN dev[r] ELSE NoModem,
                     session |-> "down"], TRUE)
    /\ Return(r, IF host[dev[r]] = "bare" THEN "done" ELSE "failed")
    /\ UNCHANGED <<selection, bound, world, status>>

\* The view to be restored if the disconnect fails is read before it starts.
ReadBefore(r) ==
    /\ pc[r] = "resolveRNDIS"
    /\ before' = [before EXCEPT ![r] = Published]
    /\ pc' = [pc EXCEPT ![r] = "rndisDown"]
    /\ UNCHANGED <<dev, clean, excused, selection, bound, world, status,
                   overrides>>

(***************************************************************************)
(* DisconnectRNDIS; the interface of an MBIM modem is refused.  The        *)
(* request goes on alike whether the address is gone or not.               *)
(***************************************************************************)
RNDISDown(r) ==
    /\ pc[r] = "rndisDown"
    /\ \E o \in IF RNDISIface(dev[r]) THEN HostDown(dev[r]) ELSE Refused(dev[r]) :
         /\ host' = [host EXCEPT ![dev[r]] = o.now]
         /\ pc' = [pc EXCEPT ![r] = IF o.ok THEN "mark" ELSE "markFailed"]
         /\ before' = [before EXCEPT ![r] = IF o.ok THEN NoInfo ELSE @]
         /\ excused' = IF ~o.ok /\ (o.now # host[dev[r]] \/ ~RNDISIface(dev[r]))
                       THEN excused \cup {dev[r]} ELSE excused
    /\ UNCHANGED <<dev, clean, selection, bound, bearer, status, overrides>>

\* ModemService marks the session as down, also when the command failed.
MarkDisconnected(r) ==
    /\ pc[r] \in {"mark", "markFailed"}
    /\ status' = [status EXCEPT !.session = "down"]
    /\ Goto(r, IF pc[r] = "mark" THEN "clearDown" ELSE "restore")
    /\ UNCHANGED <<selection, bound, world, overrides>>

Restore(r) ==
    /\ pc[r] = "restore"
    /\ SetOverrides(before[r], FALSE)
    /\ Return(r, "harmless")
    /\ UNCHANGED <<selection, bound, world, status>>

ClearDown(r) ==
    /\ pc[r] = "clearDown"
    /\ ClearOverrides
    /\ Goto(r, "deactivate")
    /\ UNCHANGED <<selection, bound, world, status>>

DeactivatePDP(r) ==
    /\ pc[r] = "deactivate"
    /\ \E o \in Outcomes(bearer[bound], FALSE) :
         /\ bearer' = [bearer EXCEPT ![bound] = o.now]
         /\ Return(r, IF o.ok /\ bound = dev[r] /\ host[dev[r]] = "bare"
                      THEN "done" ELSE "failed")
    /\ UNCHANGED <<selection, bound, host, status, overrides>>

-----------------------------------------------------------------------------
\* Mutant: a modem without a control node is taken for one that has one.
SelectModem_AnyNode(r) ==
    \E m \in Modems :
        /\ Start(r, "bind", m)
        /\ selectedModemID' = m
        /\ selectedMBIM' = m
        /\ selectedNet' = IF m \in WithNet THEN m ELSE selectedNet
        /\ UNCHANGED <<before, bound, world, status, overrides, excused>>

(***************************************************************************)
(* SelectModem.  A modem without a control node leaves the selected node,  *)
(* and one without an interface the selected interface, as they were.  The *)
(* AT port follows in a step of its own, the overrides in a third.         *)
(***************************************************************************)
SelectModem(r) ==
    \E m \in Modems :
        /\ Start(r, "bind", m)
        /\ selectedModemID' = m
        /\ selectedMBIM' = IF m \in Mbim THEN m ELSE selectedMBIM
        /\ selectedNet' = IF m \in WithNet THEN m ELSE selectedNet
        /\ UNCHANGED <<before, bound, world, status, overrides, excused>>

SelectBind(r) ==
    /\ pc[r] = "bind"
    /\ bound' = dev[r]
    /\ Goto(r, "clearSelected")
    /\ UNCHANGED <<selection, world, status, overrides>>

(***************************************************************************)
(* The sessions of the modems left behind go on, and the service's own     *)
(* view of the session is carried over to the new interface: history       *)
(* excuses every modem then.                                               *)
(***************************************************************************)
ClearSelected(r) ==
    /\ pc[r] = "clearSelected"
    /\ ClearOverrides
    /\ pc' = [pc EXCEPT ![r] = "idle"]
    /\ dev' = [dev EXCEPT ![r] = NoModem]
    /\ clean' = [clean EXCEPT ![r] = FALSE]
    /\ excused' = IF \/ ~clean[r]
                     \/ status.session = "connected"
                     \/ \E m \in Modems : bearer[m] \/ host[m] # "bare"
                  THEN Modems ELSE excused
    /\ UNCHANGED <<before, selection, bound, world, status>>

-----------------------------------------------------------------------------
\* The status poller and the network

\* refreshWANLocked: the interface follows the selection, the session stays.
RefreshWAN ==
    /\ status' = [status EXCEPT !.iface = selectedNet]
    /\ UNCHANGED <<locals, clean, selection, bound, world, overrides, excused>>

NetworkDrop(m) ==
    /\ bearer[m]
    /\ bearer' = [bearer EXCEPT ![m] = FALSE]
    /\ clean' = [r \in Requests |-> FALSE]
    /\ excused' = excused \cup {m}
    /\ UNCHANGED <<locals, selection, bound, host, status, overrides>>

-----------------------------------------------------------------------------
Step(r) ==
    \/ DataConnect(r)
    \/ MBIMUp(r)
    \/ QueryIPConfig(r)
    \/ ConfigureStatic(r)
    \/ Rollback(r)
    \/ PublishMBIM(r)
    \/ ActivatePDP(r)
    \/ StaticRNDIS(r)
    \/ DHCPRNDIS(r)
    \/ MarkConnected(r)
    \/ ClearConnected(r)
    \/ DataDisconnect(r)
    \/ ResolveMBIM(r)
    \/ MBIMDown(r)
    \/ ClearHost(r)
    \/ PublishDown(r)
    \/ ReadBefore(r)
    \/ RNDISDown(r)
    \/ MarkDisconnected(r)
    \/ Restore(r)
    \/ ClearDown(r)
    \/ DeactivatePDP(r)
    \/ SelectModem(r)
    \/ SelectBind(r)
    \/ ClearSelected(r)

Next ==
    \/ \E r \in Requests : Step(r)
    \/ RefreshWAN
    \/ \E m \in Modems : NetworkDrop(m)

Spec == Init /\ [][Next]_vars

-----------------------------------------------------------------------------
\* Properties

Quiet == \A r \in Requests : pc[r] = "idle"

(***************************************************************************)
(* What is shown as connected is connected: with no request in progress    *)
(* the modem has a session and its interface a complete configuration.     *)
(* Excused are modems whose session the network has dropped, whose last    *)
(* command failed with an effect, whose reconnection was rolled back, that *)
(* another modem was selected from or over, or whose calls overlapped.     *)
(***************************************************************************)
ConnectedIsUp ==
    Quiet => \A m \in Modems \ excused :
        PublishedConnected(m) => bearer[m] /\ host[m] = "configured"

(***************************************************************************)
(* Nothing is left up behind the user's back: with no request in progress  *)
(* a session or an address that is not shown as connected has one of the   *)
(* same reasons, or is the address of an interface that the last           *)
(* disconnect could not flush, which the RNDIS one does not report.  In    *)
(* particular a connect that fails after the MBIM bearer came up has taken *)
(* it down again.                                                          *)
(***************************************************************************)
NothingLeftUp ==
    Quiet => \A m \in Modems \ excused :
        bearer[m] \/ host[m] # "bare" => PublishedConnected(m)

(***************************************************************************)
(* A session that is shown as connected can be ended without naming how it *)
(* was made: the automatic disconnect takes the protocol of the selected   *)
(* modem.                                                                  *)
(***************************************************************************)
AutoDisconnectFindsSession ==
    Quiet /\ selectedModemID \notin excused /\ PublishedConnected(selectedModemID)
        => (DisconnectMode("auto", Unnamed) = "mbim" <=> selectedModemID \in Mbim)
=============================================================================

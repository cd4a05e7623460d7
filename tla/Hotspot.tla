------------------------------- MODULE Hotspot -------------------------------
(***************************************************************************)
(* The WiFi hotspot: the HotspotStart, HotspotStop and HotspotStatus       *)
(* requests of usecase.ModemService, the HotspotManager they drive         *)
(* (hostapd, dnsmasq, NAT and forwarding on the host), and the shutdown    *)
(* sequence of main, which stops the hotspot before it closes the HTTP     *)
(* server.  The configuration itself is not modelled.                      *)
(*                                                                         *)
(* hmu is the mutex of the manager, held for a whole Start or Stop; every  *)
(* section under hotspotMu is one step.  The manager's running, the two    *)
(* commands, wlan, uplink and lanCIDR are set and cleared together and are *)
(* one variable here.  One wireless interface and one uplink are modelled. *)
(***************************************************************************)
CONSTANTS
    Main,           \* the main goroutine
    Requests,       \* the HTTP handler goroutines
    Ops,            \* what a request may ask for
    Unreliable,     \* the cleanup commands that may fail
    MayCrash,       \* may the process die?
    NoProc

AllOps == {"start", "stop", "status"}

\* Removal of NAT, of the LAN address, and restoring ip_forward.
Cleanups == {"nat", "addr", "forwarding"}

Daemons == {"hostapd", "dnsmasq"}

Procs == {Main} \cup Requests

ASSUME HotspotAssumption ==
    /\ Main \notin Requests
    /\ NoProc \notin Procs
    /\ Ops \subseteq AllOps
    /\ Unreliable \subseteq Cleanups
    /\ MayCrash \in BOOLEAN

VARIABLES
    pc,             \* stage of each goroutine
    failed,         \* did the manager's Start or Stop return an error?
    hotspotState, hotspotErr,
    hmu, running,                 \* HotspotManager
    forwardingChanged, forwardingPrev,
    daemon,         \* the processes: "none", "up", or "dead" and not yet reaped
    lanAddr, nat, forwarding,     \* the host
    original, left  \* history: ip_forward at boot, what failed commands left

service == <<hotspotState, hotspotErr>>
manager == <<hmu, running, forwardingChanged, forwardingPrev>>
host == <<daemon, lanAddr, nat, forwarding>>
history == <<original, left>>

vars == <<pc, failed, service, manager, host, history>>

\* Stages of HotspotManager.Start, under hmu.
StartStages ==
    {"preflight", "addr", "conf", "forward", "nat", "hostapd", "dnsmasq"}

Stages == StartStages \cup
    {"idle", "startMark", "startLock", "startDone", "stopLock", "stopDone",
     "status", "isRunning", "drain", "exited"}

\* What may be left behind on the host when nothing runs.
Leftovers == Cleanups \cup {"crash"}

Types ==
    /\ pc \in [Procs -> Stages]
    /\ failed \in [Procs -> BOOLEAN]
    /\ hotspotState \in {"stopped", "starting", "running", "stopping", "error"}
    /\ hotspotErr \in BOOLEAN
    /\ hmu \in Procs \cup {NoProc}
    /\ running \in BOOLEAN
    /\ forwardingChanged \in BOOLEAN
    /\ forwardingPrev \in {"unset", "off", "on"}
    /\ daemon \in [Daemons -> {"none", "up", "dead"}]
    /\ lanAddr \in BOOLEAN /\ nat \in BOOLEAN
    /\ forwarding \in {"off", "on"}
    /\ original \in {"off", "on"}
    /\ left \in SUBSET Leftovers

\* The goroutine inside the manager's Start holds its mutex, and no other does.
Holder == \A p \in Procs : pc[p] # "exited" => (hmu = p) = (pc[p] \in StartStages)

TypeOK == Types /\ Holder

Init ==
    /\ pc = [p \in Procs |-> "idle"]
    /\ failed = [p \in Procs |-> FALSE]
    /\ hotspotState = "stopped" /\ hotspotErr = FALSE
    /\ hmu = NoProc /\ running = FALSE
    /\ forwardingChanged = FALSE /\ forwardingPrev = "unset"
    /\ daemon = [d \in Daemons |-> "none"]
    /\ lanAddr = FALSE /\ nat = FALSE
    /\ forwarding \in {"off", "on"}
    /\ original = forwarding
    /\ left = {}

Goto(p, stage) == pc' = [pc EXCEPT ![p] = stage]

NoDaemon == [d \in Daemons |-> "none"]

-----------------------------------------------------------------------------
\* The host side of a teardown

(***************************************************************************)
(* The cleanups of steps, in the order of the code; each may leave undone  *)
(* what it should undo, and the code goes on.  forwardingChanged is        *)
(* cleared before ip_forward is written, so a failed write is never        *)
(* repeated.  The rules of an ApplyNAT that failed may be in place in      *)
(* part.                                                                   *)
(***************************************************************************)
Broken(steps) ==
    SUBSET {s \in steps \cap Unreliable :
              CASE s = "nat" -> nat \/ \E p \in Procs : pc[p] = "nat"
                [] s = "addr" -> lanAddr
                [] s = "forwarding" -> forwardingChanged}

\* Mutant: a failed start leaves ip_forward alone.
Teardown_KeepForwarding(steps, broken) ==
    /\ nat' = ("nat" \in broken \/ (nat /\ "nat" \notin steps))
    /\ lanAddr' = ("addr" \in broken \/ (lanAddr /\ "addr" \notin steps))
    /\ left' = left \cup broken
    /\ forwardingPrev' = "unset"
    /\ forwardingChanged' = FALSE
    /\ UNCHANGED forwarding

Teardown(steps, broken) ==
    /\ nat' = ("nat" \in broken \/ (nat /\ "nat" \notin steps))
    /\ lanAddr' = ("addr" \in broken \/ (lanAddr /\ "addr" \notin steps))
    /\ forwarding' = IF forwardingChanged /\ "forwarding" \notin broken
                       THEN IF forwardingPrev = "unset" THEN "off"
                                                   ELSE forwardingPrev
                       ELSE forwarding
    /\ forwardingChanged' = FALSE
    /\ forwardingPrev' = "unset"
    /\ left' = left \cup broken

(***************************************************************************)
(* stopLocked: both daemons are killed, then everything else is undone,    *)
(* and the session is over even when a cleanup failed.                     *)
(***************************************************************************)
StopLocked(broken) ==
    IF running
      THEN /\ running' = FALSE
           /\ daemon' = NoDaemon
           /\ Teardown(Cleanups, broken)
      ELSE UNCHANGED <<running, daemon, nat, lanAddr, forwarding,
                       forwardingChanged, forwardingPrev, left>>

-----------------------------------------------------------------------------
\* HotspotStart

\* The configuration is copied, merged with the request and validated.
HotspotStart(p) ==
    /\ Goto(p, "startMark")
    /\ UNCHANGED <<failed, service, manager, host, history>>

StartRejected(p) ==
    /\ pc[p] = "startMark"
    /\ Goto(p, "status")
    /\ UNCHANGED <<failed, service, manager, host, history>>

StartMark(p) ==
    /\ pc[p] = "startMark"
    /\ hotspotState' = "starting"
    /\ hotspotErr' = FALSE
    /\ Goto(p, "startLock")
    /\ UNCHANGED <<failed, manager, host, history>>

\* A goroutine leaves the manager's Start with or without an error.
StartReturns(p, error) ==
    /\ failed' = [failed EXCEPT ![p] = error]
    /\ Goto(p, "startDone")
    /\ hmu' = NoProc

\* Mutant: running is looked at before the manager's mutex is free.
StartLock_NoWait(p) ==
    /\ pc[p] = "startLock"
    /\ IF running
         THEN StartReturns(p, TRUE)
         ELSE hmu' = p /\ Goto(p, "preflight") /\ UNCHANGED failed
    /\ UNCHANGED <<service, running, forwardingChanged, forwardingPrev, host,
                   history>>

StartLock(p) ==
    /\ pc[p] = "startLock"
    /\ hmu = NoProc
    /\ IF running
         THEN StartReturns(p, TRUE)
         ELSE hmu' = p /\ Goto(p, "preflight") /\ UNCHANGED failed
    /\ UNCHANGED <<service, running, forwardingChanged,
                   forwardingPrev, host, history>>

\* Missing tools, no uplink address, a busy interface; or the link stays down.
Preflight(p) ==
    /\ pc[p] = "preflight"
    /\ \/ ~lanAddr /\ Goto(p, "addr") /\ UNCHANGED <<failed, hmu>>
       \/ StartReturns(p, TRUE)
    /\ UNCHANGED <<service, running, forwardingChanged,
                   forwardingPrev, host, history>>

(***************************************************************************)
(* The address is added.  A command that is given up at its time limit     *)
(* counts as failed although it may have done its work; the start then     *)
(* ends without removing the address.                                      *)
(***************************************************************************)
LanAddr(p) ==
    /\ pc[p] = "addr"
    /\ \/ /\ lanAddr' = TRUE
          /\ Goto(p, "conf")
          /\ UNCHANGED <<failed, hmu, left>>
       \/ /\ lanAddr' \in BOOLEAN
          /\ left' = IF lanAddr' THEN left \cup {"addr"} ELSE left
          /\ StartReturns(p, TRUE)
    /\ UNCHANGED <<service, running, forwardingChanged, forwardingPrev, daemon,
                   nat, forwarding, original>>

\* A configuration file that cannot be made ends the start without cleanup.
WriteConf(p) ==
    /\ pc[p] = "conf"
    /\ \/ Goto(p, "forward") /\ UNCHANGED <<failed, hmu, left>>
       \/ StartReturns(p, TRUE) /\ left' = left \cup {"addr"}
    /\ UNCHANGED <<service, running, forwardingChanged,
                   forwardingPrev, host, original>>

(***************************************************************************)
(* enableForwardingLocked.  A sysctl that is given up at its time limit    *)
(* may have switched ip_forward on; forwardingChanged is not set then, and *)
(* the cleanup, which only flushes the address, leaves it on.              *)
(***************************************************************************)
EnableForwarding(p) ==
    /\ pc[p] = "forward"
    /\ \/ /\ Goto(p, "nat")
          /\ forwardingPrev' = forwarding
          /\ forwardingChanged' = (forwarding # "on")
          /\ forwarding' = "on"
          /\ UNCHANGED <<failed, hmu, lanAddr, nat, left>>
       \/ /\ StartReturns(p, TRUE)
          /\ forwarding' \in {forwarding, "on"}
          /\ forwardingChanged' = FALSE
          /\ forwardingPrev' = "unset"
          /\ \E broken \in Broken({"addr"}) :
               /\ lanAddr' = ("addr" \in broken)
               /\ left' = left \cup broken \cup
                            {s \in {"forwarding"} : forwarding' # forwarding}
          /\ UNCHANGED nat
    /\ UNCHANGED <<service, running, daemon, original>>

(***************************************************************************)
(* A table of an earlier session is deleted first, if that works.  With    *)
(* iptables, the rules added before the one that failed are deleted again. *)
(***************************************************************************)
ApplyNAT(p) ==
    /\ pc[p] = "nat"
    /\ \/ /\ nat' = TRUE
          /\ Goto(p, "hostapd")
          /\ UNCHANGED <<failed, hmu, lanAddr, forwarding, forwardingChanged,
                         forwardingPrev, left>>
       \/ /\ StartReturns(p, TRUE)
          /\ \E broken \in Broken(Cleanups) : Teardown(Cleanups, broken)
    /\ UNCHANGED <<service, running, daemon, original>>

(***************************************************************************)
(* hostapd is started and probed with signal 0 400 ms later.  Nobody has   *)
(* waited for it by then, so one that has exited is a zombie, the signal   *)
(* succeeds all the same and the start goes on.                            *)
(***************************************************************************)
StartHostapd(p) ==
    /\ pc[p] = "hostapd"
    /\ \/ /\ daemon' = [daemon EXCEPT !["hostapd"] = "up"]
          /\ Goto(p, "dnsmasq")
          /\ UNCHANGED <<failed, hmu, lanAddr, nat, forwarding,
                         forwardingChanged, forwardingPrev, left>>
       \/ /\ StartReturns(p, TRUE)
          /\ \E broken \in Broken(Cleanups) : Teardown(Cleanups, broken)
          /\ UNCHANGED daemon
    /\ UNCHANGED <<service, running, original>>

\* Mutant: hostapd is left running when dnsmasq does not start.
StartDnsmasq_KeepHostapd(p) ==
    /\ pc[p] = "dnsmasq"
    /\ \/ /\ daemon' = [daemon EXCEPT !["dnsmasq"] = "up"]
          /\ running' = TRUE
          /\ StartReturns(p, FALSE)
          /\ UNCHANGED <<lanAddr, nat, forwarding, forwardingChanged,
                         forwardingPrev, left>>
       \/ /\ StartReturns(p, TRUE)
          /\ \E broken \in Broken(Cleanups) : Teardown(Cleanups, broken)
          /\ UNCHANGED <<daemon, running>>
    /\ UNCHANGED <<service, original>>

\* dnsmasq is tried with two command lines; then the session is recorded.
StartDnsmasq(p) ==
    /\ pc[p] = "dnsmasq"
    /\ \/ /\ daemon' = [daemon EXCEPT !["dnsmasq"] = "up"]
          /\ running' = TRUE
          /\ StartReturns(p, FALSE)
          /\ UNCHANGED <<lanAddr, nat, forwarding, forwardingChanged,
                         forwardingPrev, left>>
       \/ /\ StartReturns(p, TRUE)
          /\ daemon' = [daemon EXCEPT !["hostapd"] = "none"]
          /\ \E broken \in Broken(Cleanups) : Teardown(Cleanups, broken)
          /\ UNCHANGED running
    /\ UNCHANGED <<service, original>>

StartDone(p) ==
    /\ pc[p] = "startDone"
    /\ hotspotErr' = failed[p]
    /\ hotspotState' = IF failed[p] THEN "error" ELSE "running"
    /\ failed' = [failed EXCEPT ![p] = FALSE]
    /\ Goto(p, "status")
    /\ UNCHANGED <<manager, host, history>>

-----------------------------------------------------------------------------
\* HotspotStop and HotspotStatus

HotspotStop(p) ==
    /\ hotspotState' = "stopping"
    /\ Goto(p, "stopLock")
    /\ UNCHANGED <<failed, hotspotErr, manager, host,
                   history>>

(***************************************************************************)
(* An ip_forward that was not restored is an error.  The address flush and *)
(* the removal of iptables rules report none, while a kill, or a command   *)
(* given up at its time limit, is one although its work may be done.       *)
(***************************************************************************)
Stop(p) ==
    /\ pc[p] = "stopLock"
    /\ hmu = NoProc
    /\ \E broken \in Broken(Cleanups), error \in BOOLEAN :
         /\ StopLocked(broken)
         /\ error => running
         /\ "forwarding" \in broken => error
         /\ failed' = [failed EXCEPT ![p] = error]
    /\ Goto(p, "stopDone")
    /\ UNCHANGED <<service, hmu, original>>

\* Mutant: a stop is written down only when it followed a running hotspot.
StopDone_OnlyWhenStopping(p) ==
    /\ pc[p] = "stopDone"
    /\ hotspotErr' = failed[p]
    /\ hotspotState' = IF hotspotErr THEN hotspotState ELSE "stopped"
    /\ failed' = [failed EXCEPT ![p] = FALSE]
    /\ Goto(p, "status")
    /\ UNCHANGED <<manager, host, history>>

StopDone(p) ==
    /\ pc[p] = "stopDone"
    /\ hotspotErr' = failed[p]
    /\ hotspotState' = IF failed[p] THEN "error" ELSE "stopped"
    /\ failed' = [failed EXCEPT ![p] = FALSE]
    /\ Goto(p, "status")
    /\ UNCHANGED <<manager, host, history>>

\* The service's own state is read first, the manager is asked afterwards.
HotspotStatus(p) ==
    /\ pc[p] = "status"
    /\ Goto(p, "isRunning")
    /\ UNCHANGED <<failed, service, manager, host, history>>

\* Where a goroutine goes with the answer: main closes the HTTP server.
AfterStatus(p) == IF p = Main THEN "drain" ELSE "idle"

\* Mutant: the cleanup after a dead daemon does not wait for a running Start.
IsRunning_NoLock(p) ==
    /\ pc[p] = "isRunning"
    /\ IF "none" \in {daemon[d] : d \in Daemons}
         THEN \E broken \in Broken(Cleanups) :
                /\ running' = FALSE
                /\ daemon' = NoDaemon
                /\ Teardown(Cleanups, broken)
         ELSE UNCHANGED <<running, daemon, nat, lanAddr, forwarding,
                          forwardingChanged, forwardingPrev, left>>
    /\ Goto(p, AfterStatus(p))
    /\ UNCHANGED <<failed, service, hmu, original>>

\* A daemon that is gone ends the session.
IsRunning(p) ==
    /\ pc[p] = "isRunning"
    /\ hmu = NoProc
    /\ IF \E d \in Daemons : daemon[d] = "none"
         THEN \E broken \in Broken(Cleanups) : StopLocked(broken)
         ELSE UNCHANGED <<running, daemon, nat, lanAddr, forwarding,
                          forwardingChanged, forwardingPrev, left>>
    /\ Goto(p, AfterStatus(p))
    /\ UNCHANGED <<failed, service, hmu, original>>

-----------------------------------------------------------------------------
\* Requests, shutdown, crashes and the daemons

\* The HTTP server takes requests until Shutdown closes its listener.
Begin(p, o) ==
    /\ p \in Requests
    /\ o \in Ops
    /\ pc[p] = "idle"
    /\ pc[Main] # "drain"
    /\ CASE o = "start" -> HotspotStart(p)
         [] o = "stop" -> HotspotStop(p)
         [] o = "status" ->
              /\ Goto(p, "status")
              /\ UNCHANGED <<failed, service, manager, host, history>>

\* SIGTERM or an interrupt.
Shutdown ==
    /\ pc[Main] = "idle"
    /\ HotspotStop(Main)

(***************************************************************************)
(* main returns when the requests are done, or five seconds after it gave  *)
(* up waiting for them.                                                    *)
(***************************************************************************)
Exit ==
    /\ pc[Main] = "drain"
    /\ pc' = [p \in Procs |-> "exited"]
    /\ UNCHANGED <<failed, service, manager, host, history>>

(***************************************************************************)
(* The process dies and is started again: the memory is new, the host is   *)
(* as it was.  The daemons, in process groups of their own, die with it    *)
(* only where something like systemd kills its control group.              *)
(***************************************************************************)
Crash ==
    /\ MayCrash
    /\ pc[Main] # "exited"
    /\ pc' = [p \in Procs |-> "idle"]
    /\ failed' = [p \in Procs |-> FALSE]
    /\ hotspotState' = "stopped" /\ hotspotErr' = FALSE
    /\ hmu' = NoProc /\ running' = FALSE
    /\ forwardingChanged' = FALSE /\ forwardingPrev' = "unset"
    /\ daemon' \in {daemon, NoDaemon}
    /\ left' = left \cup {"crash"}
    /\ UNCHANGED <<lanAddr, nat, forwarding, original>>

DaemonDies(d) ==
    /\ daemon[d] = "up"
    /\ daemon' = [daemon EXCEPT ![d] = "dead"]
    /\ UNCHANGED <<pc, failed, service, manager, lanAddr, nat, forwarding,
                   history>>

\* The goroutine that waits for a daemon starts after the daemon's probe.
Reap(d) ==
    /\ daemon[d] = "dead"
    /\ daemon' = [daemon EXCEPT ![d] = "none"]
    /\ UNCHANGED <<pc, failed, service, manager, lanAddr, nat, forwarding,
                   history>>

Step(p) ==
    \/ StartRejected(p)
    \/ StartMark(p)
    \/ StartLock(p)
    \/ Preflight(p)
    \/ LanAddr(p)
    \/ WriteConf(p)
    \/ EnableForwarding(p)
    \/ ApplyNAT(p)
    \/ StartHostapd(p)
    \/ StartDnsmasq(p)
    \/ StartDone(p)
    \/ Stop(p)
    \/ StopDone(p)
    \/ HotspotStatus(p)
    \/ IsRunning(p)

Next ==
    \/ \E p \in Procs, o \in AllOps : Begin(p, o)
    \/ \E p \in Procs : Step(p)
    \/ Shutdown
    \/ Exit
    \/ Crash
    \/ \E d \in Daemons : DaemonDies(d) \/ Reap(d)

Spec == Init /\ [][Next]_vars

-----------------------------------------------------------------------------
\* Properties

(***************************************************************************)
(* While the manager says the hotspot runs, its routing is in place: the   *)
(* LAN address, the NAT table and ip_forward, whatever starts, stops,      *)
(* status polls and daemon deaths happened before.                         *)
(***************************************************************************)
RoutedWhileRunning ==
    hmu = NoProc /\ running => lanAddr /\ nat /\ forwarding = "on"

(***************************************************************************)
(* When the manager says nothing runs, a failed start, a stop or a daemon  *)
(* that died has left nothing behind: no daemon, no NAT table, no LAN      *)
(* address, and ip_forward as it was before the first start.  The only     *)
(* exceptions are a cleanup command that failed; a command of LanAddr or   *)
(* EnableForwarding that did its work and was given up at its time limit   *)
(* all the same; a start that ended in WriteConf, which leaves the         *)
(* address; and a crash.                                                   *)
(***************************************************************************)
NothingLeftBehind ==
    hmu = NoProc /\ ~running /\ "crash" \notin left =>
        /\ \A d \in Daemons : daemon[d] # "up"
        /\ nat => "nat" \in left
        /\ lanAddr => "addr" \in left
        /\ forwarding # original => "forwarding" \in left

(***************************************************************************)
(* "starting" and "stopping" end: when no start or stop is under way the   *)
(* published state is a settled one, however starts and stops overlapped.  *)
(***************************************************************************)
StateSettles ==
    (\A p \in Procs : pc[p] \notin {"startLock", "startDone", "stopLock",
                                    "stopDone", "exited"} \cup StartStages)
        => hotspotState \in {"stopped", "running", "error"}

-----------------------------------------------------------------------------
\* A statement of the documentation that the code breaks.

(***************************************************************************)
(* docs/wifi-hotspot.md, Teardown: "process shutdown removes               *)
(* hostapd/dnsmasq and the fm350_hotspot nft table".  A start that main's  *)
(* HotspotStop overtakes brings the hotspot up again before the HTTP       *)
(* server closes.                                                          *)
(***************************************************************************)
NothingLeftAtExit ==
    pc[Main] = "exited" /\ left = {}
        => ~nat /\ \A d \in Daemons : daemon[d] # "up"
=============================================================================

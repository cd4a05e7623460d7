---------------------------- MODULE HotspotProofs ----------------------------
(***************************************************************************)
(* Proofs about Hotspot, for any number of requests, crashes or none, and  *)
(* any set of cleanup commands that may fail.                              *)
(***************************************************************************)
EXTENDS Hotspot, TLAPS

LEMMA BrokenType ==
    ASSUME NEW steps \in SUBSET Cleanups, NEW broken \in Broken(steps)
    PROVE  broken \in SUBSET Cleanups
BY DEF Broken

(***************************************************************************)
(* A teardown leaves what it should have removed only when its cleanup is  *)
(* among the broken ones, which it records.                                *)
(***************************************************************************)
LEMMA TeardownEffect ==
    ASSUME Types, NEW steps \in SUBSET Cleanups, NEW broken \in SUBSET Cleanups,
           Teardown(steps, broken)
    PROVE  /\ lanAddr' \in BOOLEAN /\ nat' \in BOOLEAN
           /\ forwarding' \in {"off", "on"}
           /\ forwardingChanged' = FALSE /\ forwardingPrev' = "unset"
           /\ left' \in SUBSET Leftovers /\ left \subseteq left'
           /\ nat' => "nat" \in left' \/ (nat /\ "nat" \notin steps)
           /\ lanAddr' => "addr" \in left' \/ (lanAddr /\ "addr" \notin steps)
           /\ "crash" \in left' => "crash" \in left
           /\ ~forwardingChanged => forwarding' = forwarding
           /\ forwardingChanged /\ forwardingPrev # "unset" =>
                forwarding' = forwardingPrev \/ "forwarding" \in left'
<1>1. /\ nat' \in BOOLEAN
      /\ nat' => "nat" \in left' \/ (nat /\ "nat" \notin steps)
  BY DEF Teardown
<1>2. /\ lanAddr' \in BOOLEAN
      /\ lanAddr' => "addr" \in left' \/ (lanAddr /\ "addr" \notin steps)
  BY DEF Teardown
<1>3. /\ left' = left \cup broken
      /\ forwarding' = IF forwardingChanged /\ "forwarding" \notin broken
                         THEN IF forwardingPrev = "unset" THEN "off"
                                                     ELSE forwardingPrev
                         ELSE forwarding
      /\ forwardingChanged' = FALSE /\ forwardingPrev' = "unset"
  BY DEF Teardown
<1>4. left' \in SUBSET Leftovers /\ ("crash" \in left' => "crash" \in left)
  BY <1>3 DEF Types, Leftovers, Cleanups
<1>5. forwarding' \in {"off", "on"}
  BY <1>3 DEF Types
<1> QED
  BY <1>1, <1>2, <1>3, <1>4, <1>5

(***************************************************************************)
(* What EnableForwarding leaves when it fails: the address only when its   *)
(* flush is broken, and ip_forward changed only when that is recorded.     *)
(***************************************************************************)
Stranded(broken) ==
    /\ forwarding' \in {forwarding, "on"}
    /\ forwardingChanged' = FALSE
    /\ forwardingPrev' = "unset"
    /\ lanAddr' = ("addr" \in broken)
    /\ left' = left \cup broken \cup
                 {s \in {"forwarding"} : forwarding' # forwarding}
    /\ UNCHANGED nat

LEMMA StrandedEffect ==
    ASSUME Types, NEW broken \in Broken({"addr"}), Stranded(broken)
    PROVE  /\ lanAddr' \in BOOLEAN /\ nat' = nat /\ nat' \in BOOLEAN
           /\ forwarding' \in {"off", "on"}
           /\ forwardingChanged' = FALSE /\ forwardingPrev' = "unset"
           /\ left' \in SUBSET Leftovers /\ left \subseteq left'
           /\ lanAddr' => "addr" \in left'
           /\ "crash" \in left' => "crash" \in left
           /\ forwarding' = forwarding \/ "forwarding" \in left'
<1>1. broken \in SUBSET Cleanups
  BY BrokenType DEF Cleanups
<1>2. left' \in SUBSET Leftovers
  BY <1>1 DEF Stranded, Types, Leftovers, Cleanups
<1>3. "crash" \in left' => "crash" \in left
  BY <1>1 DEF Stranded, Cleanups
<1>4. lanAddr' => "addr" \in left'
  BY DEF Stranded
<1>5. forwarding' = forwarding \/ "forwarding" \in left'
  BY DEF Stranded
<1> QED
  BY <1>1, <1>2, <1>3, <1>4, <1>5 DEF Stranded, Types

LEMMA ReturnsType ==
    ASSUME Types, NEW p \in Procs, NEW error \in BOOLEAN, StartReturns(p, error)
    PROVE  /\ pc' \in [Procs -> Stages]
           /\ failed' \in [Procs -> BOOLEAN]
           /\ hmu' \in Procs \cup {NoProc}
BY DEF StartReturns, Goto, Types, Stages

LEMMA StopType ==
    ASSUME Types, NEW broken \in SUBSET Cleanups, StopLocked(broken)
    PROVE  /\ running' \in BOOLEAN
           /\ daemon' \in [Daemons -> {"none", "up", "dead"}]
           /\ lanAddr' \in BOOLEAN /\ nat' \in BOOLEAN
           /\ forwarding' \in {"off", "on"}
           /\ forwardingChanged' \in BOOLEAN
           /\ forwardingPrev' \in {"unset", "off", "on"}
           /\ left' \in SUBSET Leftovers
<1>1. CASE running
  BY <1>1, TeardownEffect DEF StopLocked, NoDaemon
<1>2. CASE ~running
  BY <1>2 DEF StopLocked, Types
<1> QED
  BY <1>1, <1>2

-----------------------------------------------------------------------------
\* Type correctness, and the holder of the manager's mutex.

LEMMA TypesInit == Init => Types
  BY DEF Init, Types, Stages, Leftovers

LEMMA TypesNext == Types /\ [Next]_vars => Types'
<1> SUFFICES ASSUME Types, [Next]_vars PROVE Types'
  OBVIOUS
<1> USE DEF Goto, service, manager, host, history, Stages, StartStages
<1>1. ASSUME NEW p \in Procs, NEW o \in AllOps, Begin(p, o) PROVE Types'
  <2>1. CASE HotspotStart(p)
    BY <2>1 DEF HotspotStart, Types
  <2>2. CASE HotspotStop(p)
    BY <2>2 DEF HotspotStop, Types
  <2>3. CASE /\ Goto(p, "status")
             /\ UNCHANGED <<failed, service, manager, host, history>>
    BY <2>3 DEF Types
  <2> QED
    BY <1>1, <2>1, <2>2, <2>3 DEF Begin, AllOps
<1>2. ASSUME NEW p \in Procs, Step(p) PROVE Types'
  <2>1. CASE StartRejected(p)
    BY <2>1 DEF StartRejected, Types
  <2>2. CASE StartMark(p)
    BY <2>2 DEF StartMark, Types
  <2>3. CASE StartLock(p)
    <3>1. CASE ~running
      BY <2>3, <3>1 DEF StartLock, Types
    <3>2. CASE StartReturns(p, TRUE)
      <4>1. /\ pc' \in [Procs -> Stages]
            /\ failed' \in [Procs -> BOOLEAN]
            /\ hmu' \in Procs \cup {NoProc}
        BY <3>2, ReturnsType
      <4> QED
        BY <2>3, <4>1 DEF StartLock, Types
    <3> QED
      BY <2>3, <3>1, <3>2 DEF StartLock
  <2>4. CASE Preflight(p)
    <3>1. CASE Goto(p, "addr") /\ UNCHANGED <<failed, hmu>>
      BY <2>4, <3>1 DEF Preflight, Types
    <3>2. CASE StartReturns(p, TRUE)
      <4>1. /\ pc' \in [Procs -> Stages]
            /\ failed' \in [Procs -> BOOLEAN]
            /\ hmu' \in Procs \cup {NoProc}
        BY <3>2, ReturnsType
      <4> QED
        BY <2>4, <4>1 DEF Preflight, Types
    <3> QED
      BY <2>4, <3>1, <3>2 DEF Preflight
  <2>5. CASE LanAddr(p)
    <3>1. lanAddr' \in BOOLEAN
      BY <2>5 DEF LanAddr
    <3>2. CASE Goto(p, "conf") /\ UNCHANGED <<failed, hmu, left>>
      BY <2>5, <3>1, <3>2 DEF LanAddr, Types
    <3>3. CASE /\ left' = IF lanAddr' THEN left \cup {"addr"} ELSE left
               /\ StartReturns(p, TRUE)
      <4>1. /\ pc' \in [Procs -> Stages]
            /\ failed' \in [Procs -> BOOLEAN]
            /\ hmu' \in Procs \cup {NoProc}
        BY <3>3, ReturnsType
      <4>2. left' \in SUBSET Leftovers
        BY <3>3 DEF Types, Leftovers, Cleanups
      <4> QED
        BY <2>5, <3>1, <4>1, <4>2 DEF LanAddr, Types
    <3> QED
      BY <2>5, <3>2, <3>3 DEF LanAddr
  <2>6. CASE WriteConf(p)
    <3>1. CASE Goto(p, "forward") /\ UNCHANGED <<failed, hmu, left>>
      BY <2>6, <3>1 DEF WriteConf, Types
    <3>2. CASE StartReturns(p, TRUE) /\ left' = left \cup {"addr"}
      <4>1. left' \in SUBSET Leftovers
        BY <3>2 DEF Types, Leftovers, Cleanups
      <4>2. /\ pc' \in [Procs -> Stages]
            /\ failed' \in [Procs -> BOOLEAN]
            /\ hmu' \in Procs \cup {NoProc}
        BY <3>2, ReturnsType
      <4> QED
        BY <2>6, <4>1, <4>2 DEF WriteConf, Types
    <3> QED
      BY <2>6, <3>1, <3>2 DEF WriteConf
  <2>7. CASE EnableForwarding(p)
    <3>1. CASE /\ pc' = [pc EXCEPT ![p] = "nat"]
               /\ UNCHANGED <<failed, hmu, lanAddr, nat, left>>
               /\ forwardingChanged' \in BOOLEAN /\ forwardingPrev' = forwarding
               /\ forwarding' = "on"
      BY <2>7, <3>1 DEF EnableForwarding, Types
    <3>2. ASSUME StartReturns(p, TRUE), NEW broken \in Broken({"addr"}),
                 Stranded(broken)
          PROVE  Types'
      <4>1. /\ lanAddr' \in BOOLEAN /\ nat' \in BOOLEAN
            /\ forwarding' \in {"off", "on"}
            /\ forwardingChanged' = FALSE /\ forwardingPrev' = "unset"
            /\ left' \in SUBSET Leftovers
        BY <3>2, StrandedEffect
      <4> QED
        BY <2>7, <3>2, <4>1, ReturnsType DEF EnableForwarding, Types
    <3> QED
      BY <2>7, <3>1, <3>2 DEF EnableForwarding, Stranded
  <2>8. CASE ApplyNAT(p)
    <3>1. CASE /\ nat' = TRUE
               /\ Goto(p, "hostapd")
               /\ UNCHANGED <<failed, hmu, lanAddr, forwarding,
                              forwardingChanged, forwardingPrev, left>>
      BY <2>8, <3>1 DEF ApplyNAT, Types
    <3>2. ASSUME StartReturns(p, TRUE), NEW broken \in Broken(Cleanups),
                 Teardown(Cleanups, broken)
          PROVE  Types'
      <4>1. broken \in SUBSET Cleanups
        BY BrokenType
      <4> QED
        BY <2>8, <3>2, <4>1, ReturnsType, TeardownEffect
        DEF ApplyNAT, Types
    <3> QED
      BY <2>8, <3>1, <3>2 DEF ApplyNAT
  <2>9. CASE StartHostapd(p)
    <3>1. CASE /\ daemon' = [daemon EXCEPT !["hostapd"] = "up"]
               /\ Goto(p, "dnsmasq")
               /\ UNCHANGED <<failed, hmu, lanAddr, nat, forwarding,
                              forwardingChanged, forwardingPrev, left>>
      BY <2>9, <3>1 DEF StartHostapd, Types, Daemons
    <3>2. ASSUME StartReturns(p, TRUE), NEW broken \in Broken(Cleanups),
                 Teardown(Cleanups, broken),
                 UNCHANGED daemon
          PROVE  Types'
      <4>1. broken \in SUBSET Cleanups
        BY BrokenType
      <4> QED
        BY <2>9, <3>2, <4>1, ReturnsType, TeardownEffect
        DEF StartHostapd, Types
    <3> QED
      BY <2>9, <3>1, <3>2 DEF StartHostapd
  <2>10. CASE StartDnsmasq(p)
    <3>1. CASE /\ daemon' = [daemon EXCEPT !["dnsmasq"] = "up"]
               /\ running' = TRUE
               /\ StartReturns(p, FALSE)
               /\ UNCHANGED <<lanAddr, nat, forwarding, forwardingChanged,
                              forwardingPrev, left>>
      <4>1. /\ pc' \in [Procs -> Stages]
            /\ failed' \in [Procs -> BOOLEAN]
            /\ hmu' \in Procs \cup {NoProc}
        BY <3>1, ReturnsType
      <4>2. daemon' \in [Daemons -> {"none", "up", "dead"}]
        BY <3>1 DEF Types, Daemons
      <4> QED
        BY <2>10, <3>1, <4>1, <4>2 DEF StartDnsmasq, Types
    <3>2. ASSUME StartReturns(p, TRUE), NEW broken \in Broken(Cleanups),
                 Teardown(Cleanups, broken),
                 daemon' = [daemon EXCEPT !["hostapd"] = "none"],
                 UNCHANGED running
          PROVE  Types'
      <4>1. broken \in SUBSET Cleanups
        BY BrokenType
      <4> QED
        BY <2>10, <3>2, <4>1, ReturnsType, TeardownEffect
        DEF StartDnsmasq, Types, Daemons
    <3> QED
      BY <2>10, <3>1, <3>2 DEF StartDnsmasq
  <2>11. CASE StartDone(p)
    BY <2>11 DEF StartDone, Types
  <2>12. CASE Stop(p)
    BY <2>12, BrokenType, StopType DEF Stop, Types
  <2>13. CASE StopDone(p)
    BY <2>13 DEF StopDone, Types
  <2>14. CASE HotspotStatus(p)
    BY <2>14 DEF HotspotStatus, Types
  <2>15. CASE IsRunning(p)
    BY <2>15, BrokenType, StopType DEF IsRunning, AfterStatus, Types
  <2> QED
    BY <1>2, <2>1, <2>2, <2>3, <2>4, <2>5, <2>6, <2>7, <2>8, <2>9, <2>10, <2>11,
       <2>12, <2>13, <2>14, <2>15 DEF Step
<1>3. CASE Shutdown
  BY <1>3 DEF Shutdown, HotspotStop, Types, Procs
<1>4. CASE Exit
  BY <1>4 DEF Exit, Types
<1>5. CASE Crash
  BY <1>5 DEF Crash, Types, NoDaemon, Leftovers
<1>6. ASSUME NEW d \in Daemons, DaemonDies(d) PROVE Types'
  BY <1>6 DEF DaemonDies, Types
<1>7. ASSUME NEW d \in Daemons, Reap(d) PROVE Types'
  BY <1>7 DEF Reap, Types
<1>8. CASE UNCHANGED vars
  BY <1>8 DEF vars, Types
<1> QED
  BY <1>1, <1>2, <1>3, <1>4, <1>5, <1>6, <1>7, <1>8 DEF Next

LEMMA HolderInit == Init => Holder
  BY HotspotAssumption DEF Init, Holder, StartStages

LEMMA HolderNext == Types /\ Holder /\ [Next]_vars => Holder'
<1> SUFFICES ASSUME Types, Holder, [Next]_vars PROVE Holder'
  OBVIOUS
<1> USE HotspotAssumption DEF Goto, StartStages
<1>1. ASSUME NEW p \in Procs, NEW o \in AllOps, Begin(p, o) PROVE Holder'
  <2>1. CASE HotspotStart(p)
    BY <1>1, <2>1 DEF Begin, HotspotStart, manager, Types, Holder
  <2>2. CASE HotspotStop(p)
    BY <1>1, <2>2 DEF Begin, HotspotStop, manager, Types, Holder
  <2>3. CASE /\ Goto(p, "status")
             /\ UNCHANGED <<failed, service, manager, host, history>>
    BY <1>1, <2>3 DEF Begin, manager, Types, Holder
  <2> QED
    BY <1>1, <2>1, <2>2, <2>3 DEF Begin, AllOps
<1>2. ASSUME NEW p \in Procs, Step(p) PROVE Holder'
  <2>1. CASE StartRejected(p)
    BY <2>1 DEF StartRejected, manager, Types, Holder
  <2>2. CASE StartMark(p)
    BY <2>2 DEF StartMark, manager, Types, Holder
  <2>3. CASE StartLock(p)
    BY <2>3 DEF StartLock, StartReturns, Types, Holder
  <2>4. CASE Preflight(p)
    BY <2>4 DEF Preflight, StartReturns, Types, Holder
  <2>5. CASE LanAddr(p)
    BY <2>5 DEF LanAddr, StartReturns, Types, Holder
  <2>6. CASE WriteConf(p)
    BY <2>6 DEF WriteConf, StartReturns, Types, Holder
  <2>7. CASE EnableForwarding(p)
    BY <2>7 DEF EnableForwarding, StartReturns, Types, Holder
  <2>8. CASE ApplyNAT(p)
    BY <2>8 DEF ApplyNAT, StartReturns, Types, Holder
  <2>9. CASE StartHostapd(p)
    BY <2>9 DEF StartHostapd, StartReturns, Types, Holder
  <2>10. CASE StartDnsmasq(p)
    BY <2>10 DEF StartDnsmasq, StartReturns, Types, Holder
  <2>11. CASE StartDone(p)
    BY <2>11 DEF StartDone, manager, Types, Holder
  <2>12. CASE Stop(p)
    BY <2>12 DEF Stop, Types, Holder
  <2>13. CASE StopDone(p)
    BY <2>13 DEF StopDone, manager, Types, Holder
  <2>14. CASE HotspotStatus(p)
    BY <2>14 DEF HotspotStatus, manager, Types, Holder
  <2>15. CASE IsRunning(p)
    BY <2>15 DEF IsRunning, AfterStatus, Types, Holder
  <2> QED
    BY <1>2, <2>1, <2>2, <2>3, <2>4, <2>5, <2>6, <2>7, <2>8, <2>9, <2>10,
       <2>11, <2>12, <2>13, <2>14, <2>15 DEF Step
<1>3. CASE Shutdown
  BY <1>3 DEF Shutdown, HotspotStop, manager, Types, Holder, Procs
<1>4. CASE Exit
  BY <1>4 DEF Exit, manager, Types, Holder
<1>5. CASE Crash
  BY <1>5 DEF Crash, Types, Holder
<1>6. ASSUME NEW d \in Daemons, DaemonDies(d) \/ Reap(d) PROVE Holder'
  BY <1>6 DEF DaemonDies, Reap, manager, Types, Holder
<1>7. CASE UNCHANGED vars
  BY <1>7 DEF vars, manager, Types, Holder
<1> QED
  BY <1>1, <1>2, <1>3, <1>4, <1>5, <1>6, <1>7 DEF Next

(***************************************************************************)
(* Every reachable state has the types, and hmu is held by the goroutine   *)
(* inside the manager's Start and by no other.                             *)
(***************************************************************************)
THEOREM TypeCorrect == Spec => []TypeOK
<1>1. Init => TypeOK
  BY TypesInit, HolderInit DEF TypeOK
<1>2. TypeOK /\ [Next]_vars => TypeOK'
  BY TypesNext, HolderNext DEF TypeOK
<1> QED
  BY <1>1, <1>2, PTL DEF Spec

-----------------------------------------------------------------------------
\* The published state.

(***************************************************************************)
(* However starts, stops and crashes overlap, "starting" and "stopping"    *)
(* are left behind only while a start or a stop is under way.              *)
(***************************************************************************)
THEOREM StateSettlesCorrect == Spec => []StateSettles
<1>1. Init => StateSettles
  BY DEF Init, StateSettles
<1>2. Types /\ StateSettles /\ [Next]_vars => StateSettles'
  <2> SUFFICES ASSUME Types, StateSettles, [Next]_vars PROVE StateSettles'
    OBVIOUS
  <2> USE DEF Goto, service, StateSettles, StartStages
  <2>1. ASSUME NEW p \in Procs, NEW o \in AllOps, Begin(p, o)
        PROVE  StateSettles'
    <3>1. CASE HotspotStart(p)
      BY <2>1, <3>1 DEF Begin, HotspotStart, Types
    <3>2. CASE HotspotStop(p)
      BY <2>1, <3>2 DEF Begin, HotspotStop, Types
    <3>3. CASE /\ Goto(p, "status")
               /\ UNCHANGED <<failed, service, manager, host, history>>
      BY <2>1, <3>3 DEF Begin, Types
    <3> QED
      BY <2>1, <3>1, <3>2, <3>3 DEF Begin, AllOps
  <2>2. ASSUME NEW p \in Procs, Step(p) PROVE StateSettles'
    <3>1. CASE StartRejected(p)
      BY <3>1 DEF StartRejected, Types
    <3>2. CASE StartMark(p)
      BY <3>2 DEF StartMark, Types
    <3>3. CASE StartLock(p)
      BY <3>3 DEF StartLock, StartReturns, Types
    <3>4. CASE Preflight(p)
      BY <3>4 DEF Preflight, StartReturns, Types
    <3>5. CASE LanAddr(p)
      BY <3>5 DEF LanAddr, StartReturns, Types
    <3>6. CASE WriteConf(p)
      BY <3>6 DEF WriteConf, StartReturns, Types
    <3>7. CASE EnableForwarding(p)
      BY <3>7 DEF EnableForwarding, StartReturns, Types
    <3>8. CASE ApplyNAT(p)
      BY <3>8 DEF ApplyNAT, StartReturns, Types
    <3>9. CASE StartHostapd(p)
      BY <3>9 DEF StartHostapd, StartReturns, Types
    <3>10. CASE StartDnsmasq(p)
      BY <3>10 DEF StartDnsmasq, StartReturns, Types
    <3>11. CASE StartDone(p)
      BY <3>11 DEF StartDone, Types
    <3>12. CASE Stop(p)
      BY <3>12 DEF Stop, Types
    <3>13. CASE StopDone(p)
      BY <3>13 DEF StopDone, Types
    <3>14. CASE HotspotStatus(p)
      BY <3>14 DEF HotspotStatus, Types
    <3>15. CASE IsRunning(p)
      BY <3>15 DEF IsRunning, Types
    <3> QED
      BY <2>2, <3>1, <3>2, <3>3, <3>4, <3>5, <3>6, <3>7, <3>8, <3>9, <3>10,
         <3>11, <3>12, <3>13, <3>14, <3>15 DEF Step
  <2>3. CASE Shutdown
    BY <2>3 DEF Shutdown, HotspotStop, Types, Procs
  <2>4. CASE Exit
    BY <2>4 DEF Exit, Types, Procs
  <2>5. CASE Crash
    BY <2>5 DEF Crash, Types
  <2>6. ASSUME NEW d \in Daemons, DaemonDies(d) \/ Reap(d)
        PROVE  StateSettles'
    BY <2>6 DEF DaemonDies, Reap, Types
  <2>7. CASE UNCHANGED vars
    BY <2>7 DEF vars
  <2> QED
    BY <2>1, <2>2, <2>3, <2>4, <2>5, <2>6, <2>7 DEF Next
<1> QED
  BY <1>1, <1>2, TypesInit, TypesNext, PTL DEF Spec


-----------------------------------------------------------------------------
\* What is up on the host, and why.

(***************************************************************************)
(* While a start is under way the session is not recorded, and each stage  *)
(* has what the stages before it set up; while it is recorded, all of it   *)
(* is in place.                                                            *)
(***************************************************************************)
Routing ==
    /\ \A p \in Procs :
         /\ pc[p] \in StartStages => ~running
         /\ pc[p] \in {"conf", "forward", "nat", "hostapd", "dnsmasq"} =>
              lanAddr
         /\ pc[p] \in {"nat", "hostapd", "dnsmasq"} => forwarding = "on"
         /\ pc[p] \in {"hostapd", "dnsmasq"} => nat
    /\ running => lanAddr /\ nat /\ forwarding = "on"

\* A start under way is at one of stages, or died there when main returned.
Starting(stages) ==
    hmu # NoProc /\ pc[hmu] \in stages \cup {"exited"}

(***************************************************************************)
(* Whatever is up on the host belongs to a session, to a start that has    *)
(* got that far, or to a cleanup that did not happen.                      *)
(***************************************************************************)
Owned ==
    "crash" \notin left =>
        /\ daemon["hostapd"] = "up" => running \/ Starting({"dnsmasq"})
        /\ daemon["dnsmasq"] = "up" => running
        /\ nat => running \/ Starting({"hostapd", "dnsmasq"}) \/ "nat" \in left
        /\ lanAddr =>
             \/ running
             \/ Starting({"conf", "forward", "nat", "hostapd", "dnsmasq"})
             \/ "addr" \in left
        /\ forwardingChanged =>
             /\ running \/ Starting({"nat", "hostapd", "dnsmasq"})
             /\ forwardingPrev = original \/ "forwarding" \in left
        /\ ~forwardingChanged =>
             forwarding = original \/ "forwarding" \in left

\* A step that leaves the manager and the host alone, outside a start.
LEMMA QuietStep ==
    ASSUME Types, Holder, Routing, Owned,
           NEW p \in Procs, pc[p] \notin StartStages \cup {"exited"},
           NEW stage \in Stages \ StartStages, Goto(p, stage),
           UNCHANGED <<manager, host, history>>
    PROVE  Routing' /\ Owned'
<1> USE HotspotAssumption DEF Goto, manager, host, history, StartStages
<1>1. hmu # NoProc => hmu \in Procs /\ hmu # p /\ pc'[hmu] = pc[hmu]
  BY DEF Types, Holder
<1>2. Routing'
  BY DEF Types, Routing
<1>3. Owned'
  BY <1>1 DEF Types, Owned, Starting
<1> QED
  BY <1>2, <1>3

\* The manager ends the session, if there is one, while no start is under way.
LEMMA StopStep ==
    ASSUME Types, Holder, Routing, Owned, hmu = NoProc,
           NEW p \in Procs, pc[p] \notin StartStages \cup {"exited"},
           NEW stage \in Stages \ StartStages, Goto(p, stage),
           NEW broken \in SUBSET Cleanups, StopLocked(broken),
           UNCHANGED <<hmu, original>>
    PROVE  Routing' /\ Owned'
<1> USE HotspotAssumption DEF Goto, StartStages
<1>1. \A q \in Procs : pc'[q] \notin StartStages
  BY DEF Types, Holder
<1>2. CASE ~running
  <2>1. UNCHANGED <<running, daemon, nat, lanAddr, forwarding,
                    forwardingChanged, forwardingPrev, left>>
    BY <1>2 DEF StopLocked
  <2> QED
    BY <1>1, <2>1 DEF Routing, Owned, Starting
<1>3. CASE running
  <2>1. /\ running' = FALSE
        /\ daemon' = NoDaemon
        /\ Teardown(Cleanups, broken)
    BY <1>3 DEF StopLocked
  <2>2. /\ nat' => "nat" \in left'
        /\ lanAddr' => "addr" \in left'
        /\ left \subseteq left' /\ ("crash" \in left' => "crash" \in left)
        /\ ~forwardingChanged'
        /\ ~forwardingChanged => forwarding' = forwarding
        /\ forwardingChanged /\ forwardingPrev # "unset" =>
             forwarding' = forwardingPrev \/ "forwarding" \in left'
    BY <2>1, TeardownEffect DEF Cleanups
  <2>3. Routing'
    BY <1>1, <2>1 DEF Routing
  <2>4. Owned'
    BY <2>1, <2>2 DEF Types, Owned, Starting, NoDaemon, Daemons
  <2> QED
    BY <2>3, <2>4
<1> QED
  BY <1>2, <1>3

(***************************************************************************)
(* A start fails at a stage whose teardown covers what it has set up, and  *)
(* leaves no daemon of its own.                                            *)
(***************************************************************************)
LEMMA FailingStep ==
    ASSUME Types, Holder, Routing, Owned,
           NEW p \in Procs, pc[p] \in StartStages,
           NEW steps \in SUBSET Cleanups, NEW broken \in SUBSET Cleanups,
           "addr" \in steps,
           "nat" \in steps \/ pc[p] \notin {"hostapd", "dnsmasq"},
           StartReturns(p, TRUE), Teardown(steps, broken),
           daemon'["hostapd"] = "up" =>
               daemon["hostapd"] = "up" /\ pc[p] # "dnsmasq",
           daemon'["dnsmasq"] = daemon["dnsmasq"],
           UNCHANGED <<running, original>>
    PROVE  Routing' /\ Owned'
<1> USE HotspotAssumption DEF StartStages
<1>1. /\ hmu = p /\ hmu' = NoProc
      /\ \A q \in Procs : pc'[q] \notin StartStages
  BY DEF Types, Holder, StartReturns, Goto
<1>2. ~running /\ ~running'
  BY DEF Routing
<1>3. /\ nat' => "nat" \in left' \/ (nat /\ "nat" \notin steps)
      /\ lanAddr' => "addr" \in left'
      /\ left \subseteq left' /\ ("crash" \in left' => "crash" \in left)
      /\ ~forwardingChanged'
      /\ ~forwardingChanged => forwarding' = forwarding
      /\ forwardingChanged /\ forwardingPrev # "unset" =>
           forwarding' = forwardingPrev \/ "forwarding" \in left'
  BY TeardownEffect
<1>4. Routing'
  BY <1>1, <1>2 DEF Routing
<1>5. Owned'
  BY <1>1, <1>2, <1>3 DEF Types, Owned, Starting
<1> QED
  BY <1>4, <1>5


HostInv == Types /\ Holder /\ Routing /\ Owned

LEMMA HostInit == Init => Routing /\ Owned
  BY DEF Init, Routing, Owned, StartStages, Daemons

\* The steps of a start that set something up, or fail.
LEMMA StartStep ==
    ASSUME HostInv, NEW p \in Procs,
           \/ StartLock(p) \/ Preflight(p) \/ LanAddr(p) \/ WriteConf(p)
           \/ EnableForwarding(p) \/ ApplyNAT(p)
           \/ StartHostapd(p) \/ StartDnsmasq(p)
    PROVE  Routing' /\ Owned'
<1> USE HotspotAssumption DEF HostInv, StartStages
<1> DEFINE Alone == hmu = p /\ ~running /\
                    \A q \in Procs \ {p} : pc[q] \notin StartStages
<1>0. pc[p] \in StartStages => Alone
  BY DEF Holder, Routing, Types
<1>1. CASE StartLock(p)
  <2>1. \A q \in Procs : pc[q] \notin StartStages
    BY <1>1 DEF StartLock, Holder, Types
  <2>2. Routing'
    BY <1>1, <2>1 DEF StartLock, StartReturns, Goto, Routing, Types, host
  <2>3. Owned'
    BY <1>1, <2>1
    DEF StartLock, StartReturns, Goto, Owned, Starting, Types, host, history
  <2> QED
    BY <2>2, <2>3
<1>2. CASE Preflight(p)
  <2>1. Routing'
    BY <1>0, <1>2 DEF Preflight, StartReturns, Goto, Routing, Types, host
  <2>2. Owned'
    BY <1>0, <1>2
    DEF Preflight, StartReturns, Goto, Owned, Starting, Types, host, history
  <2> QED
    BY <2>1, <2>2
<1>3. CASE LanAddr(p)
  <2>1. Routing'
    BY <1>0, <1>3 DEF LanAddr, StartReturns, Goto, Routing, Types
  <2>2. Owned'
    BY <1>0, <1>3
    DEF LanAddr, StartReturns, Goto, Owned, Starting, Types, history
  <2> QED
    BY <2>1, <2>2
<1>4. CASE WriteConf(p)
  <2>1. Routing'
    BY <1>0, <1>4 DEF WriteConf, StartReturns, Goto, Routing, Types, host
  <2>2. Owned'
    BY <1>0, <1>4
    DEF WriteConf, StartReturns, Goto, Owned, Starting, Types, host
  <2> QED
    BY <2>1, <2>2
<1>5. CASE EnableForwarding(p)
  <2>1. CASE /\ Goto(p, "nat")
             /\ forwardingPrev' = forwarding
             /\ forwardingChanged' = (forwarding # "on")
             /\ forwarding' = "on"
             /\ UNCHANGED <<failed, hmu, lanAddr, nat, left>>
    <3>1. Routing'
      BY <1>0, <1>5, <2>1 DEF EnableForwarding, Goto, Routing, Types
    <3>2. Owned'
      BY <1>0, <1>5, <2>1
      DEF EnableForwarding, Goto, Owned, Starting, Types
    <3> QED
      BY <3>1, <3>2
  <2>2. ASSUME StartReturns(p, TRUE), NEW broken \in Broken({"addr"}),
               Stranded(broken)
        PROVE  Routing' /\ Owned'
    <3>1. /\ hmu' = NoProc
          /\ \A q \in Procs : pc'[q] \notin StartStages
      BY <1>0, <1>5, <2>2 DEF EnableForwarding, StartReturns, Goto, Types
    <3>2. Alone /\ pc[p] = "forward"
      BY <1>0, <1>5 DEF EnableForwarding
    <3>3. UNCHANGED <<running, daemon, original>>
      BY <1>5 DEF EnableForwarding
    <3>4. /\ nat' = nat /\ forwardingChanged' = FALSE
          /\ left \subseteq left'
          /\ lanAddr' => "addr" \in left'
          /\ "crash" \in left' => "crash" \in left
          /\ forwarding' = forwarding \/ "forwarding" \in left'
      BY <2>2, StrandedEffect
    <3>5. Routing'
      BY <3>1, <3>2, <3>3 DEF Routing
    <3>6. Owned'
      BY <3>1, <3>2, <3>3, <3>4 DEF Types, Owned, Starting
    <3> QED
      BY <3>5, <3>6
  <2> QED
    BY <1>5, <2>1, <2>2 DEF EnableForwarding, Stranded
<1>6. CASE ApplyNAT(p)
  <2>1. CASE /\ nat' = TRUE
             /\ Goto(p, "hostapd")
             /\ UNCHANGED <<failed, hmu, lanAddr, forwarding,
                            forwardingChanged, forwardingPrev, left>>
    <3>1. Routing'
      BY <1>0, <1>6, <2>1 DEF ApplyNAT, Goto, Routing, Types
    <3>2. Owned'
      BY <1>0, <1>6, <2>1 DEF ApplyNAT, Goto, Owned, Starting, Types
    <3> QED
      BY <3>1, <3>2
  <2>2. ASSUME StartReturns(p, TRUE), NEW broken \in Broken(Cleanups),
               Teardown(Cleanups, broken)
        PROVE  Routing' /\ Owned'
    <3>1. broken \in SUBSET Cleanups
      BY BrokenType
    <3> QED
      BY <1>6, <2>2, <3>1, FailingStep DEF ApplyNAT, Cleanups
  <2> QED
    BY <1>6, <2>1, <2>2 DEF ApplyNAT
<1>7. CASE StartHostapd(p)
  <2>1. CASE /\ daemon' = [daemon EXCEPT !["hostapd"] = "up"]
             /\ Goto(p, "dnsmasq")
             /\ UNCHANGED <<failed, hmu, lanAddr, nat, forwarding,
                            forwardingChanged, forwardingPrev, left>>
    <3>1. Routing'
      BY <1>0, <1>7, <2>1 DEF StartHostapd, Goto, Routing, Types
    <3>2. Owned'
      BY <1>0, <1>7, <2>1 DEF StartHostapd, Goto, Owned, Starting, Types
    <3> QED
      BY <3>1, <3>2
  <2>2. ASSUME StartReturns(p, TRUE), NEW broken \in Broken(Cleanups),
               Teardown(Cleanups, broken), UNCHANGED daemon
        PROVE  Routing' /\ Owned'
    <3>1. broken \in SUBSET Cleanups
      BY BrokenType
    <3> QED
      BY <1>7, <2>2, <3>1, FailingStep DEF StartHostapd, Cleanups
  <2> QED
    BY <1>7, <2>1, <2>2 DEF StartHostapd
<1>8. CASE StartDnsmasq(p)
  <2>1. CASE /\ daemon' = [daemon EXCEPT !["dnsmasq"] = "up"]
             /\ running' = TRUE
             /\ StartReturns(p, FALSE)
             /\ UNCHANGED <<lanAddr, nat, forwarding, forwardingChanged,
                            forwardingPrev, left>>
    <3>1. Routing'
      BY <1>0, <1>8, <2>1 DEF StartDnsmasq, StartReturns, Goto, Routing, Types
    <3>2. Owned'
      BY <1>0, <1>8, <2>1
      DEF StartDnsmasq, StartReturns, Goto, Owned, Starting, Types
    <3> QED
      BY <3>1, <3>2
  <2>2. ASSUME StartReturns(p, TRUE), NEW broken \in Broken(Cleanups),
               Teardown(Cleanups, broken),
               daemon' = [daemon EXCEPT !["hostapd"] = "none"],
               UNCHANGED running
        PROVE  Routing' /\ Owned'
    <3>1. broken \in SUBSET Cleanups
      BY BrokenType
    <3>2. daemon'["hostapd"] = "none" /\ daemon'["dnsmasq"] = daemon["dnsmasq"]
      BY <2>2 DEF Types, Daemons
    <3> QED
      BY <1>8, <2>2, <3>1, <3>2, FailingStep DEF StartDnsmasq, Cleanups
  <2> QED
    BY <1>8, <2>1, <2>2 DEF StartDnsmasq
<1> QED
  BY <1>1, <1>2, <1>3, <1>4, <1>5, <1>6, <1>7, <1>8

LEMMA HostNext == HostInv /\ [Next]_vars => Routing' /\ Owned'
<1> SUFFICES ASSUME HostInv, [Next]_vars PROVE Routing' /\ Owned'
  OBVIOUS
<1> USE DEF HostInv
<1>1. ASSUME NEW p \in Procs, NEW o \in AllOps, Begin(p, o)
      PROVE  Routing' /\ Owned'
  <2>1. pc[p] \notin StartStages \cup {"exited"}
    BY <1>1 DEF Begin, StartStages
  <2>2. PICK stage \in {"startMark", "stopLock", "status"} :
          Goto(p, stage) /\ UNCHANGED <<manager, host, history>>
    BY <1>1 DEF Begin, AllOps, HotspotStart, HotspotStop
  <2> QED
    BY <2>1, <2>2, QuietStep DEF Stages, StartStages
<1>2. ASSUME NEW p \in Procs, Step(p) PROVE Routing' /\ Owned'
  <2>1. CASE StartRejected(p) \/ StartMark(p) \/ StartDone(p)
             \/ StopDone(p) \/ HotspotStatus(p)
    <3>1. pc[p] \notin StartStages \cup {"exited"}
      BY <2>1 DEF StartStages, StartRejected, StartMark, StartDone, StopDone,
                  HotspotStatus
    <3>2. PICK stage \in {"status", "startLock", "isRunning"} :
            Goto(p, stage) /\ UNCHANGED <<manager, host, history>>
      BY <2>1 DEF StartRejected, StartMark, StartDone, StopDone, HotspotStatus
    <3> QED
      BY <3>1, <3>2, QuietStep DEF Stages, StartStages
  <2>2. CASE Stop(p)
    <3>1. PICK broken \in Broken(Cleanups) : StopLocked(broken)
      BY <2>2 DEF Stop
    <3>2. broken \in SUBSET Cleanups
      BY BrokenType
    <3>3. /\ pc[p] \notin StartStages \cup {"exited"}
          /\ "stopDone" \in Stages \ StartStages
      BY <2>2 DEF Stop, StartStages, Stages
    <3> QED
      BY <2>2, <3>1, <3>2, <3>3, StopStep DEF Stop
  <2>3. CASE IsRunning(p)
    <3>1. /\ pc[p] \notin StartStages \cup {"exited"}
          /\ AfterStatus(p) \in Stages \ StartStages
      BY <2>3 DEF IsRunning, AfterStatus, StartStages, Stages
    <3>2. CASE \E d \in Daemons : daemon[d] = "none"
      <4>1. PICK broken \in Broken(Cleanups) : StopLocked(broken)
        BY <2>3, <3>2 DEF IsRunning
      <4>2. broken \in SUBSET Cleanups
        BY BrokenType
      <4> QED
        BY <2>3, <3>1, <4>1, <4>2, StopStep DEF IsRunning
    <3>3. CASE ~ \E d \in Daemons : daemon[d] = "none"
      <4>1. UNCHANGED <<manager, host, history>>
        BY <2>3, <3>3 DEF IsRunning, manager, host, history
      <4> QED
        BY <2>3, <3>1, <4>1, QuietStep DEF IsRunning
    <3> QED
      BY <3>2, <3>3
  <2> QED
    BY <1>2, <2>1, <2>2, <2>3, StartStep DEF Step
<1>3. CASE Shutdown
  <2>1. Main \in Procs /\ pc[Main] \notin StartStages \cup {"exited"}
    BY <1>3 DEF Shutdown, Procs, StartStages
  <2>2. Goto(Main, "stopLock") /\ UNCHANGED <<manager, host, history>>
    BY <1>3 DEF Shutdown, HotspotStop
  <2> QED
    BY <2>1, <2>2, QuietStep DEF Stages, StartStages
<1>4. CASE Exit
  <2>1. Routing'
    BY <1>4 DEF Exit, Routing, Types, StartStages, manager, host
  <2>2. Owned'
    BY <1>4 DEF Exit, Owned, Starting, Types, manager, host, history
  <2> QED
    BY <2>1, <2>2
<1>5. CASE Crash
  BY <1>5 DEF Crash, Routing, Owned, StartStages
<1>6. ASSUME NEW d \in Daemons, DaemonDies(d) \/ Reap(d)
      PROVE  Routing' /\ Owned'
  <2>1. daemon'["hostapd"] = "up" => daemon["hostapd"] = "up"
    BY <1>6 DEF DaemonDies, Reap, Types, Daemons
  <2>2. daemon'["dnsmasq"] = "up" => daemon["dnsmasq"] = "up"
    BY <1>6 DEF DaemonDies, Reap, Types, Daemons
  <2>3. UNCHANGED <<pc, manager, lanAddr, nat, forwarding, history>>
    BY <1>6 DEF DaemonDies, Reap
  <2>4. Routing'
    BY <2>3 DEF Routing, manager
  <2>5. Owned'
    BY <2>1, <2>2, <2>3 DEF Owned, Starting, manager, history
  <2> QED
    BY <2>4, <2>5
<1>7. CASE UNCHANGED vars
  BY <1>7 DEF vars, Routing, Owned, Starting, manager, host, history
<1> QED
  BY <1>1, <1>2, <1>3, <1>4, <1>5, <1>6, <1>7 DEF Next

LEMMA HostInvariant == Spec => []HostInv
<1>1. Init => HostInv
  BY TypesInit, HolderInit, HostInit DEF HostInv
<1>2. HostInv /\ [Next]_vars => HostInv'
  BY TypesNext, HolderNext, HostNext DEF HostInv
<1> QED
  BY <1>1, <1>2, PTL DEF Spec

(***************************************************************************)
(* Whenever the manager says the hotspot runs, its routing is in place,    *)
(* for any number of requests and whatever fails, dies or crashes.         *)
(***************************************************************************)
THEOREM RoutedWhileRunningCorrect == Spec => []RoutedWhileRunning
<1>1. HostInv => RoutedWhileRunning
  BY DEF HostInv, Routing, RoutedWhileRunning
<1> QED
  BY <1>1, HostInvariant, PTL

(***************************************************************************)
(* Whenever it says that nothing runs, nothing is left on the host but     *)
(* what a failed cleanup, a command given up after its work was done, a    *)
(* failed WriteConf or a crash left there.                                 *)
(***************************************************************************)
THEOREM NothingLeftBehindCorrect == Spec => []NothingLeftBehind
<1>1. HostInv => NothingLeftBehind
  BY DEF HostInv, Owned, Starting, Types, Daemons, NothingLeftBehind
<1> QED
  BY <1>1, HostInvariant, PTL

=============================================================================

-------------------------- MODULE WANServiceProofs --------------------------
(***************************************************************************)
(* Proofs about WANService, for any number of overlapping requests and any *)
(* modems, with or without control nodes and interfaces.                   *)
(***************************************************************************)
EXTENDS WANService, TLAPS

-----------------------------------------------------------------------------
\* Facts about the records

LEMMA NoInfoType ==
  /\ NoInfo \in WANInfo
  /\ NoInfo.iface = NoModem
  /\ NoInfo.session = "down"
  BY DEF NoInfo, WANInfo, Sessions

LEMMA InfoFields ==
  ASSUME NEW info \in WANInfo
  PROVE  info.iface \in Modems \cup {NoModem} /\ info.session \in {"connected", "down"}
  BY DEF WANInfo, Sessions

LEMMA InfoOf ==
  ASSUME NEW m \in Modems \cup {NoModem}, NEW session \in {"connected", "down"}
  PROVE  /\ [iface |-> m, session |-> session] \in WANInfo
         /\ [iface |-> m, session |-> session].iface = m
         /\ [iface |-> m, session |-> session].session = session
  BY DEF WANInfo, Sessions

\* A write to one field of the modem service's own view.
LEMMA InfoExcept ==
  ASSUME NEW info \in WANInfo, NEW m \in Modems \cup {NoModem},
         NEW session \in {"connected", "down"}
  PROVE  /\ [info EXCEPT !.session = session] = [iface |-> info.iface, session |-> session]
         /\ [info EXCEPT !.iface = m] = [iface |-> m, session |-> info.session]
  BY DEF WANInfo, Sessions

\* What a command leaves behind.
LEMMA EndOf ==
  ASSUME NEW done, NEW failed, NEW o \in Ends(done, failed)
  PROVE  /\ o.ok \in BOOLEAN
         /\ o.ok => o.now = done
         /\ ~o.ok => o.now \in failed
  BY DEF Ends

LEMMA EndRefused ==
  ASSUME NEW m, NEW o \in Refused(m)
  PROVE  o.ok = FALSE /\ o.now = host[m]
  BY DEF Refused

LEMMA BearerOutcome ==
  ASSUME TypeOK, NEW m \in Modems, NEW to \in BOOLEAN, NEW o \in Outcomes(bearer[m], to)
  PROVE  /\ o.ok \in BOOLEAN
         /\ o.now \in BOOLEAN
         /\ o.ok => o.now = to
<1>1. bearer[m] \in BOOLEAN
  BY DEF TypeOK
<1> QED BY <1>1, EndOf, Zenon DEF Outcomes

HostStates == {"bare", "partial", "configured"}

LEMMA HostOutcome ==
  ASSUME TypeOK, NEW m \in Modems, NEW done \in HostStates,
         NEW failed \in SUBSET HostStates,
         NEW o \in Ends(done, failed) \cup Refused(m)
  PROVE  /\ o.ok \in BOOLEAN
         /\ o.now \in HostStates
         /\ o.ok => o.now = done
<1>1. host[m] \in HostStates
  BY DEF TypeOK, HostStates
<1>2. CASE o \in Ends(done, failed)
  BY <1>1, <1>2, EndOf, Zenon
<1>3. CASE o \in Refused(m)
  BY <1>1, <1>3, EndRefused, Zenon
<1> QED BY <1>2, <1>3

LEMMA StaticOutcome ==
  ASSUME TypeOK, NEW m \in Modems, NEW o \in HostStatic(m)
  PROVE  o.ok \in BOOLEAN /\ o.now \in HostStates /\ (o.ok => o.now = "configured")
<1>1. o \in Ends("configured", {host[m], "partial", "configured"}) \cup Refused(m)
  BY DEF HostStatic
<1>2. /\ "configured" \in HostStates
      /\ {host[m], "partial", "configured"} \in SUBSET HostStates
  BY DEF HostStates, TypeOK
<1> QED BY <1>1, <1>2, HostOutcome

LEMMA DHCPOutcome ==
  ASSUME TypeOK, NEW m \in Modems, NEW o \in HostDHCP(m)
  PROVE  o.ok \in BOOLEAN /\ o.now \in HostStates /\ (o.ok => o.now = "configured")
<1>1. o \in Ends("configured", {host[m], "bare", "configured"}) \cup Refused(m)
  BY DEF HostDHCP
<1>2. /\ "configured" \in HostStates
      /\ {host[m], "bare", "configured"} \in SUBSET HostStates
  BY DEF HostStates, TypeOK
<1> QED BY <1>1, <1>2, HostOutcome

LEMMA ClearOutcome ==
  ASSUME TypeOK, NEW m \in Modems, NEW o \in HostClear(m)
  PROVE  o.now \in HostStates
<1>1. host[m] \in HostStates /\ "bare" \in HostStates
  BY DEF TypeOK, HostStates
<1> QED BY <1>1, EndOf, Zenon DEF HostClear, Outcomes

\* A disconnect may succeed and leave the address.
LEMMA DownOutcome ==
  ASSUME TypeOK, NEW m \in Modems, NEW o \in HostDown(m) \cup Refused(m)
  PROVE  o.ok \in BOOLEAN /\ o.now \in HostStates
  BY DEF HostDown, Refused, HostStates, TypeOK

-----------------------------------------------------------------------------
(***************************************************************************)
(* What a step of a request that works on a modem may do.  It goes on in   *)
(* its flow or ends; it touches the bearer of its modem or of the modem    *)
(* behind the AT port, and the interface of its modem; it shows its modem, *)
(* none, or a view that was shown before.                                  *)
(***************************************************************************)
MBIMStages == {"mbimConnect", "query", "configure", "publish", "rollback",
               "mbimDown", "clearHost", "publishDown"}

RNDISStages == {"activate", "static", "dhcp", "connected", "clearConnected",
                "resolveRNDIS", "rndisDown", "mark", "markFailed", "restore",
                "clearDown", "deactivate"}

RestoreStages == {"rndisDown", "markFailed", "restore"}

Working(r) == pc[r] \in MBIMStages \cup RNDISStages

Selects(r) == pc[r] \in {"bind", "clearSelected"}

Devices ==
    \A r \in Requests :
        /\ pc[r] \in MBIMStages => dev[r] \in Mbim
        /\ Working(r) \/ Selects(r) => dev[r] \in Modems

BeforeOnly ==
    \A r \in Requests : before[r] # NoInfo => pc[r] \in RestoreStages

GoesOn(r) ==
    /\ pc'[r] \in MBIMStages \cup RNDISStages
    /\ pc'[r] \in MBIMStages <=> pc[r] \in MBIMStages
    /\ UNCHANGED <<dev, clean>>
    /\ excused \subseteq excused'
    /\ excused' \subseteq excused \cup {dev[r]}

Ended(r) ==
    /\ pc'[r] = "idle"
    /\ dev' = [dev EXCEPT ![r] = NoModem]
    /\ clean' = [clean EXCEPT ![r] = FALSE]
    /\ excused \ {dev[r]} \subseteq excused'
    /\ excused' \subseteq excused \cup {dev[r]}
    /\ ~clean[r] => dev[r] \in excused'

ControlStep(r) ==
    /\ pc' \in [Requests -> Stages]
    /\ \A q \in Requests \ {r} : pc'[q] = pc[q]
    /\ GoesOn(r) \/ Ended(r)

BeforeStep(r) ==
    /\ before' \in [Requests -> WANInfo]
    /\ \A q \in Requests \ {r} : before'[q] = before[q]
    /\ before'[r] \in {before[r], NoInfo, Published}
    /\ before'[r] # NoInfo => pc'[r] \in RestoreStages

WorldStep(r) ==
    /\ UNCHANGED <<selection, bound>>
    /\ bearer' \in [Modems -> BOOLEAN]
    /\ \A m \in Modems \ {dev[r], bound} : bearer'[m] = bearer[m]
    /\ host' \in [Modems -> {"bare", "partial", "configured"}]
    /\ \A m \in Modems \ {dev[r]} : host'[m] = host[m]

ViewStep(r) ==
    /\ status' \in WANInfo /\ wanOverride' \in WANInfo
    /\ hasWAN' \in BOOLEAN /\ hasPDP' \in BOOLEAN
    /\ \/ status' = status
       \/ status'.session = "down"
       \/ pc[r] \in RNDISStages /\ status' = [iface |-> dev[r], session |-> "connected"]
    /\ \/ wanOverride' = wanOverride /\ hasWAN' = hasWAN
       \/ ~hasWAN'
       \/ wanOverride'.iface \in {dev[r], NoModem}
       \/ wanOverride' = before[r]

-----------------------------------------------------------------------------
\* Facts about the helpers of a request

\* A request that goes on changes its stage only.
LEMMA GotoControl ==
  ASSUME TypeOK, NEW r \in Requests, NEW stage \in Stages, Goto(r, stage),
         stage \in MBIMStages \cup RNDISStages,
         stage \in MBIMStages <=> pc[r] \in MBIMStages
  PROVE  ControlStep(r) /\ before' = before
  BY DEF TypeOK, Goto, ControlStep, GoesOn

(***************************************************************************)
(* A request that ends can only excuse its own modem, or settle it when    *)
(* nothing disturbed the request.                                          *)
(***************************************************************************)
LEMMA ReturnControl ==
  ASSUME TypeOK, NEW r \in Requests, NEW verdict, Return(r, verdict),
         dev[r] \in Modems
  PROVE  ControlStep(r) /\ before' = [before EXCEPT ![r] = NoInfo]
  BY DEF TypeOK, Return, ControlStep, Ended, Stages

LEMMA WorkTypes ==
  ASSUME TypeOK, Devices, NEW r \in Requests, Working(r),
         ControlStep(r), BeforeStep(r), WorldStep(r), ViewStep(r)
  PROVE  TypeOK' /\ Devices'
<1>1. pc' \in [Requests -> Stages] /\ dev' \in [Requests -> Modems \cup {NoModem}]
  BY DEF TypeOK, ControlStep, GoesOn, Ended
<1>2. clean' \in [Requests -> BOOLEAN]
  BY DEF TypeOK, ControlStep, GoesOn, Ended
<1>3. excused' \subseteq Modems
  BY DEF TypeOK, Devices, ControlStep, GoesOn, Ended
<1>4. UNCHANGED <<selectedModemID, selectedMBIM, selectedNet, bound>>
  BY DEF WorldStep, selection
<1>5. TypeOK'
  BY <1>1, <1>2, <1>3, <1>4 DEF TypeOK, BeforeStep, WorldStep, ViewStep
<1>6. Devices'
  BY DEF TypeOK, Devices, ControlStep, GoesOn, Ended, Working, Selects,
     MBIMStages, RNDISStages
<1> QED BY <1>5, <1>6

-----------------------------------------------------------------------------
(***************************************************************************)
(* Every step of a request that works is such a step.                      *)
(***************************************************************************)
WorkStep(r) ==
    \/ MBIMUp(r) \/ QueryIPConfig(r) \/ ConfigureStatic(r) \/ Rollback(r)
    \/ PublishMBIM(r) \/ ActivatePDP(r) \/ StaticRNDIS(r) \/ DHCPRNDIS(r)
    \/ MarkConnected(r) \/ ClearConnected(r) \/ MBIMDown(r) \/ ClearHost(r)
    \/ PublishDown(r) \/ ReadBefore(r) \/ RNDISDown(r) \/ MarkDisconnected(r)
    \/ Restore(r) \/ ClearDown(r) \/ DeactivatePDP(r)

LEMMA WorkStages ==
  ASSUME NEW r \in Requests, WorkStep(r)
  PROVE  Working(r)
  BY DEF WorkStep, MBIMUp, QueryIPConfig, ConfigureStatic, Rollback, PublishMBIM,
     ActivatePDP, StaticRNDIS, DHCPRNDIS, MarkConnected, ClearConnected, MBIMDown,
     ClearHost, PublishDown, ReadBefore, RNDISDown, MarkDisconnected, Restore,
     ClearDown, DeactivatePDP, Working, MBIMStages, RNDISStages

LEMMA WorkControl ==
  ASSUME TypeOK, Devices, NEW r \in Requests, WorkStep(r)
  PROVE  ControlStep(r)
<1>0. dev[r] \in Modems
  BY WorkStages DEF Devices
<1> USE DEF MBIMStages, RNDISStages, Stages
<1>1. CASE MBIMUp(r)
  BY <1>0, <1>1, GotoControl, ReturnControl DEF MBIMUp
<1>2. CASE QueryIPConfig(r)
  BY <1>2, GotoControl DEF QueryIPConfig
<1>3. CASE ConfigureStatic(r)
  BY <1>3, GotoControl DEF ConfigureStatic
<1>4. CASE Rollback(r)
  BY <1>0, <1>4, ReturnControl DEF Rollback
<1>5. CASE PublishMBIM(r)
  BY <1>0, <1>5, ReturnControl DEF PublishMBIM
<1>6. CASE ActivatePDP(r)
  BY <1>0, <1>6, GotoControl, ReturnControl DEF ActivatePDP
<1>7. CASE StaticRNDIS(r)
  BY <1>0, <1>7, GotoControl, ReturnControl DEF StaticRNDIS
<1>8. CASE DHCPRNDIS(r)
  BY <1>0, <1>8, GotoControl, ReturnControl DEF DHCPRNDIS
<1>9. CASE MarkConnected(r)
  BY <1>9, GotoControl DEF MarkConnected
<1>10. CASE ClearConnected(r)
  BY <1>0, <1>10, ReturnControl DEF ClearConnected
<1>11. CASE MBIMDown(r)
  BY <1>0, <1>11, GotoControl, ReturnControl DEF MBIMDown
<1>12. CASE ClearHost(r)
  BY <1>12, GotoControl DEF ClearHost
<1>13. CASE PublishDown(r)
  BY <1>0, <1>13, ReturnControl DEF PublishDown
<1>14. CASE ReadBefore(r)
  BY <1>14 DEF ReadBefore, ControlStep, GoesOn, TypeOK
<1>15. CASE RNDISDown(r)
  BY <1>15 DEF RNDISDown, ControlStep, GoesOn, TypeOK
<1>16. CASE MarkDisconnected(r)
  BY <1>16, GotoControl DEF MarkDisconnected
<1>17. CASE Restore(r)
  BY <1>0, <1>17, ReturnControl DEF Restore
<1>18. CASE ClearDown(r)
  BY <1>18, GotoControl DEF ClearDown
<1>19. CASE DeactivatePDP(r)
  BY <1>0, <1>19, ReturnControl DEF DeactivatePDP
<1> QED BY <1>1, <1>2, <1>3, <1>4, <1>5, <1>6, <1>7, <1>8, <1>9, <1>10, <1>11,
           <1>12, <1>13, <1>14, <1>15, <1>16, <1>17, <1>18, <1>19 DEF WorkStep

LEMMA WorkBefore ==
  ASSUME TypeOK, Devices, BeforeOnly, NEW r \in Requests, WorkStep(r)
  PROVE  BeforeStep(r)
<1>0. /\ dev[r] \in Modems /\ Published \in WANInfo
      /\ before[r] # NoInfo => pc[r] \in RestoreStages
  BY WorkStages DEF Devices, TypeOK, Published, BeforeOnly
<1>a. ASSUME before' = before, before[r] # NoInfo => pc'[r] \in RestoreStages
      PROVE  BeforeStep(r)
  BY <1>a DEF BeforeStep, TypeOK
<1>b. ASSUME before' = [before EXCEPT ![r] = NoInfo] PROVE BeforeStep(r)
  BY <1>b, NoInfoType DEF BeforeStep, TypeOK
<1> USE DEF MBIMStages, RNDISStages, RestoreStages, Stages
<1>1. CASE MBIMUp(r)
  BY <1>0, <1>a, <1>b, <1>1, GotoControl, ReturnControl DEF MBIMUp, TypeOK, ControlStep, GoesOn
<1>2. CASE QueryIPConfig(r)
  BY <1>0, <1>a, <1>b, <1>2, GotoControl DEF QueryIPConfig, TypeOK, ControlStep, GoesOn
<1>3. CASE ConfigureStatic(r)
  BY <1>0, <1>a, <1>b, <1>3, GotoControl DEF ConfigureStatic, TypeOK, ControlStep, GoesOn
<1>4. CASE Rollback(r)
  BY <1>0, <1>a, <1>b, <1>4, ReturnControl DEF Rollback, TypeOK, ControlStep, GoesOn
<1>5. CASE PublishMBIM(r)
  BY <1>0, <1>a, <1>b, <1>5, ReturnControl DEF PublishMBIM, TypeOK, ControlStep, GoesOn
<1>6. CASE ActivatePDP(r)
  BY <1>0, <1>a, <1>b, <1>6, GotoControl, ReturnControl DEF ActivatePDP, TypeOK, ControlStep, GoesOn
<1>7. CASE StaticRNDIS(r)
  BY <1>0, <1>a, <1>b, <1>7, GotoControl, ReturnControl DEF StaticRNDIS, TypeOK, ControlStep, GoesOn
<1>8. CASE DHCPRNDIS(r)
  BY <1>0, <1>a, <1>b, <1>8, GotoControl, ReturnControl DEF DHCPRNDIS, TypeOK, ControlStep, GoesOn
<1>9. CASE MarkConnected(r)
  BY <1>0, <1>a, <1>b, <1>9, GotoControl DEF MarkConnected, TypeOK, ControlStep, GoesOn
<1>10. CASE ClearConnected(r)
  BY <1>0, <1>a, <1>b, <1>10, ReturnControl DEF ClearConnected, TypeOK, ControlStep, GoesOn
<1>11. CASE MBIMDown(r)
  BY <1>0, <1>a, <1>b, <1>11, GotoControl, ReturnControl DEF MBIMDown, TypeOK, ControlStep, GoesOn
<1>12. CASE ClearHost(r)
  BY <1>0, <1>a, <1>b, <1>12, GotoControl DEF ClearHost, TypeOK, ControlStep, GoesOn
<1>13. CASE PublishDown(r)
  BY <1>0, <1>a, <1>b, <1>13, ReturnControl DEF PublishDown, TypeOK, ControlStep, GoesOn
<1>14. CASE ReadBefore(r)
  BY <1>0, <1>14 DEF ReadBefore, BeforeStep, TypeOK
<1>15. CASE RNDISDown(r)
  BY <1>0, <1>15, NoInfoType DEF RNDISDown, BeforeStep, TypeOK
<1>16. CASE MarkDisconnected(r)
  BY <1>0, <1>a, <1>b, <1>16, GotoControl DEF MarkDisconnected, Goto, TypeOK, ControlStep, GoesOn
<1>17. CASE Restore(r)
  BY <1>0, <1>a, <1>b, <1>17, ReturnControl DEF Restore, TypeOK, ControlStep, GoesOn
<1>18. CASE ClearDown(r)
  BY <1>0, <1>a, <1>b, <1>18, GotoControl DEF ClearDown, TypeOK, ControlStep, GoesOn
<1>19. CASE DeactivatePDP(r)
  BY <1>0, <1>a, <1>b, <1>19, ReturnControl DEF DeactivatePDP, TypeOK, ControlStep, GoesOn
<1> QED BY <1>1, <1>2, <1>3, <1>4, <1>5, <1>6, <1>7, <1>8, <1>9, <1>10, <1>11,
           <1>12, <1>13, <1>14, <1>15, <1>16, <1>17, <1>18, <1>19 DEF WorkStep

LEMMA WorkWorld ==
  ASSUME TypeOK, Devices, NEW r \in Requests, WorkStep(r)
  PROVE  WorldStep(r)
<1>0. dev[r] \in Modems /\ bound \in Modems
  BY WorkStages DEF Devices, TypeOK
<1>a. ASSUME bearer' = bearer, host' = host, UNCHANGED <<selection, bound>>
      PROVE  WorldStep(r)
  BY <1>a DEF WorldStep, TypeOK
<1>b. ASSUME NEW m \in {dev[r], bound}, NEW to \in BOOLEAN, NEW o \in Outcomes(bearer[m], to),
             bearer' = [bearer EXCEPT ![m] = o.now], host' = host, UNCHANGED <<selection, bound>>
      PROVE  WorldStep(r)
  <2>1. o.now \in BOOLEAN
    BY <1>0, BearerOutcome
  <2> QED BY <1>0, <1>b, <2>1 DEF WorldStep, TypeOK
<1>c. ASSUME NEW o, o.now \in HostStates,
             host' = [host EXCEPT ![dev[r]] = o.now], bearer' = bearer, UNCHANGED <<selection, bound>>
      PROVE  WorldStep(r)
  BY <1>0, <1>c DEF WorldStep, TypeOK, HostStates
<1>1. CASE MBIMUp(r)
  BY <1>b, <1>1 DEF MBIMUp, world, Connect
<1>2. CASE QueryIPConfig(r)
  BY <1>a, <1>2 DEF QueryIPConfig, world
<1>3. CASE ConfigureStatic(r)
  <2>1. PICK o \in HostStatic(dev[r]) :
           host' = [host EXCEPT ![dev[r]] = o.now]
    BY <1>3 DEF ConfigureStatic
  <2>2. o.now \in HostStates
    BY <1>0, <2>1, StaticOutcome
  <2> QED BY <1>c, <1>3, <2>1, <2>2 DEF ConfigureStatic, world
<1>4. CASE Rollback(r)
  BY <1>b, <1>4 DEF Rollback, world, Disconnect
<1>5. CASE PublishMBIM(r)
  BY <1>a, <1>5 DEF PublishMBIM, world
<1>6. CASE ActivatePDP(r)
  BY <1>b, <1>6 DEF ActivatePDP, world
<1>7. CASE StaticRNDIS(r)
  <2>1. PICK o \in Refused(dev[r]) \cup (IF RNDISIface(dev[r]) THEN HostStatic(dev[r]) ELSE {}) :
           host' = [host EXCEPT ![dev[r]] = o.now]
    BY <1>7 DEF StaticRNDIS
  <2>2. o.now \in HostStates
    BY <1>0, <2>1, StaticOutcome, EndRefused DEF TypeOK, HostStates
  <2> QED BY <1>c, <1>7, <2>1, <2>2 DEF StaticRNDIS, world
<1>8. CASE DHCPRNDIS(r)
  <2>1. PICK o \in IF RNDISIface(dev[r]) THEN HostDHCP(dev[r]) ELSE Refused(dev[r]) :
           host' = [host EXCEPT ![dev[r]] = o.now]
    BY <1>8 DEF DHCPRNDIS
  <2>2. o.now \in HostStates
    BY <1>0, <2>1, DHCPOutcome, EndRefused DEF TypeOK, HostStates
  <2> QED BY <1>c, <1>8, <2>1, <2>2 DEF DHCPRNDIS, world
<1>9. CASE MarkConnected(r)
  BY <1>a, <1>9 DEF MarkConnected, world
<1>10. CASE ClearConnected(r)
  BY <1>a, <1>10 DEF ClearConnected, world
<1>11. CASE MBIMDown(r)
  BY <1>b, <1>11 DEF MBIMDown, world, Disconnect
<1>12. CASE ClearHost(r)
  <2>1. PICK o \in HostClear(dev[r]) :
           host' = [host EXCEPT ![dev[r]] = o.now]
    BY <1>12 DEF ClearHost
  <2>2. o.now \in HostStates
    BY <1>0, <2>1, ClearOutcome
  <2> QED BY <1>c, <1>12, <2>1, <2>2 DEF ClearHost, world
<1>13. CASE PublishDown(r)
  BY <1>a, <1>13 DEF PublishDown, world
<1>14. CASE ReadBefore(r)
  BY <1>a, <1>14 DEF ReadBefore, world
<1>15. CASE RNDISDown(r)
  <2>1. PICK o \in IF RNDISIface(dev[r]) THEN HostDown(dev[r]) ELSE Refused(dev[r]) :
           host' = [host EXCEPT ![dev[r]] = o.now]
    BY <1>15 DEF RNDISDown
  <2>2. o.now \in HostStates
    BY <1>0, <2>1, DownOutcome
  <2> QED BY <1>c, <1>15, <2>1, <2>2 DEF RNDISDown, world
<1>16. CASE MarkDisconnected(r)
  BY <1>a, <1>16 DEF MarkDisconnected, world
<1>17. CASE Restore(r)
  BY <1>a, <1>17 DEF Restore, world
<1>18. CASE ClearDown(r)
  BY <1>a, <1>18 DEF ClearDown, world
<1>19. CASE DeactivatePDP(r)
  BY <1>b, <1>19 DEF DeactivatePDP, world
<1> QED BY <1>1, <1>2, <1>3, <1>4, <1>5, <1>6, <1>7, <1>8, <1>9, <1>10, <1>11,
           <1>12, <1>13, <1>14, <1>15, <1>16, <1>17, <1>18, <1>19 DEF WorkStep

LEMMA WorkView ==
  ASSUME TypeOK, Devices, NEW r \in Requests, WorkStep(r)
  PROVE  ViewStep(r)
<1>0. dev[r] \in Modems
  BY WorkStages DEF Devices
<1>a. ASSUME status' = status, UNCHANGED overrides PROVE ViewStep(r)
  BY <1>a DEF ViewStep, TypeOK, overrides
<1>1. CASE MBIMUp(r)
  BY <1>a, <1>1 DEF MBIMUp
<1>2. CASE QueryIPConfig(r)
  BY <1>a, <1>2 DEF QueryIPConfig
<1>3. CASE ConfigureStatic(r)
  BY <1>a, <1>3 DEF ConfigureStatic
<1>4. CASE Rollback(r)
  BY <1>a, <1>4 DEF Rollback
<1>5. CASE PublishMBIM(r)
  BY <1>0, <1>5, InfoOf, InfoExcept, InfoFields DEF PublishMBIM, SetOverrides, ViewStep, TypeOK
<1>6. CASE ActivatePDP(r)
  BY <1>a, <1>6 DEF ActivatePDP
<1>7. CASE StaticRNDIS(r)
  BY <1>a, <1>7 DEF StaticRNDIS
<1>8. CASE DHCPRNDIS(r)
  BY <1>a, <1>8 DEF DHCPRNDIS
<1>9. CASE MarkConnected(r)
  BY <1>0, <1>9, InfoOf, InfoExcept, InfoFields DEF MarkConnected, ViewStep, TypeOK, overrides, RNDISStages
<1>10. CASE ClearConnected(r)
  BY <1>10, NoInfoType DEF ClearConnected, ClearOverrides, ViewStep, TypeOK
<1>11. CASE MBIMDown(r)
  BY <1>a, <1>11 DEF MBIMDown
<1>12. CASE ClearHost(r)
  BY <1>a, <1>12 DEF ClearHost
<1>13. CASE PublishDown(r)
  BY <1>0, <1>13, InfoOf, InfoExcept, InfoFields DEF PublishDown, SetOverrides, ViewStep, TypeOK
<1>14. CASE ReadBefore(r)
  BY <1>a, <1>14 DEF ReadBefore
<1>15. CASE RNDISDown(r)
  BY <1>a, <1>15 DEF RNDISDown
<1>16. CASE MarkDisconnected(r)
  <2>1. status' = [iface |-> status.iface, session |-> "down"]
    BY <1>16, InfoExcept DEF MarkDisconnected, TypeOK
  <2>2. status' \in WANInfo /\ status'.session = "down"
    BY <2>1, InfoOf, InfoFields DEF TypeOK
  <2> QED BY <1>16, <2>2 DEF MarkDisconnected, ViewStep, TypeOK, overrides
<1>17. CASE Restore(r)
  BY <1>0, <1>17, InfoOf, InfoExcept, InfoFields DEF Restore, SetOverrides, ViewStep, TypeOK
<1>18. CASE ClearDown(r)
  BY <1>18, NoInfoType DEF ClearDown, ClearOverrides, ViewStep, TypeOK
<1>19. CASE DeactivatePDP(r)
  BY <1>a, <1>19 DEF DeactivatePDP
<1> QED BY <1>1, <1>2, <1>3, <1>4, <1>5, <1>6, <1>7, <1>8, <1>9, <1>10, <1>11,
           <1>12, <1>13, <1>14, <1>15, <1>16, <1>17, <1>18, <1>19 DEF WorkStep

-----------------------------------------------------------------------------
(***************************************************************************)
(* Types, and how the requests stand to each other: a request that has run *)
(* alone so far is the only one in progress.                               *)
(***************************************************************************)
CleanAlone ==
    \A r \in Requests : clean[r] =>
        pc[r] # "idle" /\ \A q \in Requests : q = r \/ pc[q] = "idle"

Control == TypeOK /\ Devices /\ BeforeOnly /\ CleanAlone

Rest == <<before, selection, bound, world, status, overrides, excused>>

LEMMA ControlInit == Init => Control
<1> SUFFICES ASSUME Init PROVE Control
  OBVIOUS
<1>1. status = [iface |-> FirstNet, session |-> "down"] /\ FirstNet \in WithNet \cup {NoModem}
  BY ModemsAssumption, InfoExcept, NoInfoType DEF Init
<1>2. before = [r \in Requests |-> NoInfo] /\ before \in [Requests -> WANInfo]
  BY NoInfoType DEF Init
<1>3. status \in WANInfo /\ wanOverride \in WANInfo
  <2>1. FirstNet \in Modems \cup {NoModem}
    BY <1>1, ModemsAssumption
  <2>2. status \in WANInfo
    BY <1>1, <2>1, InfoOf
  <2> QED BY <2>2, NoInfoType DEF Init
<1>4. TypeOK
  BY <1>1, <1>2, <1>3, ModemsAssumption DEF Init, TypeOK, Stages
<1>5. Devices /\ CleanAlone /\ BeforeOnly
  BY <1>2 DEF Init, Devices, CleanAlone, BeforeOnly, Working, Selects, MBIMStages, RNDISStages
<1> QED BY <1>4, <1>5 DEF Control

LEMMA WorkKeepsControl ==
  ASSUME Control, NEW r \in Requests, WorkStep(r)
  PROVE  Control'
<1>1. /\ Working(r) /\ ControlStep(r) /\ BeforeStep(r) /\ WorldStep(r) /\ ViewStep(r)
      /\ TypeOK /\ Devices /\ BeforeOnly /\ CleanAlone
  BY WorkStages, WorkControl, WorkBefore, WorkWorld, WorkView DEF Control
<1>2. TypeOK' /\ Devices'
  BY <1>1, WorkTypes
<1>3. BeforeOnly'
  BY <1>1 DEF BeforeOnly, BeforeStep, ControlStep
<1>4. CleanAlone'
  BY <1>1 DEF CleanAlone, ControlStep, GoesOn, Ended, TypeOK, Working, MBIMStages, RNDISStages
<1> QED BY <1>2, <1>3, <1>4 DEF Control

\* The start of a request: whoever is in progress is no longer alone.
LEMMA StartControl ==
  ASSUME Control, NEW r \in Requests, NEW stage \in Stages, stage # "idle",
         NEW m \in Modems \cup {NoModem}, Start(r, stage, m), before' = before,
         stage \in MBIMStages => m \in Mbim,
         stage # "resolveMBIM" => m \in Modems
  PROVE  /\ pc' \in [Requests -> Stages]
         /\ dev' \in [Requests -> Modems \cup {NoModem}]
         /\ clean' \in [Requests -> BOOLEAN]
         /\ Devices' /\ BeforeOnly' /\ CleanAlone'
<1>1. /\ pc[r] = "idle" /\ pc' \in [Requests -> Stages] /\ pc'[r] = stage
      /\ \A q \in Requests \ {r} : pc'[q] = pc[q]
      /\ dev' \in [Requests -> Modems \cup {NoModem}] /\ dev'[r] = m
      /\ \A q \in Requests \ {r} : dev'[q] = dev[q]
      /\ clean' \in [Requests -> BOOLEAN]
      /\ \A q \in Requests : clean'[q] =>
            q = r /\ \A p \in Requests : p = r \/ pc[p] = "idle"
  BY DEF Start, Control, TypeOK
<1>2. Devices'
  BY <1>1 DEF Control, Devices, Working, Selects, MBIMStages, RNDISStages
<1>3. BeforeOnly'
  BY <1>1 DEF Control, BeforeOnly, RestoreStages
<1>4. CleanAlone'
  BY <1>1 DEF Control, CleanAlone
<1> QED BY <1>1, <1>2, <1>3, <1>4

LEMMA ControlNext == Control /\ [Next]_vars => Control'
<1> SUFFICES ASSUME Control, [Next]_vars PROVE Control'
  OBVIOUS
<1>0. TypeOK /\ Devices /\ BeforeOnly /\ CleanAlone
  BY DEF Control
<1>1. ASSUME NEW r \in Requests, WorkStep(r) PROVE Control'
  BY <1>1, WorkKeepsControl
<1>2. ASSUME NEW r \in Requests, DataConnect(r) PROVE Control'
  <2>1. PICK stage \in {"mbimConnect", "activate"} :
            /\ Start(r, stage, selectedModemID)
            /\ stage = "mbimConnect" => selectedModemID \in Mbim
    BY <1>0, <1>2, ModemsAssumption DEF DataConnect, MBIMResolves, TypeOK
  <2>2. /\ UNCHANGED <<before, selection, bound, world, status, overrides, excused>>
    BY <1>2 DEF DataConnect
  <2> QED BY <1>0, <2>1, <2>2, StartControl
          DEF Control, TypeOK, selection, world, overrides, Stages, MBIMStages
<1>3. ASSUME NEW r \in Requests, DataDisconnect(r) PROVE Control'
  <2>1. \/ Start(r, "resolveMBIM", NoModem)
        \/ Start(r, "resolveRNDIS", selectedNet) /\ selectedNet = selectedModemID
    BY <1>3 DEF DataDisconnect, RNDISResolves
  <2>2. /\ UNCHANGED <<before, selection, bound, world, status, overrides, excused>>
    BY <1>3 DEF DataDisconnect
  <2> QED BY <1>0, <2>1, <2>2, StartControl
          DEF Control, TypeOK, selection, world, overrides, Stages, MBIMStages
<1>4. ASSUME NEW r \in Requests, ResolveMBIM(r) PROVE Control'
  <2>1. TypeOK'
    <3>1. /\ pc' \in [Requests -> Stages] /\ dev' \in [Requests -> Modems \cup {NoModem}]
          /\ clean' \in [Requests -> BOOLEAN] /\ UNCHANGED Rest
      <4>1. pc' \in [Requests -> Stages] /\ UNCHANGED Rest
        BY <1>0, <1>4 DEF ResolveMBIM, TypeOK, Stages, Rest
      <4>2. dev' = dev \/ dev' = [dev EXCEPT ![r] = selectedMBIM]
        BY <1>4 DEF ResolveMBIM
      <4>3. clean' = clean \/ clean' = [clean EXCEPT ![r] = FALSE]
        BY <1>4 DEF ResolveMBIM
      <4> QED BY <1>0, <4>1, <4>2, <4>3, ModemsAssumption DEF TypeOK
    <3> QED BY <1>0, <3>1 DEF Rest, TypeOK, selection, world, overrides
  <2>2. Devices' /\ BeforeOnly' /\ CleanAlone'
    BY <1>0, <1>4, ModemsAssumption DEF ResolveMBIM, TypeOK, selection, Devices, BeforeOnly,
       CleanAlone, Working, Selects, MBIMStages, RNDISStages, RestoreStages
  <2> QED BY <2>1, <2>2 DEF Control
<1>5. ASSUME NEW r \in Requests, SelectModem(r) PROVE Control'
  <2>1. PICK m \in Modems :
           /\ Start(r, "bind", m)
           /\ selectedModemID' = m
           /\ selectedMBIM' = IF m \in Mbim THEN m ELSE selectedMBIM
           /\ selectedNet' = IF m \in WithNet THEN m ELSE selectedNet
           /\ UNCHANGED <<before, bound, world, status, overrides, excused>>
    BY <1>5 DEF SelectModem
  <2> QED BY <1>0, <2>1, StartControl
          DEF Control, TypeOK, world, overrides, Stages, MBIMStages
<1>6. ASSUME NEW r \in Requests, SelectBind(r) PROVE Control'
  <2>1. TypeOK'
    BY <1>0, <1>6 DEF SelectBind, Goto, TypeOK, Devices, Selects, selection, world, overrides, Stages
  <2>2. Devices' /\ BeforeOnly' /\ CleanAlone'
    BY <1>0, <1>6 DEF SelectBind, Goto, TypeOK, Devices, BeforeOnly,
       CleanAlone, Working, Selects, MBIMStages, RNDISStages, RestoreStages
  <2> QED BY <2>1, <2>2 DEF Control
<1>7. ASSUME NEW r \in Requests, ClearSelected(r) PROVE Control'
  <2>1. TypeOK'
    BY <1>0, <1>7, NoInfoType DEF ClearSelected, ClearOverrides, TypeOK, selection, world, Stages
  <2>2. Devices' /\ BeforeOnly' /\ CleanAlone'
    BY <1>0, <1>7 DEF ClearSelected, TypeOK, Devices, BeforeOnly,
       CleanAlone, Working, Selects, MBIMStages, RNDISStages, RestoreStages
  <2> QED BY <2>1, <2>2 DEF Control
<1>8. CASE RefreshWAN
  <2>1. status' = [iface |-> selectedNet, session |-> status.session]
    BY <1>0, <1>8, InfoExcept, ModemsAssumption DEF RefreshWAN, TypeOK
  <2>2. status' \in WANInfo
    BY <1>0, <2>1, InfoOf, InfoFields, ModemsAssumption DEF TypeOK
  <2>3. TypeOK'
    BY <1>0, <1>8, <2>2 DEF RefreshWAN, TypeOK, locals, selection, world, overrides
  <2>4. Devices' /\ BeforeOnly' /\ CleanAlone'
    BY <1>0, <1>8 DEF RefreshWAN, locals, Devices, BeforeOnly, CleanAlone, Working, Selects
  <2> QED BY <2>3, <2>4 DEF Control
<1>9. ASSUME NEW m \in Modems, NetworkDrop(m) PROVE Control'
  <2>1. TypeOK'
    BY <1>0, <1>9 DEF NetworkDrop, TypeOK, locals, selection, overrides
  <2>2. Devices' /\ BeforeOnly' /\ CleanAlone'
    BY <1>0, <1>9 DEF NetworkDrop, locals, Devices, BeforeOnly, CleanAlone, Working, Selects
  <2> QED BY <2>1, <2>2 DEF Control
<1>10. CASE UNCHANGED vars
  <2>1. TypeOK'
    BY <1>0, <1>10 DEF vars, TypeOK, locals, selection, world, overrides
  <2>2. Devices' /\ BeforeOnly' /\ CleanAlone'
    BY <1>0, <1>10 DEF vars, locals, Devices, BeforeOnly, CleanAlone, Working, Selects
  <2> QED BY <2>1, <2>2 DEF Control
<1> QED BY <1>1, <1>2, <1>3, <1>4, <1>5, <1>6, <1>7, <1>8, <1>9, <1>10 DEF Next, Step, WorkStep

(***************************************************************************)
(* The state of the WAN service has the types that TypeOK gives it, for    *)
(* any number of overlapping requests.                                     *)
(***************************************************************************)
THEOREM TypeCorrect == Spec => []TypeOK
<1>1. Init => Control
  BY ControlInit
<1>2. Control /\ [Next]_vars => Control'
  BY ControlNext
<1>3. Control => TypeOK
  BY DEF Control
<1> QED BY <1>1, <1>2, <1>3, PTL DEF Spec

-----------------------------------------------------------------------------
(***************************************************************************)
(* The inductive invariant of the safety properties.  Every request works  *)
(* on the selected modem, unless the modem was selected away from it: then *)
(* it is not alone, and the end of the selection excuses every modem.      *)
(***************************************************************************)
Selecting == \E r \in Requests : Selects(r)

OnSelected ==
    \A r \in Requests : Working(r) =>
        \/ /\ dev[r] = selectedModemID
           /\ pc[r] \in RNDISStages => selectedNet = selectedModemID
        \/ ~clean[r] /\ (excused = Modems \/ Selecting)

Up(m) == bearer[m] \/ host[m] # "bare"

\* Only the selected modem, or an excused one, can be up or shown as connected.
OthersDown ==
    ~Selecting => \A m \in Modems \ excused :
        m # selectedModemID => ~Up(m) /\ ~PublishedConnected(m)

\* The modems that the AT port, the views and the requests' memories can stand for.
Known == {selectedModemID, NoModem} \cup excused

BoundKnown == ~Selecting => bound \in Known

ViewKnown ==
    ~Selecting /\ status.session = "connected" =>
        selectedNet \in Known /\ status.iface \in Known

BeforeKnown ==
    ~Selecting => \A r \in Requests :
        before[r].session = "connected" => before[r].iface \in Known

Others == OnSelected /\ OthersDown /\ BoundKnown /\ ViewKnown /\ BeforeKnown

LEMMA WorkKeepsOthers ==
  ASSUME Control, Others, NEW r \in Requests, WorkStep(r)
  PROVE  Others'
<1>1. /\ Working(r) /\ ControlStep(r) /\ BeforeStep(r) /\ WorldStep(r) /\ ViewStep(r)
      /\ TypeOK /\ Devices /\ BeforeOnly /\ CleanAlone
  BY WorkStages, WorkControl, WorkBefore, WorkWorld, WorkView DEF Control
<1>2. TypeOK'
  BY WorkKeepsControl DEF Control
<1>3. /\ UNCHANGED <<selectedModemID, selectedMBIM, selectedNet, bound>>
      /\ Selecting' = Selecting
  BY <1>1 DEF WorldStep, selection, Selecting, Selects, ControlStep, GoesOn, Ended,
     Working, MBIMStages, RNDISStages
<1>4. /\ ~clean[r] => excused \subseteq excused'
      /\ excused \ {dev[r]} \subseteq excused'
      /\ dev[r] \in Modems /\ excused' \subseteq Modems
  BY <1>1, <1>2 DEF ControlStep, GoesOn, Ended, TypeOK, Devices
<1>5. OnSelected'
  <2> SUFFICES ASSUME NEW q \in Requests, Working(q)'
               PROVE  \/ /\ dev'[q] = selectedModemID
                         /\ pc'[q] \in RNDISStages => selectedNet = selectedModemID
                      \/ ~clean'[q] /\ (excused' = Modems \/ Selecting)
    BY <1>3 DEF OnSelected
  <2>1. CASE q = r
    BY <1>1, <1>4, <2>1 DEF Others, OnSelected, ControlStep, GoesOn, Ended, Working,
       MBIMStages, RNDISStages
  <2>2. CASE q # r
    <3>1. Working(q) /\ pc'[q] = pc[q]
      BY <1>1, <2>2 DEF ControlStep, Working
    <3>2. ~clean[r]
      BY <1>1, <2>2, <3>1 DEF CleanAlone, Working, MBIMStages, RNDISStages
    <3>3. dev'[q] = dev[q] /\ clean'[q] = clean[q]
      BY <1>1, <2>2 DEF ControlStep, GoesOn, Ended, TypeOK
    <3> QED BY <1>4, <3>1, <3>2, <3>3 DEF Others, OnSelected
  <2> QED BY <2>1, <2>2
<1>6. CASE Selecting
  BY <1>3, <1>5, <1>6 DEF Others, OthersDown, BoundKnown, ViewKnown, BeforeKnown
<1>7. CASE ~Selecting
  <2>1. \/ dev[r] = selectedModemID /\ (pc[r] \in RNDISStages => selectedNet = selectedModemID)
        \/ excused = Modems /\ excused' = Modems
    BY <1>1, <1>4, <1>7 DEF Others, OnSelected
  <2>2. Known \subseteq Known' /\ dev[r] \in Known' /\ NoModem \in Known'
    BY <1>3, <1>4, <2>1 DEF Known
  <2>3. Published.session = "connected" => Published.iface \in Known
    BY <1>1, <1>7, InfoFields DEF Others, OthersDown, Known, PublishedConnected, Published, TypeOK
  <2>4. BoundKnown'
    BY <1>3, <1>7, <2>2 DEF Others, BoundKnown
  <2>5. ViewKnown'
    BY <1>1, <1>3, <1>7, <2>1, <2>2, InfoOf, ModemsAssumption
       DEF Others, ViewKnown, ViewStep, Known, TypeOK
  <2>6. BeforeKnown'
    BY <1>1, <1>3, <1>7, <2>2, <2>3, NoInfoType DEF Others, BeforeKnown, BeforeStep
  <2>7. Published'.session = "connected" => Published'.iface \in Known'
    <3>1. CASE ~hasWAN'
      BY <1>3, <1>7, <2>5, <3>1 DEF Published, ViewKnown
    <3>2. CASE hasWAN' /\ wanOverride' = wanOverride /\ hasWAN' = hasWAN
      BY <2>2, <2>3, <3>2 DEF Published
    <3>3. CASE hasWAN' /\ wanOverride'.iface \in {dev[r], NoModem}
      BY <2>2, <3>3 DEF Published
    <3>4. CASE hasWAN' /\ wanOverride' = before[r]
      BY <1>7, <2>2, <3>4 DEF Published, Others, BeforeKnown
    <3> QED BY <1>1, <3>1, <3>2, <3>3, <3>4 DEF ViewStep
  <2>8. OthersDown'
    <3> SUFFICES ASSUME NEW m \in Modems, m \notin excused', m # selectedModemID
                 PROVE  ~Up(m)' /\ ~PublishedConnected(m)'
      BY <1>3 DEF OthersDown
    <3>1. dev[r] = selectedModemID /\ m \notin excused /\ m # bound
      BY <1>4, <1>7, <2>1, ModemsAssumption DEF Others, BoundKnown, Known
    <3>2. ~Up(m)
      BY <1>7, <3>1 DEF Others, OthersDown
    <3>3. ~Up(m)'
      BY <1>1, <3>1, <3>2 DEF WorldStep, Up
    <3>4. m \notin Known'
      BY <1>3, ModemsAssumption DEF Known
    <3> QED BY <2>7, <3>3, <3>4 DEF PublishedConnected
  <2> QED BY <1>5, <2>4, <2>5, <2>6, <2>8 DEF Others
<1> QED BY <1>6, <1>7

-----------------------------------------------------------------------------
(***************************************************************************)
(* What is known of the selected modem.  At rest, unless it is excused, it *)
(* is shown as connected exactly when it is, by the protocol it has; while *)
(* a request that is alone works on it, what its stage has established.    *)
(***************************************************************************)
Consistent(m) ==
    /\ PublishedConnected(m) => bearer[m] /\ host[m] = "configured"
    /\ Up(m) => PublishedConnected(m)

AutoFinds(m) ==
    PublishedConnected(m) => (DisconnectMode("auto", Unnamed) = "mbim" <=> m \in Mbim)

OwnView(m) ==
    ~hasWAN /\ status.session = "connected" => status.iface = m /\ selectedNet = m

Settled(m) == Consistent(m) /\ AutoFinds(m) /\ OwnView(m)

SelectedSettled ==
    (/\ ~Selecting
     /\ \A r \in Requests : ~Working(r)
     /\ selectedModemID \notin excused)
    => Settled(selectedModemID)

ReadConnected(r) == before[r].session = "connected" /\ before[r].iface = dev[r]

BegunStages == {"mbimConnect", "activate", "resolveRNDIS", "mbimDown", "rndisDown"}

ConnectPhase(r) ==
    /\ pc[r] \in {"query", "configure"} => bearer[dev[r]]
    /\ pc[r] \in {"query", "configure", "rollback"} /\ dev[r] \notin excused
          => OwnView(dev[r])
    /\ pc[r] = "publish" => bearer[dev[r]] /\ host[dev[r]] = "configured"
    /\ pc[r] \in {"static", "dhcp"} => (bound = dev[r] => bearer[dev[r]])
    /\ pc[r] \in {"connected", "clearConnected"} =>
          /\ dev[r] \notin Mbim
          /\ host[dev[r]] = "configured"
          /\ bound = dev[r] => bearer[dev[r]]
    /\ pc[r] = "clearConnected" => status = [iface |-> dev[r], session |-> "connected"]

DisconnectPhase(r) ==
    /\ pc[r] \in {"clearHost", "publishDown"} => ~bearer[dev[r]]
    /\ pc[r] = "rndisDown" /\ dev[r] \notin excused
          => (ReadConnected(r) <=> PublishedConnected(dev[r]))
    /\ pc[r] \in {"clearDown", "deactivate"} => status.session = "down"
    /\ pc[r] = "deactivate" => ~hasWAN
    /\ pc[r] \in {"markFailed", "restore"} /\ dev[r] \notin excused =>
          /\ dev[r] \notin Mbim
          /\ ReadConnected(r) => bearer[dev[r]] /\ host[dev[r]] = "configured"
          /\ Up(dev[r]) => ReadConnected(r)

SelectPhase(r) ==
    /\ Selects(r) => dev[r] = selectedModemID
    /\ pc[r] = "clearSelected" => bound = dev[r]

Phase(r) ==
    /\ pc[r] \in BegunStages /\ dev[r] \notin excused => Settled(dev[r])
    /\ ConnectPhase(r)
    /\ DisconnectPhase(r)
    /\ SelectPhase(r)

Phases == \A r \in Requests : clean[r] => Phase(r)

IInv == Control /\ Others /\ SelectedSettled /\ Phases

-----------------------------------------------------------------------------
(***************************************************************************)
(* What a stage asks of the state a step reaches it in.                    *)
(***************************************************************************)
LEMMA ReachConnect ==
  ASSUME NEW r \in Requests, NEW m, dev'[r] = m,
         pc'[r] \in {"query", "configure", "rollback", "publish", "static", "dhcp",
                     "connected", "clearConnected"},
         pc'[r] \in {"query", "configure", "publish"} => bearer'[m],
         pc'[r] \in {"query", "configure", "rollback"} /\ m \notin excused' => OwnView(m)',
         pc'[r] \in {"publish", "connected", "clearConnected"} => host'[m] = "configured",
         pc'[r] \in {"static", "dhcp", "connected", "clearConnected"} =>
            (bound' = m => bearer'[m]),
         pc'[r] \in {"connected", "clearConnected"} => m \notin Mbim,
         pc'[r] = "clearConnected" => status' = [iface |-> m, session |-> "connected"]
  PROVE  Phase(r)'
<1>1. ConnectPhase(r)'
  BY DEF ConnectPhase
<1>2. DisconnectPhase(r)'
  BY DEF DisconnectPhase
<1> QED BY <1>1, <1>2 DEF Phase, SelectPhase, Selects, BegunStages

LEMMA ReachDisconnect ==
  ASSUME NEW r \in Requests, NEW m, dev'[r] = m,
         pc'[r] \in {"clearHost", "publishDown", "mark", "clearDown", "deactivate",
                     "markFailed", "restore"},
         pc'[r] \in {"clearHost", "publishDown"} => ~bearer'[m],
         pc'[r] \in {"clearDown", "deactivate"} => status'.session = "down",
         pc'[r] = "deactivate" => ~hasWAN',
         pc'[r] \in {"markFailed", "restore"} /\ m \notin excused' =>
            /\ m \notin Mbim
            /\ ReadConnected(r)' => bearer'[m] /\ host'[m] = "configured"
            /\ Up(m)' => ReadConnected(r)'
  PROVE  Phase(r)'
<1>1. ConnectPhase(r)'
  BY DEF ConnectPhase
<1>2. DisconnectPhase(r)'
  BY DEF DisconnectPhase
<1> QED BY <1>1, <1>2 DEF Phase, SelectPhase, Selects, BegunStages

LEMMA ReachBegun ==
  ASSUME NEW r \in Requests, NEW m, dev'[r] = m, pc'[r] \in BegunStages,
         m \notin excused' => Settled(m)',
         pc'[r] = "rndisDown" /\ m \notin excused' =>
            (ReadConnected(r)' <=> PublishedConnected(m)')
  PROVE  Phase(r)'
<1>1. ConnectPhase(r)'
  BY DEF ConnectPhase, BegunStages
<1>2. DisconnectPhase(r)'
  BY DEF DisconnectPhase, BegunStages
<1> QED BY <1>1, <1>2 DEF Phase, SelectPhase, Selects, BegunStages

LEMMA SameView ==
  ASSUME NEW m, UNCHANGED <<selection, status, overrides>>
  PROVE  /\ PublishedConnected(m)' <=> PublishedConnected(m)
         /\ AutoFinds(m)' <=> AutoFinds(m)
         /\ OwnView(m)' <=> OwnView(m)
  BY DEF PublishedConnected, Published, AutoFinds, DisconnectMode, OwnView, selection, overrides

LEMMA SameSettled ==
  ASSUME NEW m, UNCHANGED <<selection, status, overrides>>,
         bearer'[m] = bearer[m], host'[m] = host[m]
  PROVE  Settled(m)' <=> Settled(m)
  BY SameView DEF Settled, Consistent, Up

LEMMA GotoStage ==
  ASSUME TypeOK, NEW r \in Requests, NEW stage, Goto(r, stage)
  PROVE  pc'[r] = stage /\ UNCHANGED <<dev, before, clean, excused>>
  BY DEF TypeOK, Goto

LEMMA ReturnVerdict ==
  ASSUME TypeOK, NEW r \in Requests, NEW verdict, Return(r, verdict), clean[r],
         dev[r] \in Modems
  PROVE  /\ pc'[r] = "idle"
         /\ verdict = "failed" => dev[r] \in excused'
         /\ verdict = "harmless" => excused' = excused
  BY DEF TypeOK, Return

-----------------------------------------------------------------------------
\* Where a step of a request that runs alone leaves its modem m.
Leaves(r, m) ==
    IF pc'[r] = "idle" THEN m \in excused' \/ Settled(m)' ELSE Phase(r)'

LEMMA MBIMConnectSettles ==
  ASSUME Control, NEW r \in Requests, clean[r], Phase(r), NEW m \in Modems, m = dev[r],
         \/ MBIMUp(r) \/ QueryIPConfig(r) \/ ConfigureStatic(r) \/ Rollback(r)
         \/ PublishMBIM(r)
  PROVE  Leaves(r, m)
<1>0. TypeOK /\ Devices /\ dev[r] = m
  BY DEF Control
<1> USE DEF Leaves
<1>1. CASE MBIMUp(r)
  <2>0. m \notin excused => Settled(m)
    BY <1>1 DEF MBIMUp, Phase, BegunStages
  <2>1. PICK o \in Outcomes(bearer[m], TRUE) :
           /\ bearer' = [bearer EXCEPT ![m] = o.now]
           /\ IF o.ok THEN Goto(r, "query")
              ELSE Return(r, IF o.now = bearer[m] THEN "harmless" ELSE "failed")
    BY <1>1 DEF MBIMUp, Connect
  <2>2. /\ o.ok \in BOOLEAN /\ o.now \in BOOLEAN /\ (o.ok => o.now = TRUE)
        /\ bearer'[m] = o.now
        /\ UNCHANGED <<selection, bound, host, status, overrides>>
    BY <1>0, <1>1, <2>1, BearerOutcome DEF MBIMUp, TypeOK
  <2>3. CASE o.ok
    <3>1. pc'[r] = "query" /\ UNCHANGED <<dev, excused>>
      BY <1>0, <2>1, <2>3, GotoStage
    <3> QED BY <2>0, <2>2, <2>3, <3>1, SameView, ReachConnect DEF Settled
  <2>4. CASE ~o.ok /\ o.now = bearer[m]
    BY <1>0, <2>0, <2>1, <2>2, <2>4, ReturnVerdict, SameSettled
  <2>5. CASE ~o.ok /\ o.now # bearer[m]
    BY <1>0, <2>1, <2>5, ReturnVerdict
  <2> QED BY <2>2, <2>3, <2>4, <2>5
<1>2. CASE QueryIPConfig(r)
  <2>1. /\ (pc'[r] = "configure" /\ bearer'[m]) \/ pc'[r] = "rollback"
        /\ UNCHANGED <<dev, excused, selection, bound, world, status, overrides>>
    BY <1>0, <1>2, GotoStage DEF QueryIPConfig, world
  <2>2. m \notin excused => OwnView(m)
    BY <1>2 DEF QueryIPConfig, Phase, ConnectPhase
  <2> QED BY <2>1, <2>2, SameView, ReachConnect
<1>3. CASE ConfigureStatic(r)
  <2>0. bearer[m] /\ (m \notin excused => OwnView(m))
    BY <1>3 DEF ConfigureStatic, Phase, ConnectPhase
  <2>1. PICK o \in HostStatic(m) :
           /\ host' = [host EXCEPT ![m] = o.now]
           /\ Goto(r, IF o.ok THEN "publish" ELSE "rollback")
    BY <1>3 DEF ConfigureStatic
  <2>2. o.ok \in BOOLEAN /\ (o.ok => o.now = "configured")
    BY <1>0, <2>1, StaticOutcome
  <2>3. /\ pc'[r] = IF o.ok THEN "publish" ELSE "rollback"
        /\ UNCHANGED <<dev, excused, selection, bound, bearer, status, overrides>>
        /\ host'[m] = o.now
    BY <1>0, <1>3, <2>1, GotoStage DEF ConfigureStatic, TypeOK
  <2> QED BY <2>0, <2>2, <2>3, SameView, ReachConnect
<1>4. CASE Rollback(r)
  <2>0. m \notin excused => OwnView(m)
    BY <1>4 DEF Rollback, Phase, ConnectPhase
  <2>1. PICK o \in Outcomes(bearer[m], FALSE) :
           /\ bearer' = [bearer EXCEPT ![m] = o.now]
           /\ Return(r, IF o.now \/ host[m] # "bare" \/ PublishedConnected(m)
                        THEN "failed" ELSE "harmless")
    BY <1>4 DEF Rollback, Disconnect
  <2>2. /\ o.now \in BOOLEAN /\ bearer'[m] = o.now
        /\ UNCHANGED <<selection, bound, host, status, overrides>>
    BY <1>0, <1>4, <2>1, BearerOutcome DEF Rollback, TypeOK
  <2>3. CASE o.now \/ host[m] # "bare" \/ PublishedConnected(m)
    BY <1>0, <2>1, <2>3, ReturnVerdict
  <2>4. CASE ~(o.now \/ host[m] # "bare" \/ PublishedConnected(m))
    <3>1. pc'[r] = "idle" /\ excused' = excused
      BY <1>0, <2>1, <2>4, ReturnVerdict
    <3>2. ~Up(m)' /\ ~PublishedConnected(m)' /\ (OwnView(m)' <=> OwnView(m))
      BY <2>2, <2>4, SameView DEF Up
    <3> QED BY <2>0, <3>1, <3>2 DEF Settled, Consistent, AutoFinds
  <2> QED BY <2>3, <2>4
<1>5. CASE PublishMBIM(r)
  <2>1. /\ bearer[m] /\ host[m] = "configured" /\ m \in Mbim
        /\ pc'[r] = "idle"
        /\ wanOverride' = [iface |-> m, session |-> "connected"] /\ hasWAN' = TRUE /\ hasPDP' = TRUE
        /\ UNCHANGED world
    BY <1>0, <1>5, ReturnVerdict
       DEF PublishMBIM, SetOverrides, Phase, ConnectPhase, Devices, MBIMStages
  <2>2. Published' = [iface |-> m, session |-> "connected"]
    BY <2>1 DEF Published
  <2>3. PublishedConnected(m)' /\ Consistent(m)'
    BY <2>1, <2>2, InfoOf DEF PublishedConnected, Consistent, world
  <2>4. AutoFinds(m)'
    BY <2>1, InfoOf, ModemsAssumption DEF AutoFinds, DisconnectMode
  <2> QED BY <2>1, <2>3, <2>4 DEF Settled, OwnView
<1> QED BY <1>1, <1>2, <1>3, <1>4, <1>5

LEMMA RNDISConnectSettles ==
  ASSUME Control, NEW r \in Requests, clean[r], Phase(r), NEW m \in Modems, m = dev[r],
         selectedNet = m,
         \/ ActivatePDP(r) \/ StaticRNDIS(r) \/ DHCPRNDIS(r)
         \/ MarkConnected(r) \/ ClearConnected(r)
  PROVE  Leaves(r, m)
<1>0. TypeOK /\ Devices /\ dev[r] = m
  BY DEF Control
<1> USE DEF Leaves
<1>1. CASE ActivatePDP(r)
  <2>0. (m \notin excused => Settled(m)) /\ bound \in Modems
    BY <1>0, <1>1 DEF ActivatePDP, Phase, BegunStages, TypeOK
  <2>1. PICK o \in Outcomes(bearer[bound], TRUE) :
           /\ bearer' = [bearer EXCEPT ![bound] = o.now]
           /\ \/ o.ok /\ (\E next \in {"static", "dhcp"} : Goto(r, next))
              \/ /\ ~o.ok
                 /\ Return(r, IF o.now = bearer[bound] THEN "harmless" ELSE "failed")
    BY <1>1 DEF ActivatePDP
  <2>2. /\ o.ok \in BOOLEAN /\ o.now \in BOOLEAN /\ (o.ok => o.now = TRUE)
        /\ bearer'[bound] = o.now /\ \A n \in Modems \ {bound} : bearer'[n] = bearer[n]
        /\ UNCHANGED <<selection, bound, host, status, overrides>>
    BY <1>0, <1>1, <2>0, <2>1, BearerOutcome DEF ActivatePDP, TypeOK
  <2>3. CASE o.ok
    <3>1. pc'[r] \in {"static", "dhcp"} /\ UNCHANGED <<dev, excused>>
      BY <1>0, <2>1, <2>3, GotoStage
    <3> QED BY <2>2, <2>3, <3>1, ReachConnect
  <2>4. CASE ~o.ok /\ o.now = bearer[bound]
    <3>1. bearer'[m] = bearer[m]
      BY <2>2, <2>4
    <3> QED BY <1>0, <2>0, <2>1, <2>2, <2>4, <3>1, ReturnVerdict, SameSettled
  <2>5. CASE ~o.ok /\ o.now # bearer[bound]
    BY <1>0, <2>1, <2>5, ReturnVerdict
  <2> QED BY <2>2, <2>3, <2>4, <2>5
<1>2. CASE StaticRNDIS(r)
  <2>0. bound = m => bearer[m]
    BY <1>2 DEF StaticRNDIS, Phase, ConnectPhase
  <2>1. PICK o \in Refused(m) \cup (IF RNDISIface(m) THEN HostStatic(m) ELSE {}) :
           /\ host' = [host EXCEPT ![m] = o.now]
           /\ IF o.ok THEN Goto(r, "connected")
              ELSE Return(r, "failed") \/ Goto(r, "dhcp")
    BY <1>2 DEF StaticRNDIS
  <2>2. /\ o.ok \in BOOLEAN /\ (o.ok => o.now = "configured") /\ (o.ok => m \notin Mbim)
    <3>1. CASE RNDISIface(m)
      <4>1. o \in HostStatic(m) \/ o \in Refused(m)
        BY <2>1, <3>1
      <4> QED BY <1>0, <3>1, <4>1, StaticOutcome, EndRefused DEF RNDISIface
    <3>2. CASE ~RNDISIface(m)
      BY <2>1, <3>2, EndRefused
    <3> QED BY <3>1, <3>2
  <2>3. /\ UNCHANGED <<bound, bearer>> /\ host'[m] = o.now
    BY <1>0, <1>2, <2>1 DEF StaticRNDIS, TypeOK
  <2>4. CASE o.ok
    <3>1. pc'[r] = "connected" /\ UNCHANGED <<dev, excused>>
      BY <1>0, <2>1, <2>4, GotoStage
    <3> QED BY <2>0, <2>2, <2>3, <2>4, <3>1, ReachConnect
  <2>5. CASE Return(r, "failed")
    BY <1>0, <2>5, ReturnVerdict
  <2>6. CASE Goto(r, "dhcp")
    <3>1. pc'[r] = "dhcp" /\ UNCHANGED <<dev, excused>>
      BY <1>0, <2>6, GotoStage
    <3> QED BY <2>0, <2>3, <3>1, ReachConnect
  <2> QED BY <2>1, <2>4, <2>5, <2>6
<1>3. CASE DHCPRNDIS(r)
  <2>0. bound = m => bearer[m]
    BY <1>3 DEF DHCPRNDIS, Phase, ConnectPhase
  <2>1. PICK o \in IF RNDISIface(m) THEN HostDHCP(m) ELSE Refused(m) :
           /\ host' = [host EXCEPT ![m] = o.now]
           /\ IF o.ok THEN Goto(r, "connected") ELSE Return(r, "failed")
    BY <1>3 DEF DHCPRNDIS
  <2>2. /\ o.ok \in BOOLEAN /\ (o.ok => o.now = "configured") /\ (o.ok => m \notin Mbim)
    <3>1. CASE RNDISIface(m)
      <4>1. o \in HostDHCP(m) \/ o \in Refused(m)
        BY <2>1, <3>1
      <4> QED BY <1>0, <3>1, <4>1, DHCPOutcome, EndRefused DEF RNDISIface
    <3>2. CASE ~RNDISIface(m)
      BY <2>1, <3>2, EndRefused
    <3> QED BY <3>1, <3>2
  <2>3. /\ UNCHANGED <<bound, bearer>> /\ host'[m] = o.now
    BY <1>0, <1>3, <2>1 DEF DHCPRNDIS, TypeOK
  <2>4. CASE o.ok
    <3>1. pc'[r] = "connected" /\ UNCHANGED <<dev, excused>>
      BY <1>0, <2>1, <2>4, GotoStage
    <3> QED BY <2>0, <2>2, <2>3, <2>4, <3>1, ReachConnect
  <2>5. CASE Return(r, "failed")
    BY <1>0, <2>5, ReturnVerdict
  <2> QED BY <2>1, <2>4, <2>5
<1>4. CASE MarkConnected(r)
  <2>1. /\ m \notin Mbim /\ host[m] = "configured" /\ (bound = m => bearer[m])
        /\ status' = [iface |-> m, session |-> "connected"]
        /\ pc'[r] = "clearConnected" /\ UNCHANGED <<dev, bound, bearer, host>>
    BY <1>0, <1>4, GotoStage DEF MarkConnected, Phase, ConnectPhase, world
  <2> QED BY <2>1, ReachConnect
<1>5. CASE ClearConnected(r)
  <2>1. /\ m \notin Mbim /\ host[m] = "configured" /\ (bound = m => bearer[m])
        /\ status = [iface |-> m, session |-> "connected"]
    BY <1>5 DEF ClearConnected, Phase, ConnectPhase
  <2>2. /\ Return(r, IF bound = m THEN "done" ELSE "failed")
        /\ hasWAN' = FALSE /\ hasPDP' = FALSE /\ UNCHANGED <<selection, world, status>>
    BY <1>0, <1>5 DEF ClearConnected, ClearOverrides
  <2>3. CASE bound # m
    BY <1>0, <2>2, <2>3, ReturnVerdict
  <2>4. CASE bound = m
    <3>1. Published' = [iface |-> m, session |-> "connected"]
      BY <2>1, <2>2 DEF Published
    <3>2. PublishedConnected(m)' /\ Consistent(m)'
      BY <2>1, <2>2, <2>4, <3>1, InfoOf DEF PublishedConnected, Consistent, world
    <3>3. AutoFinds(m)'
      BY <2>1, <2>2 DEF AutoFinds, DisconnectMode
    <3>4. OwnView(m)'
      BY <2>1, <2>2, InfoOf DEF OwnView, selection
    <3> QED BY <1>0, <2>2, <3>2, <3>3, <3>4, ReturnVerdict DEF Settled
  <2> QED BY <2>3, <2>4
<1> QED BY <1>1, <1>2, <1>3, <1>4, <1>5

LEMMA MBIMDisconnectSettles ==
  ASSUME Control, NEW r \in Requests, clean[r], Phase(r), NEW m \in Modems, m = dev[r],
         MBIMDown(r) \/ ClearHost(r) \/ PublishDown(r)
  PROVE  Leaves(r, m)
<1>0. TypeOK /\ Devices /\ dev[r] = m
  BY DEF Control
<1> USE DEF Leaves
<1>1. CASE MBIMDown(r)
  <2>0. m \notin excused => Settled(m)
    BY <1>1 DEF MBIMDown, Phase, BegunStages
  <2>1. PICK o \in Outcomes(bearer[m], FALSE) :
           /\ bearer' = [bearer EXCEPT ![m] = o.now]
           /\ IF o.ok THEN Goto(r, IF m \in WithNet THEN "clearHost" ELSE "publishDown")
              ELSE Return(r, IF o.now = bearer[m] THEN "harmless" ELSE "failed")
    BY <1>1 DEF MBIMDown, Disconnect
  <2>2. /\ o.ok \in BOOLEAN /\ o.now \in BOOLEAN /\ (o.ok => o.now = FALSE)
        /\ bearer'[m] = o.now
        /\ UNCHANGED <<selection, bound, host, status, overrides>>
    BY <1>0, <1>1, <2>1, BearerOutcome DEF MBIMDown, TypeOK
  <2>3. CASE o.ok
    <3>1. pc'[r] \in {"clearHost", "publishDown"} /\ UNCHANGED <<dev, excused>>
      BY <1>0, <2>1, <2>3, GotoStage
    <3> QED BY <2>2, <2>3, <3>1, ReachDisconnect
  <2>4. CASE ~o.ok /\ o.now = bearer[m]
    BY <1>0, <2>0, <2>1, <2>2, <2>4, ReturnVerdict, SameSettled
  <2>5. CASE ~o.ok /\ o.now # bearer[m]
    BY <1>0, <2>1, <2>5, ReturnVerdict
  <2> QED BY <2>2, <2>3, <2>4, <2>5
<1>2. CASE ClearHost(r)
  <2>1. ~bearer[m] /\ pc'[r] = "publishDown" /\ UNCHANGED <<dev, bearer>>
    BY <1>0, <1>2, GotoStage DEF ClearHost, Phase, DisconnectPhase
  <2> QED BY <2>1, ReachDisconnect
<1>3. CASE PublishDown(r)
  <2>1. /\ ~bearer[m] /\ UNCHANGED world /\ hasWAN' = TRUE
        /\ wanOverride' = [iface |-> IF m \in WithNet THEN m ELSE NoModem, session |-> "down"]
        /\ Return(r, IF host[m] = "bare" THEN "done" ELSE "failed")
    BY <1>0, <1>3 DEF PublishDown, Phase, DisconnectPhase, SetOverrides
  <2>2. Published'.session = "down"
    BY <2>1, InfoOf DEF Published
  <2>3. CASE host[m] = "bare"
    BY <1>0, <2>1, <2>2, <2>3, ReturnVerdict
       DEF Settled, Consistent, AutoFinds, OwnView, PublishedConnected, Up, world
  <2>4. CASE host[m] # "bare"
    BY <1>0, <2>1, <2>4, ReturnVerdict
  <2> QED BY <2>3, <2>4
<1> QED BY <1>1, <1>2, <1>3

LEMMA RNDISDisconnectSettles ==
  ASSUME Control, NEW r \in Requests, clean[r], Phase(r), NEW m \in Modems, m = dev[r],
         \/ ReadBefore(r) \/ RNDISDown(r) \/ MarkDisconnected(r) \/ Restore(r)
         \/ ClearDown(r) \/ DeactivatePDP(r)
  PROVE  Leaves(r, m)
<1>0. TypeOK /\ Devices /\ dev[r] = m
  BY DEF Control
<1> USE DEF Leaves
<1>1. CASE ReadBefore(r)
  <2>0. m \notin excused => Settled(m)
    BY <1>1 DEF ReadBefore, Phase, BegunStages
  <2>1. /\ pc'[r] = "rndisDown" /\ before'[r] = Published
        /\ UNCHANGED <<dev, excused, selection, bearer, host, status, overrides>>
    BY <1>0, <1>1 DEF ReadBefore, TypeOK, world
  <2>2. ReadConnected(r)' <=> PublishedConnected(m)'
    BY <2>1, SameView DEF ReadConnected, PublishedConnected
  <2> QED BY <2>0, <2>1, <2>2, SameSettled, ReachBegun DEF BegunStages
<1>2. CASE RNDISDown(r)
  <2>0. m \notin excused => Settled(m) /\ (ReadConnected(r) <=> PublishedConnected(m))
    BY <1>2 DEF RNDISDown, Phase, BegunStages, DisconnectPhase
  <2>1. PICK o \in IF RNDISIface(m) THEN HostDown(m) ELSE Refused(m) :
           /\ host' = [host EXCEPT ![m] = o.now]
           /\ pc' = [pc EXCEPT ![r] = IF o.ok THEN "mark" ELSE "markFailed"]
           /\ before' = [before EXCEPT ![r] = IF o.ok THEN NoInfo ELSE @]
           /\ excused' = IF ~o.ok /\ (o.now # host[m] \/ ~RNDISIface(m))
                         THEN excused \cup {m} ELSE excused
    BY <1>0, <1>2 DEF RNDISDown
  <2>2. o.ok \in BOOLEAN
    <3>1. o \in HostDown(m) \cup Refused(m)
      BY <2>1
    <3> QED BY <1>0, <3>1, DownOutcome
  <2>3. /\ UNCHANGED <<dev, bearer>> /\ host'[m] = o.now
        /\ pc'[r] = IF o.ok THEN "mark" ELSE "markFailed"
    BY <1>0, <1>2, <2>1 DEF RNDISDown, TypeOK
  <2>4. CASE o.ok
    BY <2>2, <2>3, <2>4, ReachDisconnect
  <2>5. CASE ~o.ok
    <3>1. before'[r] = before[r]
      BY <1>0, <2>1, <2>5 DEF TypeOK
    <3>2. m \notin excused' => m \notin excused /\ host'[m] = host[m] /\ m \notin Mbim
      BY <2>1, <2>3, <2>5 DEF RNDISIface
    <3>3. ReadConnected(r)' <=> ReadConnected(r)
      BY <2>3, <3>1 DEF ReadConnected
    <3> QED BY <2>0, <2>3, <2>5, <3>2, <3>3, ReachDisconnect DEF Settled, Consistent, Up
  <2> QED BY <2>2, <2>4, <2>5
<1>3. CASE MarkDisconnected(r)
  <2>1. /\ pc'[r] = IF pc[r] = "mark" THEN "clearDown" ELSE "restore"
        /\ UNCHANGED <<dev, before, excused, bearer, host>>
        /\ status'.session = "down"
    BY <1>0, <1>3, GotoStage, InfoExcept, InfoOf, InfoFields DEF MarkDisconnected, TypeOK, world
  <2>2. CASE pc[r] = "mark"
    BY <2>1, <2>2, ReachDisconnect
  <2>3. CASE pc[r] = "markFailed"
    <3>1. m \notin excused =>
             /\ m \notin Mbim
             /\ ReadConnected(r) => bearer[m] /\ host[m] = "configured"
             /\ Up(m) => ReadConnected(r)
      BY <2>3 DEF Phase, DisconnectPhase
    <3>2. (ReadConnected(r)' <=> ReadConnected(r)) /\ (Up(m)' <=> Up(m))
      BY <2>1 DEF ReadConnected, Up
    <3> QED BY <2>1, <2>3, <3>1, <3>2, ReachDisconnect
  <2> QED BY <1>3, <2>2, <2>3 DEF MarkDisconnected
<1>4. CASE Restore(r)
  <2>1. m \notin excused =>
           /\ m \notin Mbim
           /\ ReadConnected(r) => bearer[m] /\ host[m] = "configured"
           /\ Up(m) => ReadConnected(r)
    BY <1>4 DEF Restore, Phase, DisconnectPhase
  <2>2. /\ wanOverride' = before[r] /\ hasWAN' = TRUE /\ hasPDP' = FALSE
        /\ UNCHANGED <<bearer, host>>
        /\ pc'[r] = "idle" /\ excused' = excused
    BY <1>0, <1>4, ReturnVerdict DEF Restore, SetOverrides, world
  <2>3. PublishedConnected(m)' <=> ReadConnected(r)
    BY <2>2 DEF PublishedConnected, Published, ReadConnected
  <2>4. AutoFinds(m)' \/ m \in Mbim
    BY <2>2 DEF AutoFinds, DisconnectMode
  <2> QED BY <2>1, <2>2, <2>3, <2>4 DEF Settled, Consistent, OwnView, Up
<1>5. CASE ClearDown(r)
  <2>1. /\ status.session = "down"
        /\ hasWAN' = FALSE /\ pc'[r] = "deactivate" /\ UNCHANGED <<dev, bearer, host, status>>
    BY <1>0, <1>5, GotoStage DEF ClearDown, ClearOverrides, Phase, DisconnectPhase, world
  <2> QED BY <2>1, ReachDisconnect
<1>6. CASE DeactivatePDP(r)
  <2>0. status.session = "down" /\ ~hasWAN /\ bound \in Modems
    BY <1>0, <1>6 DEF DeactivatePDP, Phase, DisconnectPhase, TypeOK
  <2>1. PICK o \in Outcomes(bearer[bound], FALSE) :
           /\ bearer' = [bearer EXCEPT ![bound] = o.now]
           /\ Return(r, IF o.ok /\ bound = m /\ host[m] = "bare"
                        THEN "done" ELSE "failed")
    BY <1>0, <1>6 DEF DeactivatePDP
  <2>2. (o.ok => o.now = FALSE) /\ bearer'[bound] = o.now
        /\ UNCHANGED <<host, status, overrides>>
    BY <1>0, <1>6, <2>0, <2>1, BearerOutcome DEF DeactivatePDP, TypeOK
  <2>3. CASE o.ok /\ bound = m /\ host[m] = "bare"
    <3>1. ~Up(m)' /\ ~PublishedConnected(m)' /\ OwnView(m)'
      BY <2>0, <2>2, <2>3 DEF Up, PublishedConnected, Published, OwnView, overrides
    <3> QED BY <1>0, <2>1, <3>1, ReturnVerdict DEF Settled, Consistent, AutoFinds
  <2>4. CASE ~(o.ok /\ bound = m /\ host[m] = "bare")
    BY <1>0, <2>1, <2>4, ReturnVerdict
  <2> QED BY <2>3, <2>4
<1> QED BY <1>1, <1>2, <1>3, <1>4, <1>5, <1>6

-----------------------------------------------------------------------------
(***************************************************************************)
(* The step of a request that works, as a whole.                           *)
(***************************************************************************)
LEMMA WorkKeepsSettled ==
  ASSUME IInv, NEW r \in Requests, WorkStep(r)
  PROVE  SelectedSettled' /\ Phases'
<1>1. /\ Working(r) /\ ControlStep(r) /\ WorldStep(r)
      /\ TypeOK /\ Devices /\ CleanAlone /\ Control /\ Others /\ Phases /\ TypeOK'
  BY WorkStages, WorkControl, WorkWorld, WorkKeepsControl DEF IInv, Control
<1>2. /\ UNCHANGED <<selectedModemID, selectedMBIM, selectedNet, bound>>
      /\ Selecting' = Selecting
  BY <1>1 DEF WorldStep, selection, Selecting, Selects, ControlStep, GoesOn, Ended,
     Working, MBIMStages, RNDISStages
<1>3. ASSUME clean[r], NEW m \in Modems, m = dev[r]
      PROVE  m = selectedModemID /\ Leaves(r, m)
  <2>1. /\ m = selectedModemID /\ Phase(r)
        /\ pc[r] \in RNDISStages => selectedNet = m
    BY <1>1, <1>3 DEF Others, OnSelected, Phases
  <2>2. ActivatePDP(r) \/ StaticRNDIS(r) \/ DHCPRNDIS(r) \/ MarkConnected(r) \/ ClearConnected(r)
           => pc[r] \in RNDISStages
    BY DEF ActivatePDP, StaticRNDIS, DHCPRNDIS, MarkConnected, ClearConnected, RNDISStages
  <2>3. Leaves(r, m)
    BY <1>1, <1>3, <2>1, <2>2, MBIMConnectSettles, RNDISConnectSettles,
       MBIMDisconnectSettles, RNDISDisconnectSettles DEF WorkStep
  <2> QED BY <2>1, <2>3
<1>4. dev[r] \in Modems
  BY <1>1 DEF Devices
<1>5. Phases'
  <2> SUFFICES ASSUME NEW q \in Requests, clean'[q] PROVE Phase(q)'
    BY DEF Phases
  <2>1. clean[q] /\ q = r /\ pc'[r] # "idle"
    BY <1>1 DEF ControlStep, GoesOn, Ended, TypeOK, CleanAlone, Working, MBIMStages, RNDISStages
  <2> QED BY <1>3, <1>4, <2>1 DEF Leaves
<1>6. SelectedSettled'
  <2> SUFFICES ASSUME ~Selecting', \A q \in Requests : ~Working(q)',
                      NEW m \in Modems, m = selectedModemID, m \notin excused'
               PROVE  Settled(m)'
    BY <1>1, <1>2 DEF SelectedSettled, TypeOK
  <2>1. Ended(r)
    BY <1>1 DEF ControlStep, GoesOn, Working
  <2>2. CASE clean[r]
    BY <1>3, <1>4, <2>1, <2>2 DEF Leaves, Ended
  <2>3. CASE ~clean[r]
    BY <1>1, <1>2, <2>1, <2>3 DEF Ended, Others, OnSelected, TypeOK
  <2> QED BY <2>2, <2>3
<1> QED BY <1>5, <1>6

-----------------------------------------------------------------------------
(***************************************************************************)
(* The first steps of the requests, and the selection of another modem.    *)
(***************************************************************************)
LEMMA RestKeepsOthers ==
  ASSUME UNCHANGED Rest, Selecting' = Selecting,
         OthersDown, BoundKnown, ViewKnown, BeforeKnown
  PROVE  OthersDown' /\ BoundKnown' /\ ViewKnown' /\ BeforeKnown'
<1>1. Known' = Known
  BY DEF Rest, selection, Known
<1>2. OthersDown'
  BY DEF Rest, selection, world, overrides, OthersDown, Up, PublishedConnected, Published
<1>3. BoundKnown' /\ ViewKnown' /\ BeforeKnown'
  BY <1>1 DEF Rest, selection, BoundKnown, ViewKnown, BeforeKnown
<1> QED BY <1>2, <1>3

LEMMA StartAlone ==
  ASSUME TypeOK, NEW r \in Requests, NEW stage, NEW m, Start(r, stage, m)
  PROVE  /\ pc[r] = "idle" /\ pc'[r] = stage /\ dev'[r] = m
         /\ \A q \in Requests \ {r} : pc'[q] = pc[q] /\ dev'[q] = dev[q] /\ ~clean'[q]
         /\ \A q \in Requests : clean'[q] =>
                q = r /\ \A p \in Requests : p = r \/ pc[p] = "idle"
  BY DEF TypeOK, Start

\* A request that starts to work on the selected modem.
LEMMA StartSettles ==
  ASSUME IInv, NEW r \in Requests, NEW m \in Modems, m = selectedModemID,
         NEW stage \in {"mbimConnect", "activate", "resolveRNDIS"}, Start(r, stage, m),
         stage # "mbimConnect" => selectedNet = m,
         UNCHANGED Rest
  PROVE  Others' /\ SelectedSettled' /\ Phases'
<1>0. TypeOK /\ Others
  BY DEF IInv, Control
<1>1. /\ pc[r] = "idle" /\ pc'[r] = stage /\ dev'[r] = m
      /\ \A q \in Requests \ {r} : pc'[q] = pc[q] /\ dev'[q] = dev[q] /\ ~clean'[q]
      /\ \A q \in Requests : clean'[q] =>
             q = r /\ \A p \in Requests : p = r \/ pc[p] = "idle"
  BY <1>0, StartAlone
<1>2. Selecting' = Selecting
  BY <1>1 DEF Selecting, Selects
<1>3. UNCHANGED <<selectedModemID, selectedNet, excused>>
  BY DEF Rest, selection
<1>4. OnSelected'
  BY <1>0, <1>1, <1>2, <1>3 DEF Others, OnSelected, Working, RNDISStages
<1>5. Others'
  BY <1>0, <1>2, <1>4, RestKeepsOthers DEF Others
<1>6. SelectedSettled'
  BY <1>1 DEF SelectedSettled, Working, MBIMStages, RNDISStages
<1>7. Phases'
  <2> SUFFICES ASSUME clean'[r] PROVE Phase(r)'
    BY <1>1 DEF Phases
  <2>1. ~Selecting /\ \A q \in Requests : ~Working(q)
    BY <1>1 DEF Selecting, Selects, Working, MBIMStages, RNDISStages
  <2>2. m \notin excused => Settled(m)
    BY <2>1 DEF IInv, SelectedSettled
  <2>3. m \notin excused' => Settled(m)'
    BY <1>3, <2>2, SameSettled DEF Rest, world
  <2> QED BY <1>1, <2>3, ReachBegun DEF BegunStages
<1> QED BY <1>5, <1>6, <1>7

LEMMA ResolveSettles ==
  ASSUME IInv, NEW r \in Requests,
         (Start(r, "resolveMBIM", NoModem) /\ UNCHANGED Rest) \/ ResolveMBIM(r)
  PROVE  Others' /\ SelectedSettled' /\ Phases'
<1>0. TypeOK /\ Others /\ CleanAlone
  BY DEF IInv, Control
<1>1. UNCHANGED Rest
  BY DEF ResolveMBIM, Rest
<1>2. UNCHANGED <<selectedModemID, selectedNet, excused>>
  BY <1>1 DEF Rest, selection
<1>3. /\ pc[r] \in {"idle", "resolveMBIM"}
      /\ \A q \in Requests \ {r} : pc'[q] = pc[q] /\ dev'[q] = dev[q]
                                     /\ (clean'[q] => clean[q] /\ pc[r] = "resolveMBIM")
      /\ \/ pc'[r] = "resolveMBIM"
         \/ pc'[r] = "idle" /\ ~clean'[r]
         \/ pc'[r] = "mbimDown" /\ dev'[r] = selectedModemID /\ clean'[r] = clean[r]
  BY <1>0, StartAlone DEF ResolveMBIM, TypeOK
<1>4. Selecting' = Selecting
  BY <1>3 DEF Selecting, Selects
<1>5. OnSelected'
  BY <1>0, <1>2, <1>3, <1>4 DEF Others, OnSelected, Working, MBIMStages, RNDISStages
<1>6. Others'
  BY <1>0, <1>1, <1>4, <1>5, RestKeepsOthers DEF Others
<1>7. ASSUME NEW m \in Modems PROVE Settled(m)' <=> Settled(m)
  BY <1>1, SameSettled DEF Rest, world
<1>8. SelectedSettled'
  <2> SUFFICES ASSUME ~Selecting', \A q \in Requests : ~Working(q)',
                      NEW m \in Modems, m = selectedModemID, m \notin excused'
               PROVE  Settled(m)'
    BY <1>0, <1>2 DEF SelectedSettled, TypeOK
  <2>1. \A q \in Requests : ~Working(q)
    BY <1>3 DEF Working, MBIMStages, RNDISStages
  <2> QED BY <1>2, <1>4, <1>7, <2>1 DEF IInv, SelectedSettled
<1>9. Phases'
  <2> SUFFICES ASSUME NEW q \in Requests, clean'[q] PROVE Phase(q)'
    BY DEF Phases
  <2>1. CASE q # r
    BY <1>0, <1>3, <2>1 DEF CleanAlone
  <2>2. CASE q = r /\ pc'[r] = "resolveMBIM"
    BY <2>2 DEF Phase, ConnectPhase, DisconnectPhase, SelectPhase, Selects, BegunStages
  <2>3. CASE q = r /\ pc'[r] = "mbimDown"
    <3> SUFFICES ASSUME NEW m \in Modems, m = selectedModemID PROVE Phase(r)'
      BY <1>0, <2>3 DEF TypeOK
    <3>1. clean[r] /\ dev'[r] = m
      BY <1>3, <2>3
    <3>2. ~Selecting /\ \A p \in Requests : ~Working(p)
      BY <1>0, <1>3, <3>1 DEF CleanAlone, Selecting, Selects, Working, MBIMStages, RNDISStages
    <3>3. m \notin excused' => Settled(m)'
      BY <1>2, <1>7, <3>2 DEF IInv, SelectedSettled
    <3> QED BY <2>3, <3>1, <3>3, ReachBegun DEF BegunStages
  <2> QED BY <1>3, <2>1, <2>2, <2>3
<1> QED BY <1>6, <1>8, <1>9

\* The selection of modem m makes every request in progress one that overlaps.
LEMMA SelectSettles ==
  ASSUME IInv, NEW r \in Requests, SelectModem(r) \/ SelectBind(r)
  PROVE  Others' /\ SelectedSettled' /\ Phases'
<1>0. TypeOK /\ CleanAlone /\ Others /\ Phases
  BY DEF IInv, Control
<1>1. /\ pc'[r] \in {"bind", "clearSelected"}
      /\ \A q \in Requests \ {r} : pc'[q] = pc[q] /\ ~clean'[q]
      /\ dev'[r] = selectedModemID' \/ (SelectBind(r) /\ clean' = clean /\ dev' = dev)
      /\ pc'[r] = "clearSelected" => bound' = dev'[r] /\ UNCHANGED selection
      /\ SelectModem(r) => pc'[r] = "bind"
  BY <1>0, StartAlone DEF SelectModem, SelectBind, Goto, TypeOK, CleanAlone
<1>2. Selecting'
  BY <1>1 DEF Selecting, Selects
<1>3. OnSelected'
  BY <1>1, <1>2 DEF OnSelected, Working, MBIMStages, RNDISStages
<1>4. Others' /\ SelectedSettled'
  BY <1>2, <1>3 DEF Others, OthersDown, BoundKnown, ViewKnown, BeforeKnown, SelectedSettled
<1>5. ASSUME clean'[r] PROVE dev'[r] = selectedModemID'
  <2>1. CASE SelectBind(r) /\ clean' = clean /\ dev' = dev
    BY <1>0, <1>5, <2>1 DEF Phases, Phase, SelectPhase, Selects, SelectBind, selection
  <2> QED BY <1>1, <2>1
<1>6. Phases'
  BY <1>1, <1>5
     DEF Phases, Phase, ConnectPhase, DisconnectPhase, SelectPhase, Selects, BegunStages
<1> QED BY <1>4, <1>6

(***************************************************************************)
(* The end of a selection: either every modem is excused, or the selection *)
(* was undisturbed and leaves no modem up and nothing shown as connected.  *)
(***************************************************************************)
LEMMA ClearSelectedSettles ==
  ASSUME IInv, NEW r \in Requests, ClearSelected(r)
  PROVE  Others' /\ SelectedSettled' /\ Phases'
<1>0. TypeOK /\ CleanAlone /\ Others /\ Phases /\ BeforeOnly
  BY DEF IInv, Control
<1>1. /\ pc[r] = "clearSelected" /\ pc'[r] = "idle" /\ ~clean'[r] /\ hasWAN' = FALSE
      /\ \A q \in Requests \ {r} : pc'[q] = pc[q] /\ dev'[q] = dev[q] /\ clean'[q] = clean[q]
      /\ UNCHANGED <<before, selectedModemID, selectedNet, bound, bearer, host, status>>
  BY <1>0 DEF ClearSelected, ClearOverrides, TypeOK, selection, world
<1>2. \A q \in Requests : ~clean'[q]
  BY <1>0, <1>1 DEF CleanAlone
<1>3. Phases'
  BY <1>2 DEF Phases
<1>4. CASE excused' = Modems
  <2>1. OnSelected' /\ OthersDown' /\ SelectedSettled'
    BY <1>0, <1>1, <1>2, <1>4 DEF OnSelected, OthersDown, SelectedSettled, TypeOK
  <2>2. Modems \cup {NoModem} \subseteq Known'
    BY <1>4 DEF Known
  <2>3. BoundKnown' /\ ViewKnown' /\ BeforeKnown'
    BY <1>0, <1>1, <2>2, InfoFields, ModemsAssumption DEF BoundKnown, ViewKnown, BeforeKnown, TypeOK
  <2> QED BY <1>3, <2>1, <2>3 DEF Others
<1>5. CASE excused' # Modems
  <2>1. /\ clean[r] /\ status.session # "connected"
        /\ \A m \in Modems : ~Up(m)
    BY <1>5 DEF ClearSelected, Up
  <2>2. \A q \in Requests : pc'[q] = "idle" /\ before[q] = NoInfo
    BY <1>0, <1>1, <2>1 DEF CleanAlone, BeforeOnly, RestoreStages
  <2>3. \A m \in Modems : ~Up(m)' /\ ~PublishedConnected(m)'
    BY <1>1, <2>1 DEF Up, PublishedConnected, Published
  <2>4. bound = selectedModemID
    BY <1>0, <1>1, <2>1 DEF Phases, Phase, SelectPhase, Selects
  <2>5. OnSelected' /\ OthersDown'
    BY <2>2, <2>3 DEF OnSelected, OthersDown, Working, MBIMStages, RNDISStages
  <2>6. BoundKnown' /\ ViewKnown' /\ BeforeKnown'
    BY <1>1, <2>1, <2>2, <2>4, NoInfoType DEF BoundKnown, ViewKnown, BeforeKnown, Known
  <2>7. SelectedSettled'
    BY <1>0, <1>1, <2>1, <2>3
       DEF SelectedSettled, Settled, Consistent, AutoFinds, OwnView, TypeOK
  <2> QED BY <1>3, <2>5, <2>6, <2>7 DEF Others
<1> QED BY <1>4, <1>5

-----------------------------------------------------------------------------
\* The status poller and the network.
LEMMA RefreshSettles ==
  ASSUME IInv, RefreshWAN
  PROVE  Others' /\ SelectedSettled' /\ Phases'
<1>0. TypeOK /\ Devices /\ CleanAlone /\ Others /\ Phases
  BY DEF IInv, Control
<1>1. /\ UNCHANGED <<pc, dev, before, clean, excused, selection, selectedModemID, selectedNet,
                     bound, bearer, host, wanOverride, hasWAN, hasPDP>>
      /\ status' = [iface |-> selectedNet, session |-> status.session]
  BY <1>0, InfoExcept, ModemsAssumption DEF RefreshWAN, TypeOK, locals, selection, world, overrides
<1>2. status'.iface = selectedNet /\ status'.session = status.session
  BY <1>0, <1>1, InfoOf, InfoFields, ModemsAssumption DEF TypeOK
<1>3. Selecting' = Selecting /\ Known' = Known /\ \A q \in Requests : Working(q)' <=> Working(q)
  BY <1>1 DEF Selecting, Selects, Known, Working
<1>4. OnSelected' /\ BoundKnown' /\ ViewKnown' /\ BeforeKnown'
  BY <1>0, <1>1, <1>2, <1>3 DEF Others, OnSelected, BoundKnown, ViewKnown, BeforeKnown
<1>5. OthersDown'
  BY <1>0, <1>1, <1>2, <1>3, ModemsAssumption
     DEF Others, OthersDown, ViewKnown, Known, Up, PublishedConnected, Published
<1>6. ASSUME NEW m, OwnView(m)
      PROVE  /\ OwnView(m)'
             /\ PublishedConnected(m)' <=> PublishedConnected(m)
             /\ Settled(m) => Settled(m)'
  <2>1. OwnView(m)'
    BY <1>1, <1>2, <1>6 DEF OwnView
  <2>2. PublishedConnected(m)' <=> PublishedConnected(m)
    BY <1>1, <1>2, <1>6 DEF OwnView, PublishedConnected, Published
  <2>3. DisconnectMode("auto", Unnamed)' = DisconnectMode("auto", Unnamed)
    BY <1>1 DEF DisconnectMode
  <2> QED BY <1>1, <2>1, <2>2, <2>3 DEF Settled, Consistent, AutoFinds, Up
<1>7. SelectedSettled'
  <2> SUFFICES ASSUME ~Selecting', \A q \in Requests : ~Working(q)',
                      NEW m \in Modems, m = selectedModemID, m \notin excused'
               PROVE  Settled(m)'
    BY <1>0, <1>1 DEF SelectedSettled, TypeOK
  <2>1. Settled(m)
    BY <1>1, <1>3 DEF IInv, SelectedSettled
  <2> QED BY <1>6, <2>1 DEF Settled
<1>8. Phases'
  <2> SUFFICES ASSUME NEW q \in Requests, clean[q] PROVE Phase(q)'
    BY <1>1 DEF Phases
  <2>1. Phase(q)
    BY <1>0 DEF Phases
  <2>2. pc'[q] \in BegunStages /\ dev'[q] \notin excused' => Settled(dev[q])'
    BY <1>1, <1>6, <2>1 DEF Phase, Settled
  <2>3. pc[q] = "clearConnected" => status' = [iface |-> dev[q], session |-> "connected"]
    <3>1. CASE pc[q] = "clearConnected"
      <4>1. selectedNet = dev[q] /\ status = [iface |-> dev[q], session |-> "connected"]
        BY <1>0, <2>1, <3>1
           DEF Others, OnSelected, Working, RNDISStages, Phase, ConnectPhase
      <4>2. status.session = "connected"
        BY <1>0, <3>1, <4>1, InfoOf DEF Devices, Working, RNDISStages
      <4> QED BY <1>1, <4>1, <4>2
    <3> QED BY <3>1
  <2>4. /\ OwnView(dev[q]) => OwnView(dev[q])'
        /\ OwnView(dev[q]) => (PublishedConnected(dev[q])' <=> PublishedConnected(dev[q]))
        /\ ReadConnected(q)' <=> ReadConnected(q)
        /\ Up(dev[q])' <=> Up(dev[q])
    BY <1>1, <1>6 DEF ReadConnected, Up
  <2>5. ConnectPhase(q)'
    BY <1>1, <2>1, <2>3, <2>4 DEF Phase, ConnectPhase
  <2>6. pc[q] = "rndisDown" /\ dev[q] \notin excused => OwnView(dev[q])
    BY <2>1 DEF Phase, BegunStages, Settled
  <2>7. DisconnectPhase(q)'
    BY <1>1, <1>2, <2>1, <2>4, <2>6 DEF Phase, DisconnectPhase
  <2>8. SelectPhase(q)'
    BY <1>1, <2>1 DEF Phase, SelectPhase, Selects
  <2> QED BY <2>2, <2>5, <2>7, <2>8 DEF Phase
<1> QED BY <1>4, <1>5, <1>7, <1>8 DEF Others

LEMMA DropSettles ==
  ASSUME IInv, NEW d \in Modems, NetworkDrop(d)
  PROVE  Others' /\ SelectedSettled' /\ Phases'
<1>0. TypeOK /\ Others
  BY DEF IInv, Control
<1>1. /\ UNCHANGED <<pc, dev, before, selection, selectedModemID, selectedNet, bound, host,
                     status, overrides>>
      /\ \A q \in Requests : ~clean'[q]
      /\ excused' = excused \cup {d} /\ d \in Modems
      /\ bearer'[d] = FALSE /\ \A m \in Modems \ {d} : bearer'[m] = bearer[m]
  BY <1>0 DEF NetworkDrop, TypeOK, locals, selection
<1>2. Phases'
  BY <1>1 DEF Phases
<1>3. Selecting' = Selecting /\ Known \subseteq Known' /\ \A q \in Requests : Working(q)' <=> Working(q)
  BY <1>1 DEF Selecting, Selects, Known, Working
<1>4. OnSelected'
  BY <1>0, <1>1, <1>3 DEF Others, OnSelected, TypeOK
<1>5. BoundKnown' /\ ViewKnown' /\ BeforeKnown'
  BY <1>0, <1>1, <1>3 DEF Others, BoundKnown, ViewKnown, BeforeKnown
<1>6. OthersDown'
  BY <1>0, <1>1, <1>3, SameView DEF Others, OthersDown, Up
<1>7. SelectedSettled'
  BY <1>0, <1>1, <1>3, SameSettled DEF IInv, SelectedSettled, TypeOK
<1> QED BY <1>2, <1>4, <1>5, <1>6, <1>7 DEF Others

LEMMA StutterSettles ==
  ASSUME IInv, UNCHANGED vars
  PROVE  Others' /\ SelectedSettled' /\ Phases'
<1>0. TypeOK /\ Others
  BY DEF IInv, Control
<1>1. /\ UNCHANGED Rest
      /\ UNCHANGED <<pc, dev, clean, before, selection, selectedModemID, selectedNet, bound,
                     excused, bearer, host, status, overrides, wanOverride, hasWAN, hasPDP>>
  BY DEF vars, locals, selection, world, overrides, Rest
<1>2. Selecting' = Selecting /\ \A q \in Requests : Working(q)' <=> Working(q)
  BY <1>1 DEF Selecting, Selects, Working
<1>3. OnSelected'
  BY <1>0, <1>1, <1>2 DEF Others, OnSelected
<1>4. Others'
  BY <1>0, <1>1, <1>2, <1>3, RestKeepsOthers DEF Others
<1>5. \A m \in Modems \cup {NoModem} : Settled(m)' <=> Settled(m)
  BY <1>1, SameSettled
<1>6. SelectedSettled'
  BY <1>0, <1>1, <1>2, <1>5 DEF IInv, SelectedSettled, TypeOK
<1>7. Phases'
  <2> SUFFICES ASSUME NEW q \in Requests, clean[q] PROVE Phase(q)'
    BY <1>1 DEF Phases
  <2>1. Phase(q) /\ dev[q] \in Modems \cup {NoModem}
    BY <1>0 DEF IInv, Phases, TypeOK
  <2>2. /\ OwnView(dev[q])' <=> OwnView(dev[q])
        /\ PublishedConnected(dev[q])' <=> PublishedConnected(dev[q])
        /\ ReadConnected(q)' <=> ReadConnected(q)
        /\ Up(dev[q])' <=> Up(dev[q])
        /\ Settled(dev[q])' <=> Settled(dev[q])
    BY <1>1, <1>5, <2>1, SameView DEF ReadConnected, Up
  <2>3. ConnectPhase(q)'
    BY <1>1, <2>1, <2>2 DEF Phase, ConnectPhase
  <2>4. DisconnectPhase(q)'
    BY <1>1, <2>1, <2>2 DEF Phase, DisconnectPhase
  <2> QED BY <1>1, <2>1, <2>2, <2>3, <2>4 DEF Phase, SelectPhase, Selects
<1> QED BY <1>4, <1>6, <1>7

-----------------------------------------------------------------------------
(***************************************************************************)
(* The invariant holds at first, and every step keeps it.                  *)
(***************************************************************************)
LEMMA InitIInv == Init => IInv
<1> SUFFICES ASSUME Init PROVE IInv
  OBVIOUS
<1>1. Control
  BY ControlInit
<1>2. status = [iface |-> FirstNet, session |-> "down"] /\ FirstNet \in Modems \cup {NoModem}
  BY ModemsAssumption, InfoExcept, NoInfoType DEF Init
<1>3. status.session = "down" /\ Published = status
  BY <1>2, InfoOf DEF Init, Published
<1>4. \A m \in Modems : ~Up(m) /\ ~PublishedConnected(m)
  BY <1>3 DEF Init, Up, PublishedConnected
<1>5. \A r \in Requests : pc[r] = "idle" /\ ~clean[r] /\ before[r] = NoInfo
  BY DEF Init
<1>6. OnSelected /\ OthersDown
  BY <1>4, <1>5 DEF OnSelected, OthersDown, Working, MBIMStages, RNDISStages
<1>7. BoundKnown /\ ViewKnown /\ BeforeKnown
  BY <1>3, <1>5, NoInfoType DEF Init, BoundKnown, ViewKnown, BeforeKnown, Known
<1>8. SelectedSettled
  BY <1>3, <1>4 DEF Init, SelectedSettled, Settled, Consistent, AutoFinds, OwnView
<1> QED BY <1>1, <1>5, <1>6, <1>7, <1>8 DEF IInv, Others, Phases

LEMMA NextIInv == IInv /\ [Next]_vars => IInv'
<1> SUFFICES ASSUME IInv, [Next]_vars PROVE IInv'
  OBVIOUS
<1>0. TypeOK /\ Control /\ Others /\ Control'
  BY ControlNext DEF IInv, Control
<1> SUFFICES Others' /\ SelectedSettled' /\ Phases'
  BY <1>0 DEF IInv
<1>1. ASSUME NEW r \in Requests, WorkStep(r) PROVE Others' /\ SelectedSettled' /\ Phases'
  BY <1>0, <1>1, WorkKeepsOthers, WorkKeepsSettled
<1>2. ASSUME NEW r \in Requests, DataConnect(r) PROVE Others' /\ SelectedSettled' /\ Phases'
  <2>1. PICK m \in Modems : m = selectedModemID
    BY <1>0 DEF TypeOK
  <2>2. /\ UNCHANGED Rest
        /\ \/ Start(r, "mbimConnect", m)
           \/ selectedNet = m /\ Start(r, "activate", m)
    BY <1>2, <2>1 DEF DataConnect, RNDISResolves, Rest
  <2> QED BY <2>1, <2>2, StartSettles
<1>3. ASSUME NEW r \in Requests, DataDisconnect(r) PROVE Others' /\ SelectedSettled' /\ Phases'
  <2>1. PICK m \in Modems : m = selectedModemID
    BY <1>0 DEF TypeOK
  <2>2. /\ UNCHANGED Rest
        /\ \/ Start(r, "resolveMBIM", NoModem)
           \/ selectedNet = m /\ Start(r, "resolveRNDIS", m)
    BY <1>3, <2>1 DEF DataDisconnect, RNDISResolves, Rest
  <2> QED BY <2>1, <2>2, StartSettles, ResolveSettles
<1>4. ASSUME NEW r \in Requests, ResolveMBIM(r) PROVE Others' /\ SelectedSettled' /\ Phases'
  BY <1>4, ResolveSettles
<1>5. ASSUME NEW r \in Requests, SelectModem(r) \/ SelectBind(r)
      PROVE  Others' /\ SelectedSettled' /\ Phases'
  BY <1>5, SelectSettles
<1>6. ASSUME NEW r \in Requests, ClearSelected(r) PROVE Others' /\ SelectedSettled' /\ Phases'
  BY <1>6, ClearSelectedSettles
<1>7. CASE RefreshWAN
  BY <1>7, RefreshSettles
<1>8. ASSUME NEW d \in Modems, NetworkDrop(d) PROVE Others' /\ SelectedSettled' /\ Phases'
  BY <1>8, DropSettles
<1>9. CASE UNCHANGED vars
  BY <1>9, StutterSettles
<1> QED BY <1>1, <1>2, <1>3, <1>4, <1>5, <1>6, <1>7, <1>8, <1>9 DEF Next, Step, WorkStep

\* With no request in progress, what is not excused is down or is the settled selected modem.
LEMMA QuietSettled ==
  ASSUME IInv, Quiet, NEW m \in Modems \ excused
  PROVE  Consistent(m) /\ (m = selectedModemID => AutoFinds(m))
<1>1. ~Selecting /\ \A r \in Requests : ~Working(r)
  BY DEF Quiet, Selecting, Selects, Working, MBIMStages, RNDISStages
<1>2. CASE m = selectedModemID
  BY <1>1, <1>2 DEF IInv, SelectedSettled, Settled
<1>3. CASE m # selectedModemID
  BY <1>1, <1>3 DEF IInv, Others, OthersDown, Consistent
<1> QED BY <1>2, <1>3

(***************************************************************************)
(* For any number of overlapping requests and any modems: with no request  *)
(* in progress, a modem that is shown as connected has a session and its   *)
(* interface a complete configuration, unless it is excused.               *)
(***************************************************************************)
THEOREM ConnectedIsUpCorrect == Spec => []ConnectedIsUp
<1>1. Init => IInv
  BY InitIInv
<1>2. IInv /\ [Next]_vars => IInv'
  BY NextIInv
<1>3. IInv => ConnectedIsUp
  BY QuietSettled DEF ConnectedIsUp, Consistent
<1> QED BY <1>1, <1>2, <1>3, PTL DEF Spec

(***************************************************************************)
(* For any number of overlapping requests and any modems: with no request  *)
(* in progress, no session and no address is up that is not shown as       *)
(* connected, except on an excused modem.  In particular every way a       *)
(* connect can fail takes the MBIM bearer down again or excuses the modem. *)
(***************************************************************************)
THEOREM NothingLeftUpCorrect == Spec => []NothingLeftUp
<1>1. Init => IInv
  BY InitIInv
<1>2. IInv /\ [Next]_vars => IInv'
  BY NextIInv
<1>3. IInv => NothingLeftUp
  BY QuietSettled DEF NothingLeftUp, Consistent, Up
<1> QED BY <1>1, <1>2, <1>3, PTL DEF Spec

(***************************************************************************)
(* For any number of overlapping requests and any modems: the automatic    *)
(* disconnect takes the protocol of the selected modem whenever that modem *)
(* is shown as connected and is not excused.                               *)
(***************************************************************************)
THEOREM AutoDisconnectCorrect == Spec => []AutoDisconnectFindsSession
<1>1. Init => IInv
  BY InitIInv
<1>2. IInv /\ [Next]_vars => IInv'
  BY NextIInv
<1>3. IInv => AutoDisconnectFindsSession
  BY QuietSettled DEF IInv, Control, TypeOK, AutoDisconnectFindsSession, AutoFinds
<1> QED BY <1>1, <1>2, <1>3, PTL DEF Spec
=============================================================================

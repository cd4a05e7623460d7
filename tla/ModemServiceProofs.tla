------------------------- MODULE ModemServiceProofs -------------------------
(***************************************************************************)
(* Proofs about ModemService for every number of requests, ports and       *)
(* modems and every value of the policy's parameters.                      *)
(***************************************************************************)
EXTENDS ModemService, TLAPS

USE ProcsAssumption, PortsAssumption, PolicyAssumption

(***************************************************************************)
(* What an exchange comes back with is a result and a Boolean.             *)
(***************************************************************************)
LEMMA OutcomeType ==
    /\ \A o \in Outcomes(portName, portOpen) : o.result \in Results /\ o.open \in BOOLEAN
    /\ \A o \in SendRaw : o.result \in Results /\ o.open \in BOOLEAN
    /\ \A o \in EnsureConnected : o.result \in Results /\ o.open \in BOOLEAN
BY DEF Outcomes, SendRaw, EnsureConnected

LEMMA SaturateType ==
    ASSUME NEW bound \in Nat, NEW n \in 0..bound
    PROVE  Saturate(n, bound) \in 0..bound
BY DEF Saturate

(***************************************************************************)
(* What a reset, a change of port and the reset policy leave behind.       *)
(***************************************************************************)
LEMMA ClientType ==
    ASSUME TypeOK
    PROVE  /\ HardReset => portOpen' \in BOOLEAN
           /\ \A q \in Ports \cup {NoPort} :
                 SetPortName(q) => portName' \in Ports /\ portOpen' \in BOOLEAN
BY DEF TypeOK, HardReset, SetPortName, client

LEMMA MaybeHardResetType ==
    ASSUME TypeOK, NEW cause \in Results, NEW streak \in 0..FailStreakMax,
           NEW fails \in 0..FailStreakMax, MaybeHardReset(cause, streak, fails)
    PROVE  /\ sinceReset' \in 0..ResetCooldown
           /\ sinceHard' \in 0..ResetCooldown
           /\ atFailStreak' \in 0..FailStreakMax
           /\ failedPolls' \in 0..FailStreakMax
           /\ audit' \in [gap : 0..ResetCooldown, fails : 0..FailStreakMax,
                          cause : Results]
           /\ portOpen' \in BOOLEAN
<1>1. CASE ResetDue(cause, streak)
  BY <1>1, ClientType DEF MaybeHardReset, TypeOK
<1>2. CASE ~ResetDue(cause, streak)
  BY <1>2 DEF MaybeHardReset, TypeOK
<1>. QED
  BY <1>1, <1>2

(***************************************************************************)
(* Type correctness.                                                       *)
(***************************************************************************)
LEMMA InitType == Init => TypeOK
BY DEF Init, TypeOK, Stages, AllOps, Results

LEMMA NextType == TypeOK /\ [Next]_vars => TypeOK'
<1> SUFFICES ASSUME TypeOK, [Next]_vars PROVE TypeOK'
  OBVIOUS
<1> USE DEF TypeOK, locks, client, policy, locals, environment, history, Goto, Continue, Return,
            ReleaseAT, EndExchange, Procs
<1>1. ASSUME NEW p \in Procs, NEW o \in AllOps, Start(p, o) PROVE TypeOK'
  BY <1>1 DEF Start, FirstStage, Stages
<1>2. ASSUME NEW p \in Procs, Step(p) PROVE TypeOK'
  <2>1. CASE AcquireAT(p)
    BY <2>1 DEF AcquireAT, StageUnderAT, Stages
  <2>2. CASE BeginExchange(p)
    BY <2>2 DEF BeginExchange
  <2>3. CASE PollCheck(p)
    BY <2>3 DEF PollCheck, Stages
  <2>4. CASE PollLost(p)
    BY <2>4 DEF PollLost, Stages, AllOps, Results
  <2>5. CASE SampleFirst(p)
    <3>1. PICK o \in Outcomes(portName, portOpen) :
            /\ result' = [result EXCEPT ![p] = o.result]
            /\ portOpen' = o.open
            /\ Goto(p, IF o.result = "ok" THEN "rest" ELSE "fail")
      BY <2>5 DEF SampleFirst
    <3>2. o.result \in Results /\ o.open \in BOOLEAN
      BY OutcomeType
    <3>. QED
      BY <2>5, <3>1, <3>2 DEF SampleFirst, Stages
  <2>6. CASE SampleRest(p)
    BY <2>6, OutcomeType DEF SampleRest, Stages
  <2>7. CASE ApplyATSuccess(p)
    BY <2>7 DEF ApplyATSuccess, Stages, AllOps, Results
  <2>8. CASE HandleATFailure(p)
    <3>1. Saturate(atFailStreak, FailStreakMax) \in 0..FailStreakMax
      BY SaturateType
    <3>2. Saturate(failedPolls, FailStreakMax) \in 0..FailStreakMax
      BY SaturateType
    <3>3. CASE ~isPermissionError(result[p]) /\ RediscoverDue(result[p])
      BY <2>8, <3>1, <3>2, <3>3 DEF HandleATFailure, Stages
    <3>4. CASE ~(~isPermissionError(result[p]) /\ RediscoverDue(result[p]))
      <4>1. /\ MaybeHardReset(result[p], Saturate(atFailStreak, FailStreakMax),
                               Saturate(failedPolls, FailStreakMax))
            /\ ReleaseAT(p)
            /\ UNCHANGED sinceRediscover
        BY <2>8, <3>4 DEF HandleATFailure
      <4>. QED
        BY <2>8, <4>1, <3>1, <3>2, MaybeHardResetType
           DEF HandleATFailure, Stages, AllOps, Results
    <3>. QED
      BY <3>3, <3>4
  <2>9. CASE HandleRetryFailure(p)
    BY <2>9, MaybeHardResetType DEF HandleRetryFailure, Stages, AllOps, Results
  <2>10. CASE RediscoverClose(p)
    <3>1. pc' \in [Procs -> Stages]
      BY <2>10 DEF RediscoverClose, Stages
    <3>2. portOpen' \in BOOLEAN
      BY <2>10 DEF RediscoverClose
    <3>. QED
      BY <2>10, <3>1, <3>2 DEF RediscoverClose
  <2>11. CASE DiscoverAnswering(p) \/ DiscoverCached(p)
    BY <2>11 DEF DiscoverAnswering, DiscoverCached, Discover, Answering, Stages
  <2>12. CASE RediscoverBind(p)
    BY <2>12, ClientType DEF RediscoverBind, Stages
  <2>13. CASE Ping(p)
    <3>1. PICK o \in EnsureConnected :
            /\ portOpen' = o.open
            /\ IF o.result # "ok" /\ op[p] # "setMode"
               THEN ReleaseAT(p)
               ELSE /\ Continue(p, CASE o.result # "ok" -> "modeQuery"
                                     [] op[p] = "setMode" -> "modeCommand"
                                     [] OTHER -> "command")
                    /\ UNCHANGED atMu
      BY <2>13 DEF Ping
    <3>2. o.open \in BOOLEAN
      BY OutcomeType
    <3>3. CASE o.result # "ok" /\ op[p] # "setMode"
      <4>1. ReleaseAT(p)
        BY <3>1, <3>3 DEF Results
      <4>. QED
        BY <2>13, <4>1, <3>1, <3>2 DEF Ping, Stages, AllOps, Results
    <3>4. CASE o.result # "ok" /\ op[p] = "setMode"
      BY <2>13, <3>1, <3>2, <3>4 DEF Ping, Stages
    <3>5. CASE o.result = "ok"
      BY <2>13, <3>1, <3>2, <3>5 DEF Ping, Stages
    <3>. QED
      BY <3>3, <3>4, <3>5
  <2>14. CASE Command(p)
    BY <2>14, OutcomeType DEF Command, Stages, AllOps, Results
  <2>15. CASE ModeCommand(p)
    <3>1. portOpen' \in BOOLEAN
      BY <2>15, OutcomeType DEF ModeCommand
    <3>2. pc' \in [Procs -> Stages]
      BY <2>15 DEF ModeCommand, Stages
    <3>. QED
      BY <2>15, <3>1, <3>2 DEF ModeCommand
  <2>16. CASE ModeClear(p)
    BY <2>16 DEF ModeClear, Stages
  <2>17. CASE ModeQuery(p)
    BY <2>17, OutcomeType DEF ModeQuery, Stages, AllOps, Results
  <2>18. CASE USBResetCheck(p)
    <3>1. CASE attached
      BY <2>18, <3>1 DEF USBResetCheck, Stages
    <3>2. CASE ~attached
      <4>1. Return(p)
        BY <2>18, <3>2 DEF USBResetCheck
      <4>. QED
        BY <2>18, <4>1 DEF USBResetCheck, Stages, AllOps, Results
    <3>. QED
      BY <3>1, <3>2
  <2>19. CASE USBReset(p)
    BY <2>19, ClientType DEF USBReset, Stages, AllOps, Results
  <2>20. CASE ListLock(p) \/ SelectLock(p)
    BY <2>20 DEF ListLock, SelectLock, AcquireMu, Stages
  <2>21. CASE ListInventory(p)
    BY <2>21 DEF ListInventory, DefaultSelection, Stages, AllOps, Results
  <2>22. CASE SelectModem(p)
    BY <2>22 DEF SelectModem, Stages
  <2>23. CASE SelectBind(p)
    BY <2>23, ClientType DEF SelectBind, Stages
  <2>24. CASE CachedStatus(p)
    BY <2>24 DEF CachedStatus, Stages, AllOps, Results
  <2>. QED
    BY <1>2, <2>1, <2>2, <2>3, <2>4, <2>5, <2>6, <2>7, <2>8, <2>9, <2>10,
       <2>11, <2>12, <2>13, <2>14, <2>15, <2>16, <2>17, <2>18, <2>19, <2>20,
       <2>21, <2>22, <2>23, <2>24 DEF Step
<1>3. CASE Tick
  <2>1. /\ sinceReset' \in 0..ResetCooldown
        /\ sinceHard' \in 0..ResetCooldown
        /\ sinceRediscover' \in 0..RediscoverEvery
    BY <1>3, SaturateType DEF Tick
  <2>. QED
    BY <1>3, <2>1 DEF Tick
<1>4. CASE Environment
  <2>1. CASE BusChange
    BY <2>1 DEF BusChange
  <2>2. ASSUME NEW q \in Ports, NEW state \in PortStates, PortChange(q, state)
        PROVE  TypeOK'
    BY <2>2 DEF PortChange
  <2>. QED
    BY <1>4, <2>1, <2>2 DEF Environment
<1>5. CASE UNCHANGED vars
  BY <1>5 DEF vars
<1>. QED
  BY <1>1, <1>2, <1>3, <1>4, <1>5 DEF Next

(***************************************************************************)
(* The variables keep their types.                                         *)
(***************************************************************************)
THEOREM TypeCorrect == Spec => []TypeOK
BY InitType, NextType, PTL DEF Spec

-----------------------------------------------------------------------------
(***************************************************************************)
(* The inductive invariant behind the sharing properties: who is in AT     *)
(* work holds atMu, who builds an inventory holds mu, and who is in a      *)
(* serial exchange is at a stage that has one; a command sequence records  *)
(* its port with its first exchange and the port stays the client's.       *)
(***************************************************************************)
BeforeSequence == {"idle", "lock", "check", "lost", "usbCheck", "usbReset",
                   "selectMu", "selectInventory", "selectBind", "listMu",
                   "listInventory", "read"}

SequenceStages == {"rest", "apply", "fail", "command", "modeCommand"}

Sharing(p) ==
    /\ pc[p] \in ATStages <=> atMu = p
    /\ pc[p] \in MuStages <=> mu = p
    /\ clientMu = p => pc[p] \in IOStages /\ source[p] = portName
    /\ pc[p] \in BeforeSequence => source[p] = NoPort
    /\ pc[p] \in {"csq", "ping", "modeQuery"} => source[p] \in {NoPort, portName}
    /\ pc[p] \in SequenceStages => source[p] = portName
    /\ pc[p] = "discover" => ~portOpen

SharingInv == \A p \in Procs : Sharing(p)

LEMMA SharingInit == Init => SharingInv
BY DEF Init, SharingInv, Sharing, ATStages, MuStages, IOStages, BeforeSequence, SequenceStages

LEMMA SharingNext == TypeOK /\ SharingInv /\ [Next]_vars => SharingInv'
<1> SUFFICES ASSUME TypeOK, SharingInv, [Next]_vars, NEW q \in Procs PROVE Sharing(q)'
  BY DEF SharingInv
<1> USE DEF SharingInv, Sharing, locks, client, policy, locals, environment, history,
            Goto, Continue, Return, ReleaseAT, EndExchange, ATStages, MuStages,
            IOStages, BeforeSequence, SequenceStages
<1> pc \in [Procs -> Stages] /\ source \in [Procs -> Ports \cup {NoPort}]
  BY DEF TypeOK
<1>1. ASSUME NEW p \in Procs, NEW o \in AllOps, Start(p, o) PROVE Sharing(q)'
  BY <1>1 DEF Start, FirstStage
<1>2. ASSUME NEW p \in Procs, Step(p) PROVE Sharing(q)'
  <2>1. CASE AcquireAT(p)
    BY <2>1 DEF AcquireAT, StageUnderAT
  <2>2. CASE BeginExchange(p)
    BY <2>2 DEF BeginExchange
  <2>3. CASE PollCheck(p)
    BY <2>3 DEF PollCheck
  <2>4. CASE PollLost(p)
    BY <2>4 DEF PollLost
  <2>5. CASE SampleFirst(p)
    BY <2>5 DEF SampleFirst
  <2>6. CASE SampleRest(p)
    BY <2>6 DEF SampleRest
  <2>7. CASE ApplyATSuccess(p)
    BY <2>7 DEF ApplyATSuccess
  <2>8. CASE HandleATFailure(p)
    BY <2>8 DEF HandleATFailure, MaybeHardReset, HardReset
  <2>9. CASE HandleRetryFailure(p)
    BY <2>9 DEF HandleRetryFailure, MaybeHardReset, HardReset
  <2>10. CASE RediscoverClose(p)
    BY <2>10 DEF RediscoverClose
  <2>11. CASE DiscoverAnswering(p) \/ DiscoverCached(p)
    BY <2>11 DEF DiscoverAnswering, DiscoverCached, Discover
  <2>12. CASE RediscoverBind(p)
    BY <2>12 DEF RediscoverBind, SetPortName
  <2>13. CASE Ping(p)
    BY <2>13 DEF Ping
  <2>14. CASE Command(p)
    BY <2>14 DEF Command
  <2>15. CASE ModeCommand(p)
    BY <2>15 DEF ModeCommand
  <2>16. CASE ModeClear(p)
    BY <2>16 DEF ModeClear
  <2>17. CASE ModeQuery(p)
    BY <2>17 DEF ModeQuery
  <2>18. CASE USBResetCheck(p)
    BY <2>18 DEF USBResetCheck
  <2>19. CASE USBReset(p)
    BY <2>19 DEF USBReset, HardReset
  <2>20. CASE ListLock(p) \/ SelectLock(p)
    BY <2>20 DEF ListLock, SelectLock, AcquireMu
  <2>21. CASE ListInventory(p)
    BY <2>21 DEF ListInventory
  <2>22. CASE SelectModem(p)
    BY <2>22 DEF SelectModem
  <2>23. CASE SelectBind(p)
    BY <2>23 DEF SelectBind, SetPortName
  <2>24. CASE CachedStatus(p)
    BY <2>24 DEF CachedStatus
  <2>. QED
    BY <1>2, <2>1, <2>2, <2>3, <2>4, <2>5, <2>6, <2>7, <2>8, <2>9, <2>10,
       <2>11, <2>12, <2>13, <2>14, <2>15, <2>16, <2>17, <2>18, <2>19, <2>20,
       <2>21, <2>22, <2>23, <2>24 DEF Step
<1>3. CASE Tick
  BY <1>3 DEF Tick
<1>4. CASE Environment
  BY <1>4 DEF Environment, BusChange, PortChange
<1>5. CASE UNCHANGED vars
  BY <1>5 DEF vars
<1>. QED
  BY <1>1, <1>2, <1>3, <1>4, <1>5 DEF Next

LEMMA SharingCorrect == Spec => [](TypeOK /\ SharingInv)
BY InitType, NextType, SharingInit, SharingNext, PTL DEF Spec

(***************************************************************************)
(* At most one goroutine is inside AT work, and at most one inside the     *)
(* inventory's critical section.                                           *)
(***************************************************************************)
THEOREM SoleOwnerCorrect == Spec => []SoleOwner
<1>1. SharingInv => SoleOwner
  BY DEF SharingInv, Sharing, SoleOwner
<1>. QED
  BY <1>1, SharingCorrect, PTL

(***************************************************************************)
(* All commands of a sample or of a control request go to one port.        *)
(***************************************************************************)
THEOREM OnePortPerSequenceCorrect == Spec => []OnePortPerSequence
<1>1. SharingInv => OnePortPerSequence
  BY DEF SharingInv, Sharing, OnePortPerSequence, SequenceStages
<1>. QED
  BY <1>1, SharingCorrect, PTL

(***************************************************************************)
(* The manager's port is closed while DiscoverATPort probes the ports.     *)
(***************************************************************************)
THEOREM PortClosedWhileProbingCorrect == Spec => []PortClosedWhileProbing
<1>1. SharingInv => PortClosedWhileProbing
  BY DEF SharingInv, Sharing, PortClosedWhileProbing
<1>. QED
  BY <1>1, SharingCorrect, PTL

(***************************************************************************)
(* No goroutines wait for each other in a cycle.  In a set of goroutines   *)
(* the holder of clientMu waits for nobody, else the holder of mu waits    *)
(* for nobody in the set, else the holder of atMu, else anyone.            *)
(***************************************************************************)
THEOREM NoWaitCycleCorrect == Spec => []NoWaitCycle
<1>1. SharingInv => NoWaitCycle
  <2> SUFFICES ASSUME SharingInv, NEW S \in (SUBSET Procs) \ {{}}
               PROVE  \E p \in S : WaitsFor(p) \cap S = {}
    BY DEF NoWaitCycle
  <2> USE DEF SharingInv, Sharing, WaitsFor, ATStages, MuStages, IOStages
  <2>1. CASE clientMu \in S
    <3>1. WaitsFor(clientMu) = {}
      BY <2>1
    <3>. QED
      BY <2>1, <3>1
  <2>2. CASE clientMu \notin S /\ mu \in S
    <3>1. WaitsFor(mu) \subseteq {clientMu}
      BY <2>2
    <3>. QED
      BY <2>2, <3>1
  <2>3. CASE clientMu \notin S /\ mu \notin S /\ atMu \in S
    <3>1. WaitsFor(atMu) \subseteq {mu, clientMu}
      BY <2>3
    <3>. QED
      BY <2>3, <3>1
  <2>4. CASE {atMu, mu, clientMu} \cap S = {}
    <3>1. \A p \in S : WaitsFor(p) \subseteq {atMu, mu, clientMu}
      OBVIOUS
    <3>. QED
      BY <2>4, <3>1
  <2>. QED
    BY <2>1, <2>2, <2>3, <2>4
<1>. QED
  BY <1>1, SharingCorrect, PTL

-----------------------------------------------------------------------------
(***************************************************************************)
(* The reset policy.  The service's counters never run ahead of what has   *)
(* happened: its cooldown has not lasted longer than the time since the    *)
(* last reset, its streak is not longer than the row of failed polls.      *)
(***************************************************************************)
CountersBehind ==
    /\ sinceReset <= sinceHard
    /\ atFailStreak <= failedPolls

PolicyInv == CountersBehind /\ ResetPolicy

LEMMA PolicyInit == Init => PolicyInv
BY DEF Init, PolicyInv, CountersBehind, ResetPolicy

LEMMA MaybeHardResetPolicy ==
    ASSUME TypeOK, PolicyInv, NEW cause \in Results,
           NEW streak \in 0..FailStreakMax, NEW fails \in 0..FailStreakMax,
           streak <= fails, MaybeHardReset(cause, streak, fails)
    PROVE  PolicyInv'
<1>1. CASE ResetDue(cause, streak)
  <2>1. sinceHard = ResetCooldown /\ fails = FailStreakMax /\ cause # "perm"
    BY <1>1 DEF TypeOK, PolicyInv, CountersBehind, ResetDue, isPermissionError
  <2>2. /\ sinceReset' = 0 /\ sinceHard' = 0
        /\ atFailStreak' = 0 /\ failedPolls' = 0
        /\ audit' = [gap |-> sinceHard, fails |-> fails, cause |-> cause]
    BY <1>1 DEF MaybeHardReset
  <2>. QED
    BY <2>1, <2>2 DEF PolicyInv, CountersBehind, ResetPolicy
<1>2. CASE ~ResetDue(cause, streak)
  BY <1>2 DEF MaybeHardReset, PolicyInv, CountersBehind, ResetPolicy
<1>. QED
  BY <1>1, <1>2

LEMMA PolicyNext == TypeOK /\ PolicyInv /\ [Next]_vars => PolicyInv'
<1> SUFFICES ASSUME TypeOK, PolicyInv, [Next]_vars PROVE PolicyInv'
  OBVIOUS
<1> DEFINE kept == UNCHANGED <<atFailStreak, sinceReset, failedPolls, sinceHard, audit>>
<1>1. kept => PolicyInv'
  BY DEF PolicyInv, CountersBehind, ResetPolicy
<1>2. ASSUME NEW p \in Procs, NEW o \in AllOps, Start(p, o) PROVE PolicyInv'
  BY <1>1, <1>2 DEF Start, policy, history
<1>3. ASSUME NEW p \in Procs, Step(p) PROVE PolicyInv'
  <2>1. CASE PollLost(p) \/ ApplyATSuccess(p)
    BY <2>1 DEF PollLost, ApplyATSuccess, TypeOK, PolicyInv, CountersBehind, ResetPolicy
  <2>2. CASE HandleATFailure(p)
    <3> DEFINE streak == Saturate(atFailStreak, FailStreakMax)
               fails == Saturate(failedPolls, FailStreakMax)
               rediscover == ~isPermissionError(result[p]) /\ RediscoverDue(result[p])
    <3>1. streak \in 0..FailStreakMax /\ fails \in 0..FailStreakMax /\ streak <= fails
      BY DEF Saturate, TypeOK, PolicyInv, CountersBehind
    <3>2. CASE rediscover
      BY <2>2, <3>1, <3>2 DEF HandleATFailure, PolicyInv, CountersBehind, ResetPolicy
    <3>3. CASE ~rediscover
      <4>1. MaybeHardReset(result[p], streak, fails)
        BY <2>2, <3>3 DEF HandleATFailure
      <4>. QED
        BY <3>1, <4>1, MaybeHardResetPolicy DEF TypeOK
    <3>. QED
      BY <3>2, <3>3
  <2>3. CASE HandleRetryFailure(p)
    BY <2>3, MaybeHardResetPolicy DEF HandleRetryFailure, TypeOK, PolicyInv, CountersBehind
  <2>4. CASE ModeClear(p)
    BY <1>1, <2>4 DEF ModeClear, history
  <2>5. CASE ~(\/ PollLost(p) \/ ApplyATSuccess(p) \/ HandleATFailure(p)
               \/ HandleRetryFailure(p) \/ ModeClear(p))
    <3>1. kept
      BY <1>3, <2>5 DEF Step, policy, history, AcquireAT, BeginExchange, PollCheck,
         SampleFirst, SampleRest, RediscoverClose, DiscoverAnswering,
         DiscoverCached, Discover, RediscoverBind, Ping, Command, ModeCommand,
         ModeQuery, USBResetCheck, USBReset, ListLock, SelectLock, AcquireMu,
         ListInventory, SelectModem, SelectBind, CachedStatus
    <3>. QED
      BY <1>1, <3>1
  <2>. QED
    BY <2>1, <2>2, <2>3, <2>4, <2>5
<1>4. CASE Tick
  BY <1>4 DEF Tick, Saturate, TypeOK, PolicyInv, CountersBehind, ResetPolicy
<1>5. CASE Environment
  BY <1>1, <1>5 DEF Environment, BusChange, PortChange, policy, history
<1>6. CASE UNCHANGED vars
  BY <1>1, <1>6 DEF vars, policy, history
<1>. QED
  BY <1>2, <1>3, <1>4, <1>5, <1>6 DEF Next

(***************************************************************************)
(* Policy resets are ResetCooldown apart, come after FailStreakMax failed  *)
(* polls in a row and never because of missing rights.                     *)
(***************************************************************************)
THEOREM ResetPolicyCorrect == Spec => []ResetPolicy
<1>1. PolicyInv => ResetPolicy
  BY DEF PolicyInv
<1>. QED
  BY <1>1, InitType, NextType, PolicyInit, PolicyNext, PTL DEF Spec
=============================================================================

---------------------------- MODULE ModemService ----------------------------
(***************************************************************************)
(* The AT side of usecase.ModemService: the background status poller, the  *)
(* recovery policy behind it (port rediscovery, USB hard reset) and the    *)
(* HTTP handlers that share the manager's serial port and the cached       *)
(* status with it.                                                         *)
(*                                                                         *)
(* Three locks are modelled by their holder: atMu (the AT work queue), mu  *)
(* (status, selection and recovery counters) and clientMu (the mutex of    *)
(* repository.Client, held for one whole serial exchange).  A section of   *)
(* the code that holds mu and takes no other lock is one step here; the    *)
(* inventory, which takes clientMu under mu, is two.                       *)
(*                                                                         *)
(* Durations are counted in ticks and saturate at the bound they are       *)
(* compared with; atFailStreak saturates at FailStreakMax.                 *)
(***************************************************************************)
EXTENDS Naturals

CONSTANTS
    Poller,           \* the goroutine of RunStatusPoller
    Requests,         \* the HTTP handler goroutines
    Ops,              \* what a request may ask for, a subset of AllOps
    Ports,            \* the serial ports (/dev/ttyUSB*)
    Modems,           \* the modem IDs the inventory lists, raw serial paths included
    PortsOf,          \* the AT ports of each modem
    PortStates,       \* how ports behave, a subset of AllPortStates
    NoProc, NoPort, NoModem,
    FailStreakMax,    \* failStreakMax
    ResetCooldown,    \* resetCooldown, in ticks
    RediscoverEvery   \* rediscoverEvery, in ticks

AllOps == {"poll", "control", "usbReset", "select", "setMode", "list", "read"}

Procs == {Poller} \cup Requests

ASSUME ProcsAssumption ==
    /\ Poller \notin Requests
    /\ NoProc \notin Procs
    /\ Ops \subseteq AllOps

(***************************************************************************)
(* What a serial port does when it is talked to: "at" answers, "mute" is   *)
(* an interface that never answers (GNSS, log), "denied" cannot be opened  *)
(* for lack of rights, "gone" is not there.                                *)
(***************************************************************************)
AllPortStates == {"at", "mute", "denied", "gone"}

ASSUME PortsAssumption ==
    /\ PortStates \subseteq AllPortStates
    /\ NoPort \notin Ports
    /\ NoModem \notin Modems
    /\ PortsOf \in [Modems -> SUBSET Ports]

ASSUME PolicyAssumption ==
    /\ FailStreakMax \in Nat \ {0}
    /\ ResetCooldown \in Nat \ {0}
    /\ RediscoverEvery \in Nat \ {0}

Results == {"ok", "perm", "empty", "io"}

Stages == {"idle", "lock", "check", "lost", "csq", "rest", "apply", "fail",
           "close", "discover", "bind", "ping", "command", "modeCommand",
           "modeClear", "modeQuery", "usbCheck", "usbReset", "selectMu",
           "selectInventory", "selectBind", "listMu", "listInventory", "read"}

(***************************************************************************)
(* Stages that talk to the modem: the process takes clientMu, waits for    *)
(* the answer and releases it.                                             *)
(***************************************************************************)
IOStages == {"csq", "rest", "ping", "command", "modeCommand", "modeQuery"}

VARIABLES
    pc,               \* the stage of each process
    op,               \* the operation each process runs
    atMu, mu, clientMu,
    portName, portOpen,           \* repository.Client
    atFailStreak,
    sinceReset,                   \* ticks since lastResetAt
    sinceRediscover,              \* ticks since lastRediscover
    status,                       \* the cached FullStatus, without its samples
    selectedModemID,
    result,           \* outcome of the last sample of each process
    retry,            \* is the process sampling again after a rediscovery?
    source,           \* the port the running command sequence started on
    target,           \* port chosen by SelectModem or found by DiscoverATPort
    attached,         \* is the modem on the USB bus?
    portState,        \* what each port does
    failedPolls, sinceHard, audit \* history variables, see below

locks == <<atMu, mu, clientMu>>
client == <<portName, portOpen>>
policy == <<atFailStreak, sinceReset, sinceRediscover>>
locals == <<result, retry, source, target>>
environment == <<attached, portState>>
history == <<failedPolls, sinceHard, audit>>

vars == <<pc, op, locks, client, policy, status, selectedModemID, locals,
          environment, history>>

-----------------------------------------------------------------------------
TypeOK ==
    /\ pc \in [Procs -> Stages]
    /\ op \in [Procs -> AllOps]
    /\ atMu \in Procs \cup {NoProc}
    /\ mu \in Procs \cup {NoProc}
    /\ clientMu \in Procs \cup {NoProc}
    /\ portName \in Ports
    /\ portOpen \in BOOLEAN
    /\ atFailStreak \in 0..FailStreakMax
    /\ sinceReset \in 0..ResetCooldown
    /\ sinceRediscover \in 0..RediscoverEvery
    /\ status \in [connected : BOOLEAN,
                   port : Ports \cup {NoPort},
                   error : {"none", "failed", "disconnected"}]
    /\ selectedModemID \in Modems \cup {NoModem}
    /\ result \in [Procs -> Results]
    /\ retry \in [Procs -> BOOLEAN]
    /\ source \in [Procs -> Ports \cup {NoPort}]
    /\ target \in [Procs -> Ports \cup {NoPort}]
    /\ attached \in BOOLEAN
    /\ portState \in [Ports -> PortStates]
    /\ failedPolls \in 0..FailStreakMax
    /\ sinceHard \in 0..ResetCooldown
    /\ audit \in [gap : 0..ResetCooldown, fails : 0..FailStreakMax,
                  cause : Results]

(***************************************************************************)
(* NewModemService after main opened the port it discovered or defaulted   *)
(* to.  The zero times of lastResetAt and lastRediscover are long ago.     *)
(***************************************************************************)
Init ==
    /\ pc = [p \in Procs |-> "idle"]
    /\ op = [p \in Procs |-> "poll"]
    /\ atMu = NoProc /\ mu = NoProc /\ clientMu = NoProc
    /\ portName \in Ports
    /\ portState \in [Ports -> PortStates]
    /\ portOpen = (portState[portName] \in {"at", "mute"})
    /\ atFailStreak = 0
    /\ sinceReset = ResetCooldown
    /\ sinceRediscover = RediscoverEvery
    /\ status = [connected |-> FALSE, port |-> NoPort, error |-> "none"]
    /\ selectedModemID = NoModem
    /\ result = [p \in Procs |-> "ok"]
    /\ retry = [p \in Procs |-> FALSE]
    /\ source = [p \in Procs |-> NoPort]
    /\ target = [p \in Procs |-> NoPort]
    /\ attached \in BOOLEAN
    /\ failedPolls = 0
    /\ sinceHard = ResetCooldown
    /\ audit = [gap |-> ResetCooldown, fails |-> FailStreakMax, cause |-> "io"]

-----------------------------------------------------------------------------
\* Helpers

Saturate(n, bound) == IF n < bound THEN n + 1 ELSE bound

Goto(p, stage) == pc' = [pc EXCEPT ![p] = stage]

(***************************************************************************)
(* What an exchange on port q can come back with, and whether the client   *)
(* still has the port open: "empty" leaves it open, an I/O error closes    *)
(* it.  Rights are checked when a port is opened, not when it is used.     *)
(***************************************************************************)
Outcomes(q, open) ==
    {o \in [result : Results, open : BOOLEAN] :
        CASE portState[q] = "at" -> o.result = "ok" /\ o.open
          [] portState[q] = "mute" -> o.result = "empty" /\ o.open
          [] portState[q] = "gone" -> o.result = "io" /\ ~o.open
          [] portState[q] = "denied" ->
               IF open THEN o.result \in {"ok", "empty"} /\ o.open
                       ELSE o.result = "perm" /\ ~o.open}

(***************************************************************************)
(* sendRawLocked alone never opens a port.                                 *)
(***************************************************************************)
SendRaw ==
    {o \in [result : Results, open : BOOLEAN] :
        IF portOpen THEN o \in Outcomes(portName, TRUE)
                    ELSE o.result = "io" /\ ~o.open}

(***************************************************************************)
(* EnsureConnected: a failed ping is repeated on a reopened port.          *)
(***************************************************************************)
EnsureConnected ==
    {o \in [result : Results, open : BOOLEAN] :
        \/ o \in Outcomes(portName, portOpen) /\ o.result = "ok"
        \/ /\ \E first \in Outcomes(portName, portOpen) : first.result # "ok"
           /\ o \in Outcomes(portName, FALSE)}

(***************************************************************************)
(* An operation goes on, or it is over and its local variables with it.    *)
(***************************************************************************)
Continue(p, stage) == Goto(p, stage) /\ UNCHANGED <<op, locals>>

Return(p) ==
    /\ Goto(p, "idle")
    /\ op' = [op EXCEPT ![p] = "poll"]
    /\ result' = [result EXCEPT ![p] = "ok"]
    /\ retry' = [retry EXCEPT ![p] = FALSE]
    /\ source' = [source EXCEPT ![p] = NoPort]
    /\ target' = [target EXCEPT ![p] = NoPort]

ReleaseAT(p) == atMu' = NoProc /\ Return(p)

isPermissionError(e) == e = "perm"

(***************************************************************************)
(* First stage of each operation.  All AT work queues on atMu; USBReset    *)
(* looks at the bus and SelectModem decides before they do.                *)
(***************************************************************************)
FirstStage(o) ==
    CASE o = "usbReset" -> "usbCheck"
      [] o = "select" -> "selectMu"
      [] o = "list" -> "listMu"
      [] o = "read" -> "read"
      [] OTHER -> "lock"

StageUnderAT(o) ==
    CASE o = "poll" -> "check"
      [] o = "usbReset" -> "usbReset"
      [] o = "select" -> "selectBind"
      [] OTHER -> "ping"

-----------------------------------------------------------------------------
\* Starting an operation and taking the AT work queue

Start(p, o) ==
    /\ pc[p] = "idle"
    /\ o \in (IF p = Poller THEN {"poll"} ELSE Ops)
    /\ op' = [op EXCEPT ![p] = o]
    /\ Goto(p, FirstStage(o))
    /\ UNCHANGED <<locks, client, policy, status, selectedModemID, locals,
                   environment, history>>

AcquireAT(p) ==
    /\ pc[p] = "lock"
    /\ atMu = NoProc
    /\ atMu' = p
    /\ Goto(p, StageUnderAT(op[p]))
    /\ UNCHANGED <<op, mu, clientMu, client, policy, status, selectedModemID,
                   locals, environment, history>>

(***************************************************************************)
(* One serial exchange: Client.mu is taken here and released by the step   *)
(* that ends the exchange with the modem's answer.                         *)
(***************************************************************************)
BeginExchange(p) ==
    /\ pc[p] \in IOStages
    /\ clientMu = NoProc
    /\ clientMu' = p
    /\ source' = [source EXCEPT ![p] = IF @ = NoPort THEN portName ELSE @]
    /\ UNCHANGED <<pc, op, atMu, mu, client, policy, status, selectedModemID,
                   result, retry, target, environment, history>>

EndExchange(p, stage) ==
    /\ pc[p] = stage
    /\ clientMu = p
    /\ clientMu' = NoProc

-----------------------------------------------------------------------------
\* pollStatus

PollCheck(p) ==
    /\ pc[p] = "check"
    /\ Goto(p, IF attached THEN "csq" ELSE "lost")
    /\ UNCHANGED <<op, locks, client, policy, status, selectedModemID, locals,
                   environment, history>>

PollLost(p) ==
    /\ pc[p] = "lost"
    /\ mu = NoProc
    /\ status' = [connected |-> FALSE, port |-> NoPort, error |-> "disconnected"]
    /\ atFailStreak' = 0
    /\ failedPolls' = 0
    /\ ReleaseAT(p)
    /\ UNCHANGED <<mu, clientMu, client, sinceReset, sinceRediscover,
                   selectedModemID, environment, sinceHard, audit>>

(***************************************************************************)
(* GetFullStatus of the tiered client: CSQ opens the port if needed and    *)
(* decides the outcome.  Errors of the later commands, which "rest" stands *)
(* for, are ignored.                                                       *)
(***************************************************************************)
SampleFirst(p) ==
    /\ EndExchange(p, "csq")
    /\ \E o \in Outcomes(portName, portOpen) :
         /\ result' = [result EXCEPT ![p] = o.result]
         /\ portOpen' = o.open
         /\ Goto(p, IF o.result = "ok" THEN "rest" ELSE "fail")
    /\ UNCHANGED <<op, atMu, mu, portName, policy, status, selectedModemID,
                   retry, source, target, environment, history>>

SampleRest(p) ==
    /\ EndExchange(p, "rest")
    /\ \E o \in SendRaw : portOpen' = o.open
    /\ Goto(p, "apply")
    /\ UNCHANGED <<op, atMu, mu, portName, policy, status, selectedModemID,
                   locals, environment, history>>

ApplyATSuccess(p) ==
    /\ pc[p] = "apply"
    /\ mu = NoProc /\ clientMu = NoProc
    /\ status' = [connected |-> TRUE, port |-> portName, error |-> "none"]
    /\ atFailStreak' = 0
    /\ failedPolls' = 0
    /\ ReleaseAT(p)
    /\ UNCHANGED <<mu, clientMu, client, sinceReset, sinceRediscover,
                   selectedModemID, environment, sinceHard, audit>>

(***************************************************************************)
(* maybeHardResetLocked, called with the failure cause and the streak the  *)
(* caller has just written.  The cooldown advances and the streak restarts *)
(* before the reset is tried, whether it then works or not; the port is    *)
(* closed only when it did.  audit records what led to the call.           *)
(***************************************************************************)
ResetDue(cause, streak) ==
    /\ ~isPermissionError(cause)
    /\ streak >= FailStreakMax
    /\ sinceReset >= ResetCooldown

HardReset ==
    \/ attached /\ portOpen' = FALSE
    \/ UNCHANGED portOpen

\* Mutant: the cooldown starts only when the reset worked.
MaybeHardReset_CooldownOnSuccess(cause, streak, fails) ==
    IF ResetDue(cause, streak)
    THEN /\ \/ attached /\ portOpen' = FALSE /\ sinceReset' = 0
            \/ UNCHANGED <<portOpen, sinceReset>>
         /\ atFailStreak' = 0
         /\ audit' = [gap |-> sinceHard, fails |-> fails, cause |-> cause]
         /\ sinceHard' = 0
         /\ failedPolls' = 0
    ELSE /\ atFailStreak' = streak
         /\ failedPolls' = fails
         /\ UNCHANGED <<sinceReset, portOpen, audit, sinceHard>>

MaybeHardReset(cause, streak, fails) ==
    IF ResetDue(cause, streak)
    THEN /\ sinceReset' = 0
         /\ atFailStreak' = 0
         /\ HardReset
         /\ audit' = [gap |-> sinceHard, fails |-> fails, cause |-> cause]
         /\ sinceHard' = 0
         /\ failedPolls' = 0
    ELSE /\ atFailStreak' = streak
         /\ failedPolls' = fails
         /\ UNCHANGED <<sinceReset, portOpen, audit, sinceHard>>

\* Mutant: only a mute port is given up.
RediscoverDue_EmptyOnly(cause) == cause = "empty"

(***************************************************************************)
(* handleATFailure up to the point where it gives mu up.  An empty answer  *)
(* means a mute interface and rediscovers at once, other errors only every *)
(* RediscoverEvery; a permission error does nothing more.                  *)
(***************************************************************************)
RediscoverDue(cause) ==
    cause = "empty" \/ sinceRediscover >= RediscoverEvery

HandleATFailure(p) ==
    LET cause == result[p]
        streak == Saturate(atFailStreak, FailStreakMax)
        fails == Saturate(failedPolls, FailStreakMax)
    IN  /\ pc[p] = "fail" /\ ~retry[p]
        /\ mu = NoProc /\ clientMu = NoProc
        /\ status' = [connected |-> TRUE, port |-> portName, error |-> "failed"]
        /\ IF ~isPermissionError(cause) /\ RediscoverDue(cause)
           THEN /\ atFailStreak' = streak
                /\ failedPolls' = fails
                /\ sinceRediscover' = 0
                /\ Continue(p, "close")
                /\ UNCHANGED <<atMu, sinceReset, portOpen, audit, sinceHard>>
           ELSE /\ MaybeHardReset(cause, streak, fails)
                /\ ReleaseAT(p)
                /\ UNCHANGED sinceRediscover
        /\ UNCHANGED <<mu, clientMu, portName, selectedModemID, environment>>

(***************************************************************************)
(* The rest of handleATFailure, when the sample taken after rediscovery    *)
(* failed too.                                                             *)
(***************************************************************************)
HandleRetryFailure(p) ==
    /\ pc[p] = "fail" /\ retry[p]
    /\ mu = NoProc /\ clientMu = NoProc
    /\ status' = [status EXCEPT !.error = "failed"]
    /\ MaybeHardReset(result[p], atFailStreak, failedPolls)
    /\ ReleaseAT(p)
    /\ UNCHANGED <<mu, clientMu, portName, sinceRediscover, selectedModemID,
                   environment>>

-----------------------------------------------------------------------------
\* rediscoverATPort, shared by the failure path and by SetUSBMode

\* Mutant: the port stays open during the probes.
RediscoverClose_NoClose(p) ==
    /\ pc[p] = "close"
    /\ clientMu = NoProc
    /\ Goto(p, "discover")
    /\ UNCHANGED <<op, locks, client, policy, status, selectedModemID, locals,
                   environment, history>>

RediscoverClose(p) ==
    /\ pc[p] = "close"
    /\ clientMu = NoProc
    /\ portOpen' = FALSE
    /\ Goto(p, "discover")
    /\ UNCHANGED <<op, locks, portName, policy, status, selectedModemID, locals,
                   environment, history>>

(***************************************************************************)
(* DiscoverATPort opens the candidates itself and returns the first that   *)
(* answers.  Probe results are cached, so it may also return a port that   *)
(* answered a while ago, or none although one answers by now.              *)
(***************************************************************************)
Answering == {q \in Ports : portState[q] = "at"}

Discover(p, found) ==
    /\ pc[p] = "discover"
    /\ target' = [target EXCEPT ![p] = found]
    /\ Goto(p, "bind")
    /\ UNCHANGED <<op, locks, client, policy, status, selectedModemID, result,
                   retry, source, environment, history>>

DiscoverAnswering(p) ==
    \E q \in Answering : Discover(p, q)

DiscoverCached(p) ==
    \E q \in Ports \cup {NoPort} : Discover(p, q)

\* Mutant: the answer "no port found" is bound like a port.
SetPortName_Unchecked(q) ==
    portName' = q /\ portOpen' = FALSE

\* SetPortName: nothing happens for an empty or an unchanged name.
SetPortName(q) ==
    IF q \in {NoPort, portName}
    THEN UNCHANGED client
    ELSE portName' = q /\ portOpen' = FALSE

RediscoverBind(p) ==
    /\ pc[p] = "bind"
    /\ clientMu = NoProc
    /\ SetPortName(target[p])
    /\ source' = [source EXCEPT ![p] = NoPort]
    /\ target' = [target EXCEPT ![p] = NoPort]
    /\ retry' = [retry EXCEPT ![p] = TRUE]
    /\ Goto(p, IF op[p] = "poll" THEN "csq" ELSE "modeQuery")
    /\ UNCHANGED <<op, locks, policy, status, selectedModemID, result,
                   environment, history>>

-----------------------------------------------------------------------------
\* Mutant: the early return after a failed ping forgets to unlock.
Ping_NoUnlock(p) ==
    /\ EndExchange(p, "ping")
    /\ \E o \in EnsureConnected :
         /\ portOpen' = o.open
         /\ IF o.result # "ok" /\ op[p] # "setMode"
            THEN Return(p)
            ELSE Continue(p, CASE o.result # "ok" -> "modeQuery"
                               [] op[p] = "setMode" -> "modeCommand"
                               [] OTHER -> "command")
    /\ UNCHANGED <<atMu, mu, portName, policy, status, selectedModemID,
                   environment, history>>

(***************************************************************************)
(* Control requests (SetAPN, SetRAT, RawAT, USBMode, the PDP commands):    *)
(* EnsureConnected, then the command.  SetUSBMode starts the same way and  *)
(* queries the mode when either fails.                                     *)
(***************************************************************************)
Ping(p) ==
    /\ EndExchange(p, "ping")
    /\ \E o \in EnsureConnected :
         /\ portOpen' = o.open
         /\ IF o.result # "ok" /\ op[p] # "setMode"
            THEN ReleaseAT(p)
            ELSE /\ Continue(p, CASE o.result # "ok" -> "modeQuery"
                                  [] op[p] = "setMode" -> "modeCommand"
                                  [] OTHER -> "command")
                 /\ UNCHANGED atMu
    /\ UNCHANGED <<mu, portName, policy, status, selectedModemID, environment,
                   history>>

Command(p) ==
    /\ EndExchange(p, "command")
    /\ \E o \in SendRaw : portOpen' = o.open
    /\ ReleaseAT(p)
    /\ UNCHANGED <<mu, portName, policy, status, selectedModemID, environment,
                   history>>

(***************************************************************************)
(* SetUSBMode: an accepted mode closes the port and, after the settling    *)
(* time, allows an immediate rediscovery and performs one.                 *)
(***************************************************************************)
ModeCommand(p) ==
    /\ EndExchange(p, "modeCommand")
    /\ \E o \in SendRaw :
         \/ /\ o.result = "ok"
            /\ portOpen' = FALSE
            /\ Goto(p, "modeClear")
         \/ /\ portOpen' = o.open
            /\ Goto(p, "modeQuery")
    /\ UNCHANGED <<op, atMu, mu, portName, policy, status, selectedModemID,
                   locals, environment, history>>

ModeClear(p) ==
    /\ pc[p] = "modeClear"
    /\ mu = NoProc
    /\ sinceRediscover' = RediscoverEvery
    /\ Goto(p, "close")
    /\ UNCHANGED <<op, locks, client, atFailStreak, sinceReset, status,
                   selectedModemID, locals, environment, history>>

ModeQuery(p) ==
    /\ EndExchange(p, "modeQuery")
    /\ \E o \in EnsureConnected : portOpen' = o.open
    /\ ReleaseAT(p)
    /\ UNCHANGED <<mu, portName, policy, status, selectedModemID, environment,
                   history>>

-----------------------------------------------------------------------------
\* USBReset: the bus is looked at before the work queue is joined.

\* Mutant: the reset does not join the AT work queue.
USBResetCheck_Unserialized(p) ==
    /\ pc[p] = "usbCheck"
    /\ IF attached THEN Continue(p, "usbReset") ELSE Return(p)
    /\ UNCHANGED <<locks, client, policy, status, selectedModemID, environment,
                   history>>

USBResetCheck(p) ==
    /\ pc[p] = "usbCheck"
    /\ IF attached THEN Continue(p, "lock") ELSE Return(p)
    /\ UNCHANGED <<locks, client, policy, status, selectedModemID, environment,
                   history>>

USBReset(p) ==
    /\ pc[p] = "usbReset"
    /\ clientMu = NoProc
    /\ HardReset
    /\ ReleaseAT(p)
    /\ UNCHANGED <<mu, clientMu, portName, policy, status, selectedModemID,
                   environment, history>>

-----------------------------------------------------------------------------
(***************************************************************************)
(* The inventory: buildInventoryLocked asks the client for its port under  *)
(* mu, which waits for a running serial exchange, and makes a default      *)
(* selection, the modem that owns the port or else some modem.             *)
(***************************************************************************)
AcquireMu(p, from, to) ==
    /\ pc[p] = from
    /\ mu = NoProc
    /\ mu' = p
    /\ Goto(p, to)
    /\ UNCHANGED <<op, atMu, clientMu, client, policy, status, selectedModemID,
                   locals, environment, history>>

ListLock(p) == AcquireMu(p, "listMu", "listInventory")

SelectLock(p) == AcquireMu(p, "selectMu", "selectInventory")

Owns(m, q) == q \in PortsOf[m]

DefaultSelection ==
    IF selectedModemID # NoModem \/ Modems = {}
    THEN UNCHANGED selectedModemID
    ELSE \E m \in Modems :
           /\ Owns(m, portName) \/ \A n \in Modems : ~Owns(n, portName)
           /\ selectedModemID' = m

\* The inventory answer of ListModems, of SelectModem, or a rejected selection.
ListInventory(p) ==
    /\ pc[p] \in {"listInventory", "selectInventory"}
    /\ clientMu = NoProc
    /\ DefaultSelection
    /\ mu' = NoProc
    /\ Return(p)
    /\ UNCHANGED <<atMu, clientMu, client, policy, status, environment, history>>

\* Mutant: the port is switched outside the AT work queue.
SelectModem_Unserialized(p) ==
    /\ pc[p] = "selectInventory"
    /\ clientMu = NoProc
    /\ mu' = NoProc
    /\ \E m \in Modems : \E q \in PortsOf[m] :
         /\ selectedModemID' = m
         /\ target' = [target EXCEPT ![p] = q]
         /\ Goto(p, "selectBind")
    /\ UNCHANGED <<op, atMu, clientMu, client, policy, status, result, retry,
                   source, environment, history>>

\* Mutant: mu is kept while the work queue is joined.
SelectModem_KeepsMu(p) ==
    /\ pc[p] = "selectInventory"
    /\ clientMu = NoProc
    /\ \E m \in Modems : \E q \in PortsOf[m] :
         /\ selectedModemID' = m
         /\ target' = [target EXCEPT ![p] = q]
         /\ Goto(p, "lock")
    /\ UNCHANGED <<op, locks, client, policy, status, result, retry, source,
                   environment, history>>

(***************************************************************************)
(* SelectModem under mu: the modem asked for becomes the selected one and  *)
(* one of its ports the port to switch to.  mu is released before atMu is  *)
(* asked for.                                                              *)
(***************************************************************************)
SelectModem(p) ==
    /\ pc[p] = "selectInventory"
    /\ clientMu = NoProc
    /\ mu' = NoProc
    /\ \E m \in Modems :
         /\ selectedModemID' = m
         /\ \/ \E q \in PortsOf[m] :
                 /\ target' = [target EXCEPT ![p] = q]
                 /\ Goto(p, "lock")
            \/ /\ PortsOf[m] = {}
               /\ Goto(p, "listMu")
               /\ UNCHANGED target
    /\ UNCHANGED <<op, atMu, clientMu, client, policy, status, result, retry,
                   source, environment, history>>

SelectBind(p) ==
    /\ pc[p] = "selectBind"
    /\ clientMu = NoProc
    /\ SetPortName(target[p])
    /\ atMu' = NoProc
    /\ Continue(p, "listMu")
    /\ UNCHANGED <<mu, clientMu, policy, status, selectedModemID, environment,
                   history>>

\* CachedStatus: a short read of the snapshot.
CachedStatus(p) ==
    /\ pc[p] = "read"
    /\ mu = NoProc
    /\ Return(p)
    /\ UNCHANGED <<locks, client, policy, status, selectedModemID, environment,
                   history>>

-----------------------------------------------------------------------------
\* The clock, the bus and the serial ports

Tick ==
    /\ sinceReset' = Saturate(sinceReset, ResetCooldown)
    /\ sinceRediscover' = Saturate(sinceRediscover, RediscoverEvery)
    /\ sinceHard' = Saturate(sinceHard, ResetCooldown)
    /\ UNCHANGED <<pc, op, locks, client, atFailStreak, status, selectedModemID,
                   locals, environment, failedPolls, audit>>

BusChange ==
    /\ attached' = ~attached
    /\ UNCHANGED <<pc, op, locks, client, policy, status, selectedModemID, locals,
                   portState, history>>

PortChange(q, state) ==
    /\ portState' = [portState EXCEPT ![q] = state]
    /\ UNCHANGED <<pc, op, locks, client, policy, status, selectedModemID, locals,
                   attached, history>>

Environment ==
    \/ BusChange
    \/ \E q \in Ports, state \in PortStates : PortChange(q, state)

-----------------------------------------------------------------------------
Step(p) ==
    \/ AcquireAT(p)
    \/ BeginExchange(p)
    \/ PollCheck(p)
    \/ PollLost(p)
    \/ SampleFirst(p)
    \/ SampleRest(p)
    \/ ApplyATSuccess(p)
    \/ HandleATFailure(p)
    \/ HandleRetryFailure(p)
    \/ RediscoverClose(p)
    \/ DiscoverAnswering(p)
    \/ DiscoverCached(p)
    \/ RediscoverBind(p)
    \/ Ping(p)
    \/ Command(p)
    \/ ModeCommand(p)
    \/ ModeClear(p)
    \/ ModeQuery(p)
    \/ USBResetCheck(p)
    \/ USBReset(p)
    \/ ListLock(p)
    \/ SelectLock(p)
    \/ ListInventory(p)
    \/ SelectModem(p)
    \/ SelectBind(p)
    \/ CachedStatus(p)

Next ==
    \/ \E p \in Procs, o \in AllOps : Start(p, o)
    \/ \E p \in Procs : Step(p)
    \/ Tick
    \/ Environment

Spec == Init /\ [][Next]_vars

(***************************************************************************)
(* Fairness.  Goroutines run, and a goroutine waiting for a Go mutex gets  *)
(* it although others keep taking it (starvation mode hands the mutex over *)
(* to the longest waiter), hence the strong fairness.  The poller's ticker *)
(* and the clock keep going.  The cached probe results expire, so repeated *)
(* discoveries do not miss an answering port for ever.                     *)
(***************************************************************************)
Fairness ==
    /\ WF_vars(Start(Poller, "poll"))
    /\ WF_vars(Tick)
    /\ \A p \in Procs : SF_vars(Step(p)) /\ SF_vars(DiscoverAnswering(p))

FairSpec == Spec /\ Fairness

-----------------------------------------------------------------------------
\* Properties

\* Stages whose process must hold atMu.
ATStages == {"check", "lost", "csq", "rest", "apply", "fail", "close",
             "discover", "bind", "ping", "command", "modeCommand",
             "modeClear", "modeQuery", "usbReset", "selectBind"}

MuStages == {"listInventory", "selectInventory"}

(***************************************************************************)
(* One owner of the AT port (withAT: "sole owner of the manager AT port"): *)
(* no two goroutines are inside AT work, a serial exchange included, or    *)
(* inside the inventory's critical section.                                *)
(***************************************************************************)
SoleOwner ==
    \A p, q \in Procs :
        \/ p = q
        \/ /\ ~(pc[p] \in ATStages /\ pc[q] \in ATStages)
           /\ ~(pc[p] \in MuStages /\ pc[q] \in MuStages)

(***************************************************************************)
(* The commands of one sample or control request all go to one port: from  *)
(* its first exchange to its end no selection, rediscovery or reset of     *)
(* another goroutine moves the client to another port.  In particular the  *)
(* port published with a sample is the port that gave its answers.         *)
(***************************************************************************)
OnePortPerSequence ==
    \A p \in Procs :
        pc[p] \in {"rest", "apply", "fail", "command", "modeCommand"}
            => source[p] = portName

(***************************************************************************)
(* DiscoverATPort opens every candidate, the manager's own port included:  *)
(* the client has closed it and nobody opens it meanwhile.                 *)
(***************************************************************************)
PortClosedWhileProbing ==
    \A p \in Procs : pc[p] = "discover" => ~portOpen

(***************************************************************************)
(* The recovery policy.  history variables follow what has happened, not   *)
(* the service's own counters: failedPolls the polls that failed since the *)
(* last success, detachment or policy reset, sinceHard the ticks since the *)
(* last policy reset, audit what led to the last policy reset.  A policy   *)
(* reset comes at least ResetCooldown after the one before, whether that   *)
(* one worked or not, after FailStreakMax failed polls in a row, and never *)
(* because of missing rights.                                              *)
(***************************************************************************)
ResetPolicy ==
    /\ audit.gap = ResetCooldown
    /\ audit.fails = FailStreakMax
    /\ audit.cause # "perm"

(***************************************************************************)
(* No set of goroutines waits for each other: in every non-empty set some  *)
(* goroutine waits for no lock a member holds (lock order atMu, mu, and    *)
(* Client.mu last).                                                        *)
(***************************************************************************)
WaitsFor(p) ==
    CASE pc[p] = "lock" -> {atMu}
      [] pc[p] \in {"lost", "modeClear", "selectMu", "listMu", "read"} -> {mu}
      [] pc[p] \in {"apply", "fail"} -> {mu, clientMu}
      [] pc[p] \in {"close", "bind", "usbReset", "selectBind"} \cup MuStages -> {clientMu}
      [] pc[p] \in IOStages /\ clientMu # p -> {clientMu}
      [] OTHER -> {}

NoWaitCycle ==
    \A S \in (SUBSET Procs) \ {{}} : \E p \in S : WaitsFor(p) \cap S = {}

(***************************************************************************)
(* Every HTTP request and every poll is answered.                          *)
(***************************************************************************)
RequestsComplete ==
    \A p \in Procs : (pc[p] # "idle") ~> (pc[p] = "idle")

(***************************************************************************)
(* Self-healing: when the modem stays attached, one port answers from some *)
(* time on and the others are silent or absent, the poller ends up on that *)
(* port, whatever port it was on and whatever failed before, and the       *)
(* cached status shows it without error from then on.                      *)
(***************************************************************************)
OnlyAnswers(q) ==
    /\ attached
    /\ portState[q] = "at"
    /\ \A r \in Ports \ {q} : portState[r] \in {"mute", "gone"}

Recovers ==
    \A q \in Ports :
        <>[]OnlyAnswers(q)
            => <>[](status.error = "none" /\ status.port = q)

-----------------------------------------------------------------------------
\* A statement of a comment that the code breaks.

(***************************************************************************)
(* The comment on SelectModem: it switches the AT port for subsequent      *)
(* operations.  When no request is under way the selected modem owns the   *)
(* port in use.  Stated for instances whose requests only select and whose *)
(* poller does not rediscover.                                             *)
(***************************************************************************)
SelectionBindsPort ==
    (\A p \in Procs : pc[p] = "idle") /\ selectedModemID # NoModem
        => Owns(selectedModemID, portName)
=============================================================================

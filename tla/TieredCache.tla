---------------------------- MODULE TieredCache ----------------------------
(***************************************************************************)
(* repository.TieredClient: the AT client whose status samples ask for fast *)
(* values every time, for operator and PDP session every MediumPolls       *)
(* samples and for SIM, APN and identity every SlowPolls samples, and keep *)
(* the answers of the last two kinds in a cache.  Every operation runs     *)
(* under the service's atMu (ModemService, SoleOwner), so one operation is *)
(* one action; time passes between samples.                                *)
(*                                                                         *)
(* Of the medium values the operator and the PDP session stand for the     *)
(* rest; of the slow ones the APN, the IMSI for what is read from the SIM   *)
(* and the IMEI for the identity of the modem.                             *)
(***************************************************************************)
EXTENDS Naturals, FiniteSets

CONSTANTS
    Ports,            \* names of serial ports
    FirstPort,        \* the one given at the start
    Devices,          \* the modems behind them
    FirstDevice,      \* the one there at the start
    Cids,             \* PDP contexts
    DefaultCID,       \* the one a sample reports: ParseCGDCONT prefers it
    APNs, Operators, SIMs,
    FirstAPN,         \* the one configured at the start
    None,             \* nothing cached; no SIM, or one that gives no answer
    Unknown,          \* unknownOperator, and the APN of a response without one
    MediumPolls,      \* atMediumPollInterval, in samples
    SlowPolls,        \* atSlowPollInterval, in samples
    MaxEvents,        \* bound: changes of the modem and control operations
    MaxFailures       \* bound: samples some command of which failed

ASSUME FirstAssumption ==
    /\ FirstPort \in Ports
    /\ FirstDevice \in Devices
    /\ FirstAPN \in APNs

ASSUME CidsAssumption == DefaultCID \in Cids

ASSUME ValuesAssumption ==
    /\ None \notin Devices \cup SIMs \cup APNs \cup Operators \cup {Unknown}
    /\ Unknown \notin Devices \cup SIMs \cup APNs \cup Operators

ASSUME BoundsAssumption ==
    /\ MediumPolls \in Nat \ {0}
    /\ SlowPolls \in Nat \ {0}
    /\ MaxEvents \in Nat
    /\ MaxFailures \in Nat

VARIABLES
    port,             \* the client's port name
    device, sim,      \* the modem behind it and the SIM in that
    apn, operator,    \* the modem: its APN, the operator it is registered with,
    session,          \* and each context: down, active or with an address
    cache,            \* tieredPollCache
    mediumAge,        \* samples since mediumAt, MediumPolls when due or zero
    slowAge,          \* samples since slowAt, SlowPolls when due or zero
    events, failures, \* what the bounds have left
    operatorAge,      \* history: samples since the operator was last taken
    apnAge,           \* history: samples since the APN was last taken
    excused,          \* history: what has a named reason to be out of date
    owed              \* history: what a control operation has just changed

modem == <<device, sim, apn, operator, session>>
tiers == <<cache, mediumAge, slowAge>>
history == <<operatorAge, apnAge, excused, owed>>

vars == <<port, modem, tiers, events, failures, history>>

Commands == {"COPS", "CGPADDR", "CGDCONT", "CIMI", "CGSN"}

(***************************************************************************)
(* How a command ends: with its answer, with ERROR or what another command *)
(* is answered late, or without an answer.                                 *)
(***************************************************************************)
Outcomes == {"ok", "error", "none"}

\* The last two are the same for CIMI and CGSN: there is nothing to take.
Replies == {r \in [Commands -> Outcomes] : "error" \notin {r["CIMI"], r["CGSN"]}}

SessionStates == {"down", "active", "addressed"}

\* The session last asked for and whether it had an address; cid 0 is none.
Sessions == [cid : Cids \cup {0}, up : BOOLEAN]

SessionOf(cid, up) == [cid |-> cid, up |-> up]

NoSession == SessionOf(0, FALSE)

EmptyCache ==
    [apn |-> None, operator |-> None, pdp |-> NoSession,
     imsi |-> None, identity |-> None]

\* The command that asks for each of the values whose age or owner matters.
Source == [operator |-> "COPS", apn |-> "CGDCONT", imsi |-> "CIMI",
           identity |-> "CGSN"]

Values == DOMAIN Source

\* What the modem gives for it; nothing when it is Unknown or None.
Given == [operator |-> operator, apn |-> apn, imsi |-> sim,
          identity |-> device]

TypeOK ==
    /\ port \in Ports
    /\ device \in Devices
    /\ sim \in SIMs \cup {None}
    /\ apn \in APNs
    /\ operator \in Operators \cup {Unknown}
    /\ session \in [Cids -> SessionStates]
    /\ cache \in [apn : APNs \cup {Unknown, None},
                  operator : Operators \cup {Unknown, None},
                  pdp : Sessions,
                  imsi : SIMs \cup {None},
                  identity : Devices \cup {None}]
    /\ mediumAge \in 0..MediumPolls
    /\ slowAge \in 0..SlowPolls
    /\ events \in 0..MaxEvents
    /\ failures \in 0..MaxFailures
    /\ operatorAge \in 0..MediumPolls
    /\ apnAge \in 0..SlowPolls
    /\ excused \subseteq Values
    /\ owed \subseteq {"apn", "pdp"}

\* A modem that has just been powered or plugged in.
FreshModem(d) ==
    /\ device' = d
    /\ sim' \in SIMs \cup {None}
    /\ apn' \in APNs
    /\ operator' \in Operators \cup {Unknown}
    /\ session' = [c \in Cids |-> "down"]

Init ==
    /\ port = FirstPort
    /\ device = FirstDevice
    /\ sim \in SIMs \cup {None}
    /\ apn = FirstAPN
    /\ operator \in Operators \cup {Unknown}
    /\ session = [c \in Cids |-> "down"]
    /\ cache = EmptyCache
    /\ mediumAge = MediumPolls
    /\ slowAge = SlowPolls
    /\ events = MaxEvents
    /\ failures = MaxFailures
    /\ operatorAge = 0
    /\ apnAge = 0
    /\ excused = {}
    /\ owed = {}

-----------------------------------------------------------------------------
\* GetFullStatus

\* Mutant: a tier is due at its interval and not after it.
Aged_Past(age, bound) == age + 1

Aged(age, bound) == IF age < bound THEN age + 1 ELSE bound

\* Mutant: the medium tier is asked for only when it has no stamp.
MediumDue_Once(age) == cache.operator = None

MediumDue(age) == age = MediumPolls

SlowDue(age) == age = SlowPolls

(***************************************************************************)
(* A response of ERROR to CGDCONT is parsed like any other: it has no APN,  *)
(* and replaces it.  The SIM and the identity are replaced only by a       *)
(* response that has one.                                                  *)
(***************************************************************************)
RefreshSlow(c, outcome) ==
    [apn |-> IF outcome["CGDCONT"] = "ok" THEN apn
             ELSE IF outcome["CGDCONT"] = "error" THEN Unknown ELSE c.apn,
     operator |-> c.operator,
     pdp |-> c.pdp,
     imsi |-> IF outcome["CIMI"] = "ok" /\ sim # None THEN sim ELSE c.imsi,
     identity |-> IF outcome["CGSN"] = "ok" THEN device ELSE c.identity]

(***************************************************************************)
(* The last known operator survives a response without one, the address of *)
(* the session does not.  Without an answer the session keeps its address  *)
(* even if it was that of another context.                                 *)
(***************************************************************************)
RefreshMedium(c, outcome) ==
    LET named == outcome["COPS"] = "ok" /\ operator # Unknown
        nothing == outcome["COPS"] # "none" /\ c.operator = None
        up == \/ outcome["CGPADDR"] = "ok" /\ session[DefaultCID] = "addressed"
              \/ outcome["CGPADDR"] = "none" /\ c.pdp.up
    IN  [apn |-> c.apn,
         operator |-> IF named THEN operator
                      ELSE IF nothing THEN Unknown ELSE c.operator,
         pdp |-> SessionOf(DefaultCID, up),
         imsi |-> c.imsi,
         identity |-> c.identity]

(***************************************************************************)
(* One sample.  The slow tier comes first; both stamps are set whatever    *)
(* became of the commands.  Of the values due, those are taken that the    *)
(* modem gave; a SIM or an identity that was not is late only if it is     *)
(* another one's by now.                                                   *)
(***************************************************************************)
GetFullStatus(outcome) ==
    LET medium == Aged(mediumAge, MediumPolls)
        slow == Aged(slowAge, SlowPolls)
        afterSlow == IF SlowDue(slow) THEN RefreshSlow(cache, outcome) ELSE cache
        due == (IF MediumDue(medium) THEN {"operator"} ELSE {})
               \cup (IF SlowDue(slow) THEN Values \ {"operator"} ELSE {})
        taken == {v \in due : outcome[Source[v]] = "ok" /\ Given[v] \notin {None, Unknown}}
    IN  /\ cache' = IF MediumDue(medium) THEN RefreshMedium(afterSlow, outcome)
                    ELSE afterSlow
        /\ mediumAge' = IF MediumDue(medium) THEN 0 ELSE medium
        /\ slowAge' = IF SlowDue(slow) THEN 0 ELSE slow
        /\ operatorAge' = IF "operator" \in taken THEN 0 ELSE Aged(operatorAge, MediumPolls)
        /\ apnAge' = IF "apn" \in taken THEN 0 ELSE Aged(apnAge, SlowPolls)
        /\ excused' = (excused \ taken) \cup ((due \ taken) \cap {"operator", "apn"})
        /\ owed' = {}
        /\ UNCHANGED <<port, modem, events>>

Answered == [command \in Commands |-> "ok"]

AnsweredSample == GetFullStatus(Answered) /\ UNCHANGED failures

DisturbedSample ==
    /\ failures > 0
    /\ failures' = failures - 1
    /\ \E outcome \in Replies : GetFullStatus(outcome)

\* A sample whose first command is not answered ends there, and time has passed.
FailedSample ==
    /\ failures > 0
    /\ failures' = failures - 1
    /\ mediumAge' = Aged(mediumAge, MediumPolls)
    /\ slowAge' = Aged(slowAge, SlowPolls)
    /\ operatorAge' = Aged(operatorAge, MediumPolls)
    /\ apnAge' = Aged(apnAge, SlowPolls)
    /\ excused' = excused \cup {"operator", "apn"}
    /\ UNCHANGED <<port, modem, cache, events, owed>>

-----------------------------------------------------------------------------
\* Control operations.  One that the modem refuses changes nothing.

Event == events > 0 /\ events' = events - 1

\* resetPollCache, with nothing left to be out of date
ResetPollCache ==
    /\ cache' = EmptyCache
    /\ mediumAge' = MediumPolls
    /\ slowAge' = SlowPolls
    /\ operatorAge' = 0
    /\ apnAge' = 0
    /\ excused' = {}
    /\ owed' = {}

\* Mutant: the cache is kept for the next port.
SetPortName_Keeps(name) ==
    /\ name # port
    /\ port' = name
    /\ \E d \in Devices : FreshModem(d)
    /\ Event
    /\ UNCHANGED <<tiers, history, failures>>

\* The service found its modem, or another one, on another port.
SetPortName(name) ==
    /\ name # port
    /\ port' = name
    /\ \E d \in Devices : FreshModem(d)
    /\ ResetPollCache
    /\ Event
    /\ UNCHANGED failures

\* The modem takes another profile, is enumerated again and found on some port.
SetUSBMode ==
    /\ FreshModem(device)
    /\ ResetPollCache
    /\ Event
    /\ UNCHANGED <<port, failures>>

\* Mutant: the stamp of the slow tier is left alone.
SetAPN_KeepsStamp(value) ==
    /\ value # apn
    /\ apn' = value
    /\ Event
    /\ owed' = owed \cup {"apn"}
    /\ UNCHANGED <<port, device, sim, operator, session, tiers, failures, operatorAge,
                   apnAge, excused>>

\* SetAPN, and SetRATMode likewise: the slow tier is due again.
SetAPN(value) ==
    /\ value # apn
    /\ apn' = value
    /\ Event
    /\ slowAge' = SlowPolls
    /\ owed' = owed \cup {"apn"}
    /\ UNCHANGED <<port, device, sim, operator, session, cache, mediumAge, failures,
                   operatorAge, apnAge, excused>>

\* SetAPN whose answer got lost: the caller is told that it failed.
SetAPNUnconfirmed(value) ==
    /\ value # apn
    /\ apn' = value
    /\ Event
    /\ UNCHANGED <<port, device, sim, operator, session, tiers, failures, operatorAge,
                   apnAge, excused, owed>>

(***************************************************************************)
(* connectRNDISConfigured activates a context and asks for its session at  *)
(* once.  The activation makes the medium tier due; the session is cached   *)
(* and stamps the tier as fresh, its operator and temperature included.    *)
(***************************************************************************)
ActivatePDP(cid) ==
    LET activated == [session EXCEPT ![cid] = IF @ = "down" THEN "active" ELSE @]
    IN  /\ Event
        /\ session' = activated
        /\ \/ /\ cache' = [cache EXCEPT
                       !.pdp = SessionOf(cid, activated[cid] = "addressed")]
              /\ mediumAge' = 0
              /\ excused' = excused \cup {"operator"}
              /\ owed' = IF cid = DefaultCID /\ activated[cid] = "addressed"
                         THEN owed \cup {"pdp"} ELSE owed \ {"pdp"}
           \/ /\ mediumAge' = MediumPolls
              /\ owed' = owed \cup {"pdp"}
              /\ UNCHANGED <<cache, excused>>
        /\ UNCHANGED <<port, device, sim, apn, operator, slowAge, failures, operatorAge,
                       apnAge>>

\* Mutant: the medium tier counts as read when the session is taken down.
DeactivatePDP_Stamps(cid) ==
    /\ Event
    /\ session' = [session EXCEPT ![cid] = "down"]
    /\ cache' = [cache EXCEPT !.pdp = SessionOf(cid, FALSE)]
    /\ mediumAge' = 0
    /\ owed' = owed \cup {"pdp"}
    /\ UNCHANGED <<port, device, sim, apn, operator, slowAge, failures, operatorAge, apnAge,
                   excused>>

DeactivatePDP(cid) ==
    /\ Event
    /\ session' = [session EXCEPT ![cid] = "down"]
    /\ cache' = [cache EXCEPT !.pdp = SessionOf(cid, FALSE)]
    /\ mediumAge' = MediumPolls
    /\ owed' = owed \cup {"pdp"}
    /\ UNCHANGED <<port, device, sim, apn, operator, slowAge, failures, operatorAge, apnAge,
                   excused>>

-----------------------------------------------------------------------------
\* What happens to the modem

\* The network gives an active context its address, or ends a session.
SessionChanges(cid) ==
    /\ session[cid] # "down"
    /\ \E state \in {"down", "addressed"} \ {session[cid]} :
          session' = [session EXCEPT ![cid] = state]
    /\ Event
    /\ owed' = owed \ {"pdp"}
    /\ UNCHANGED <<port, device, sim, apn, operator, tiers, failures, operatorAge, apnAge,
                   excused>>

Roam ==
    /\ \E o \in (Operators \cup {Unknown}) \ {operator} : operator' = o
    /\ Event
    /\ UNCHANGED <<port, device, sim, apn, session, tiers, failures, history>>

(***************************************************************************)
(* Another modem, or the same with another SIM, takes the name of the      *)
(* port: SetPortName sees no change.                                       *)
(***************************************************************************)
Replug ==
    /\ \E d \in Devices : FreshModem(d)
    /\ <<device', sim'>> # <<device, sim>>
    /\ Event
    /\ excused' = excused \cup {"imsi", "identity"}
    /\ owed' = {}
    /\ UNCHANGED <<port, tiers, failures, operatorAge, apnAge>>

Next ==
    \/ AnsweredSample \/ DisturbedSample \/ FailedSample
    \/ \E name \in Ports : SetPortName(name)
    \/ SetUSBMode
    \/ \E value \in APNs : SetAPN(value) \/ SetAPNUnconfirmed(value)
    \/ \E cid \in Cids :
          ActivatePDP(cid) \/ DeactivatePDP(cid) \/ SessionChanges(cid)
    \/ Roam \/ Replug

Spec == Init /\ [][Next]_vars

\* The poller keeps sampling; samples that fail are bounded.
FairSpec == Spec /\ WF_vars(AnsweredSample)

-----------------------------------------------------------------------------
\* Properties

(***************************************************************************)
(* The SIM and the modem identity on show are those of the modem in use,   *)
(* with one exception: when another modem or SIM has taken the same port   *)
(* name nothing tells the cache of it, and each of the two stays that of   *)
(* the old one until a reading of the slow tier that gets the new one, for *)
(* ever with no SIM to read.                                               *)
(***************************************************************************)
IdentityOfModem ==
    /\ cache.imsi \in {None, sim} \/ "imsi" \in excused
    /\ cache.identity \in {None, device} \/ "identity" \in excused

(***************************************************************************)
(* A cached operator or APN is no older than the interval of its tier,     *)
(* whatever operations shift the stamps, with three exceptions: the tier   *)
(* is stamped although its command failed; so it is when a modem without   *)
(* an operator answers, and the last one stays; and a session asked for by *)
(* a connect stamps the operator too.                                      *)
(***************************************************************************)
BoundedAge ==
    /\ operatorAge = MediumPolls => "operator" \in excused
    /\ apnAge = SlowPolls => "apn" \in excused

(***************************************************************************)
ControlShows ==
    [][AnsweredSample =>
         /\ "apn" \in owed => cache'.apn = apn
         /\ "pdp" \in owed => cache'.pdp.up = (session[DefaultCID] = "addressed")]_vars

(***************************************************************************)
(* Once the modem is left alone and answers, the status comes to show it as *)
(* it is; an operator or a SIM that is gone stays on show.                 *)
(***************************************************************************)
Settled ==
    /\ cache.apn = apn
    /\ cache.operator = operator \/ operator = Unknown
    /\ cache.pdp = SessionOf(DefaultCID, session[DefaultCID] = "addressed")
    /\ cache.imsi = sim \/ sim = None
    /\ cache.identity = device

Settles == <>[]Settled

=============================================================================

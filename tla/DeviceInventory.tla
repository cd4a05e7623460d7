-------------------------- MODULE DeviceInventory --------------------------
(***************************************************************************)
(* usecase.CachedInventory, which answers with the last listing of modems   *)
(* and lists again in the background, repository.ListModems, which looks   *)
(* for the serial ports and tries which of them answer, the cache of these *)
(* tries (probes), and DiscoverATPort, by which the service finds its port *)
(* again and which uses the same cache.                                    *)
(*                                                                         *)
(* A port is the serial node of a modem.  A probe opens it; two users of   *)
(* a port at once (two probes, or a probe and the service's client) may     *)
(* find it busy or take each other's answers, so their probes may fail.    *)
(***************************************************************************)
EXTENDS Naturals, FiniteSets

CONSTANTS
    Ports,            \* serial nodes
    ATPorts,          \* those behind which something answers AT
    FirstPort,        \* the one bound at the start
    NoPort,
    Slots,            \* the goroutines a refresh may run in
    Discovery,        \* the service's rediscovery, as a user of the probes
    ListTTL,          \* defaultInventoryCacheTTL, in ticks
    ProbeTTL,         \* probeTTL, in ticks
    MaxChanges        \* bound: ports plugged, unplugged, selected or lost

ASSUME PortsAssumption ==
    /\ ATPorts \subseteq Ports
    /\ FirstPort \in ATPorts
    /\ NoPort \notin Ports
    /\ Discovery \notin Slots

ASSUME BoundsAssumption ==
    /\ ListTTL \in Nat \ {0}
    /\ ProbeTTL \in Nat \ {0}
    /\ MaxChanges \in Nat

Probers == Slots \cup {Discovery}

VARIABLES
    present,          \* the serial nodes there are
    openAT, held,     \* the service's port and whether its client has it open
    reading,          \* the port a caller of ListModems has read as openAT
    refreshing,
    stage,            \* each prober: idle, probing its needs, or done with them
    skip,             \* the port a prober does not open
    found,            \* the nodes it has listed
    need,             \* those it still has to open
    opened,           \* those it has open
    clashed,          \* those it shared with another user while open
    ready,            \* those it takes for answering
    modems, listAge,  \* the cached listing and its age
    probeCache,       \* results of probes, none when expired
    probeAge,
    changes,          \* history: how often the ports have changed
    misread           \* history: cached as not answering for having been shared

service == <<openAT, held>>
probers == <<stage, skip, found, need, opened, clashed, ready>>
inventory == <<reading, refreshing, modems, listAge>>
cache == <<probeCache, probeAge>>

vars == <<present, service, probers, inventory, cache, changes, misread>>

\* A listing with what it was asked for and the number of changes it has seen.
Listings == [openAT : Ports, nodes : SUBSET Ports, ready : SUBSET Ports,
             seen : 0..MaxChanges]

TypeOK ==
    /\ present \subseteq Ports
    /\ openAT \in Ports
    /\ held \in BOOLEAN
    /\ reading \in Ports \cup {NoPort}
    /\ refreshing \in BOOLEAN
    /\ stage \in [Probers -> {"idle", "probing"}]
    /\ skip \in [Probers -> Ports \cup {NoPort}]
    /\ found \in [Probers -> [nodes : SUBSET Ports, seen : 0..MaxChanges]]
    /\ \A listed \in {need, opened, clashed, ready} :
          /\ listed \in [Probers -> SUBSET Ports]
          /\ \A x \in Probers : listed[x] \subseteq found[x].nodes
    /\ \A x \in Probers : clashed[x] \subseteq opened[x]
    /\ modems \in Listings
    /\ listAge \in 0..(ListTTL + 1)
    /\ probeCache \in [Ports -> {"none", "ok", "not"}]
    /\ probeAge \in [Ports -> 0..ProbeTTL]
    /\ changes \in 0..MaxChanges
    /\ misread \subseteq Ports

NothingFound == [nodes |-> {}, seen |-> 0]

\* main has primed the inventory and tried to open the port.
Init ==
    /\ present \in {s \in SUBSET Ports : FirstPort \in s}
    /\ openAT = FirstPort
    /\ held \in BOOLEAN
    /\ reading = NoPort
    /\ refreshing = FALSE
    /\ stage = [x \in Probers |-> "idle"]
    /\ skip = [x \in Probers |-> NoPort]
    /\ found = [x \in Probers |-> NothingFound]
    /\ need = [x \in Probers |-> {}]
    /\ opened = need /\ clashed = need /\ ready = need
    /\ modems = [openAT |-> FirstPort, nodes |-> present,
                 ready |-> present \cap ATPorts, seen |-> 0]
    /\ listAge = 0
    /\ probeCache = [p \in Ports |-> "none"]
    /\ probeAge = [p \in Ports |-> 0]
    /\ changes = 0
    /\ misread = {}

-----------------------------------------------------------------------------
\* Probes

(***************************************************************************)
(* The first part of ListModems and DiscoverATPort, up to the goroutines of *)
(* ProbeATPortsCached: the nodes there are, those known from the cache, and *)
(* those to open.  The skipped port is taken for answering.                *)
(***************************************************************************)
Opens(nodes, own) == {p \in nodes \ {own} : probeCache[p] = "none"}

StartProbing(x, own) ==
    /\ stage[x] = "idle"
    /\ stage' = [stage EXCEPT ![x] = "probing"]
    /\ skip' = [skip EXCEPT ![x] = own]
    /\ found' = [found EXCEPT ![x] = [nodes |-> present, seen |-> changes]]
    /\ need' = [need EXCEPT ![x] = Opens(present, own)]
    /\ ready' = [ready EXCEPT ![x] =
          {p \in present : p = own \/ (p \notin Opens(present, own) /\ probeCache[p] = "ok")}]
    /\ UNCHANGED <<opened, clashed>>

\* Whoever has the port open may suffer from the next user.
Spoil(p) == [y \in Probers |-> IF p \in opened[y] THEN clashed[y] \cup {p} ELSE clashed[y]]

InUse(p) == (held /\ openAT = p) \/ \E x \in Probers : p \in opened[x]

ProbeOpen(x, p) ==
    /\ stage[x] = "probing"
    /\ p \in need[x]
    /\ need' = [need EXCEPT ![x] = @ \ {p}]
    /\ opened' = [opened EXCEPT ![x] = @ \cup {p}]
    /\ clashed' = IF InUse(p) THEN [Spoil(p) EXCEPT ![x] = @ \cup {p}] ELSE clashed
    /\ UNCHANGED <<present, service, stage, skip, found, ready, inventory, cache,
                   changes, misread>>

\* Mutant: a result is kept for ever.
ProbeLife_Forever(age) == 0

ProbeLife(age) == age + 1

\* ProbeATPort returns: the result goes to the cache and to the caller.
ProbeEnd(x, p) ==
    /\ p \in opened[x]
    /\ opened' = [opened EXCEPT ![x] = @ \ {p}]
    /\ clashed' = [clashed EXCEPT ![x] = @ \ {p}]
    /\ \E ok \in BOOLEAN :
          /\ ok => p \in present \cap ATPorts
          /\ ~ok => p \notin present \cap ATPorts \/ p \in clashed[x]
          /\ misread' = IF ok \/ p \notin present \cap ATPorts THEN misread \ {p}
                        ELSE misread \cup {p}
          /\ probeCache' = [probeCache EXCEPT ![p] = IF ok THEN "ok" ELSE "not"]
          /\ ready' = [ready EXCEPT ![x] = IF ok THEN @ \cup {p} ELSE @ \ {p}]
    /\ probeAge' = [probeAge EXCEPT ![p] = 0]
    /\ UNCHANGED <<present, service, stage, skip, found, need, inventory, changes>>

\* Mutant: the goroutines are not waited for.
Probed_Early(x) == stage[x] = "probing" /\ need[x] = {}

Probed(x) == stage[x] = "probing" /\ need[x] = {} /\ opened[x] = {}

Forget(x) ==
    /\ stage' = [stage EXCEPT ![x] = "idle"]
    /\ skip' = [skip EXCEPT ![x] = NoPort]
    /\ found' = [found EXCEPT ![x] = NothingFound]
    /\ ready' = [ready EXCEPT ![x] = {}]
    /\ UNCHANGED <<need, opened>>

-----------------------------------------------------------------------------
\* CachedInventory, primed before the service is made

\* buildInventoryLocked, under the service's mu but not its atMu
ReadOpenAT ==
    /\ reading = NoPort
    /\ reading' = openAT
    /\ UNCHANGED <<present, service, probers, refreshing, modems, listAge, cache,
                   changes, misread>>

Stale(own) == listAge > ListTTL \/ own # modems.openAT

\* Mutant: every stale read starts a refresh.
MayRefresh_Always == TRUE

MayRefresh == ~refreshing

(***************************************************************************)
(* The cached listing is the answer; a stale one starts a refresh unless   *)
(* one is running.                                                         *)
(***************************************************************************)
ListModems ==
    /\ reading # NoPort
    /\ reading' = NoPort
    /\ IF Stale(reading) /\ MayRefresh
       THEN /\ refreshing' = TRUE
            /\ \E x \in Slots :
                  /\ stage[x] = "idle"
                  /\ StartProbing(x, reading)
       ELSE UNCHANGED <<refreshing, probers>>
    /\ UNCHANGED <<present, service, modems, listAge, cache, changes, misread>>

\* Mutant: the listing is filed under the port that is open by now.
ListedFor_Now(x) == openAT

ListedFor(x) == skip[x]

\* Mutant: the flag is not cleared.
Released_Never == refreshing

Released == FALSE

\* The rest of ListModems and of refresh.
Refresh(x) ==
    /\ x \in Slots
    /\ Probed(x)
    /\ modems' = [openAT |-> ListedFor(x), nodes |-> found[x].nodes, ready |-> ready[x],
                  seen |-> found[x].seen]
    /\ listAge' = 0
    /\ refreshing' = Released
    /\ Forget(x)
    /\ UNCHANGED <<clashed, present, service, reading, cache, changes, misread>>

-----------------------------------------------------------------------------
\* The service's side of it

\* rediscoverAndReconnect, with the port closed
DiscoverATPort ==
    /\ ~held
    /\ StartProbing(Discovery, NoPort)
    /\ UNCHANGED <<present, service, inventory, cache, changes, misread>>

\* The first port that answers is bound; without one the name stays.
Discovered ==
    /\ Probed(Discovery)
    /\ \/ /\ ready[Discovery] = {}
          /\ UNCHANGED <<service, clashed>>
       \/ \E p \in ready[Discovery] :
             /\ openAT' = p
             /\ held' = (p \in present)
             /\ clashed' = IF p \in present THEN Spoil(p) ELSE clashed
    /\ Forget(Discovery)
    /\ UNCHANGED <<present, inventory, cache, changes, misread>>

Change == changes < MaxChanges /\ changes' = changes + 1

\* SelectModem binds another port, under atMu: not while Discovery runs.
SelectBind(p) ==
    /\ stage[Discovery] = "idle"
    /\ p \in present
    /\ p # openAT \/ ~held
    /\ openAT' = p
    /\ held' = TRUE
    /\ clashed' = Spoil(p)
    /\ Change
    /\ UNCHANGED <<present, stage, skip, found, need, opened, ready, inventory, cache,
                   misread>>

\* A read or write of the open port fails: the client closes it.
PortError ==
    /\ held
    /\ held' = FALSE
    /\ Change
    /\ UNCHANGED <<present, openAT, probers, inventory, cache, misread>>

Replug(p) ==
    /\ present' = IF p \in present THEN present \ {p} ELSE present \cup {p}
    /\ held' = (held /\ openAT \in present')
    /\ Change
    /\ UNCHANGED <<openAT, probers, inventory, cache, misread>>

Tick ==
    /\ listAge <= ListTTL \/ \E p \in Ports : probeCache[p] # "none"
    /\ listAge' = IF listAge > ListTTL THEN listAge ELSE listAge + 1
    /\ probeAge' = [p \in Ports |->
          IF probeCache[p] = "none" \/ ProbeLife(probeAge[p]) >= ProbeTTL THEN 0
          ELSE ProbeLife(probeAge[p])]
    /\ probeCache' = [p \in Ports |->
          IF ProbeLife(probeAge[p]) >= ProbeTTL THEN "none" ELSE probeCache[p]]
    /\ misread' = {p \in misread : probeCache'[p] # "none"}
    /\ UNCHANGED <<present, service, probers, reading, refreshing, modems, changes>>

Next ==
    \/ \E x \in Probers, p \in Ports : ProbeOpen(x, p) \/ ProbeEnd(x, p)
    \/ ReadOpenAT \/ ListModems
    \/ \E x \in Slots : Refresh(x)
    \/ DiscoverATPort \/ Discovered
    \/ \E p \in Ports : SelectBind(p) \/ Replug(p)
    \/ PortError
    \/ Tick

Spec == Init /\ [][Next]_vars

(***************************************************************************)
(* Time passes, goroutines run, the poller rediscovers a lost port and the *)
(* page keeps asking for the inventory.                                    *)
(***************************************************************************)
Fairness ==
    /\ WF_vars(Tick)
    /\ WF_vars(ReadOpenAT) /\ WF_vars(ListModems)
    /\ WF_vars(DiscoverATPort) /\ WF_vars(Discovered)
    /\ \A x \in Slots : WF_vars(Refresh(x))
    /\ \A x \in Probers, p \in Ports :
          WF_vars(ProbeOpen(x, p)) /\ WF_vars(ProbeEnd(x, p))

FairSpec == Spec /\ Fairness

-----------------------------------------------------------------------------
\* Properties

\* A listing never replaces one made from a later look at the ports.
ListingMovesForward == [][modems'.seen >= modems.seen]_modems

(***************************************************************************)
(* The service's own port is listed as answering by a listing made for it: *)
(* it is not tried, and a listing made for another port is not taken for   *)
(* one made for it.                                                        *)
(***************************************************************************)
OwnPortReady ==
    modems.openAT \in modems.nodes => modems.openAT \in modems.ready

(***************************************************************************)
(* Once the ports stay as they are and no probe is spoilt by another user  *)
(* of its port, the listing becomes true: it is made for the service's     *)
(* port, has the nodes there are, and tells which answer.                  *)
(***************************************************************************)
Listed ==
    /\ modems.openAT = openAT
    /\ modems.nodes = present
    /\ modems.ready = present \cap (ATPorts \cup {openAT})

CatchesUp == <>[](misread = {}) => <>[]Listed

(***************************************************************************)
(* A service without its port binds one again if one answers, although its *)
(* rediscovery may be told by the cache that it does not: also only if not  *)
(* every probe of it is spoilt.                                            *)
(***************************************************************************)
Finds == <>[](misread = {}) => <>[](held \/ present \cap ATPorts = {})

=============================================================================

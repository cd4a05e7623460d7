----------------------- MODULE DeviceInventoryProofs -----------------------
(***************************************************************************)
(* Proofs about DeviceInventory, for any ports, number of goroutines, times *)
(* to live and number of changes.                                          *)
(***************************************************************************)
EXTENDS DeviceInventory, TLAPS

-----------------------------------------------------------------------------
(***************************************************************************)
(* The inductive invariant.  A prober that is idle has nothing to open and *)
(* nothing open; a refresh knows the port it was started for, does not     *)
(* open it and has it among the answering ones; refreshes run one by one,   *)
(* each started from a look at the ports no older than the listing.        *)
(***************************************************************************)
Idle ==
    \A x \in Probers : stage[x] = "idle" => need[x] = {} /\ opened[x] = {}

Own ==
    \A x \in Slots : stage[x] = "probing" =>
        /\ skip[x] \in Ports
        /\ skip[x] \notin need[x] \cup opened[x]
        /\ skip[x] \in found[x].nodes => skip[x] \in ready[x]

OneRefresh ==
    /\ \A x \in Slots : stage[x] = "probing" => refreshing
    /\ \A x, y \in Slots : stage[x] = "probing" /\ stage[y] = "probing" => x = y

Order ==
    /\ modems.seen <= changes
    /\ \A x \in Slots : stage[x] = "probing" =>
          modems.seen <= found[x].seen /\ found[x].seen <= changes

IInv == TypeOK /\ Idle /\ Own /\ OwnPortReady /\ OneRefresh /\ Order

LEMMA SlotsAreProbers == /\ \A x \in Slots : x \in Probers /\ x # Discovery
                         /\ Discovery \in Probers
  BY PortsAssumption DEF Probers

\* The nodes to open are there, and the skipped one is not among them.
LEMMA OpensWhat ==
  ASSUME NEW nodes, NEW own
  PROVE  Opens(nodes, own) \subseteq nodes /\ own \notin Opens(nodes, own)
  BY DEF Opens

LEMMA SpoilTypes ==
  ASSUME TypeOK, NEW p \in Ports
  PROVE  /\ Spoil(p) \in [Probers -> SUBSET Ports]
         /\ \A y \in Probers : Spoil(p)[y] \subseteq opened[y]
  BY DEF Spoil, TypeOK

LEMMA InvInit == Init => IInv
<1> SUFFICES ASSUME Init PROVE IInv
  OBVIOUS
<1> USE PortsAssumption, BoundsAssumption DEF Init
<1>1. /\ NothingFound \in [nodes : SUBSET Ports, seen : 0..MaxChanges]
      /\ need = [x \in Probers |-> {}] /\ opened = need /\ clashed = need /\ ready = need
  BY DEF NothingFound
<1>2. modems \in Listings /\ modems.openAT \in modems.ready /\ modems.seen = 0
  BY DEF Listings
<1>3. TypeOK
  <2>1. /\ found \in [Probers -> [nodes : SUBSET Ports, seen : 0..MaxChanges]]
        /\ \A listed \in {need, opened, clashed, ready} :
              /\ listed \in [Probers -> SUBSET Ports]
              /\ \A x \in Probers : listed[x] \subseteq found[x].nodes
        /\ \A x \in Probers : clashed[x] \subseteq opened[x]
    <3>1. found \in [Probers -> [nodes : SUBSET Ports, seen : 0..MaxChanges]]
      BY <1>1
    <3>2. ASSUME NEW listed \in {need, opened, clashed, ready}
          PROVE  /\ listed \in [Probers -> SUBSET Ports]
                 /\ \A x \in Probers : listed[x] \subseteq found[x].nodes
      <4>1. listed = [x \in Probers |-> {}]
        BY <1>1
      <4> QED BY <4>1
    <3>3. \A x \in Probers : clashed[x] \subseteq opened[x]
      BY <1>1
    <3> QED BY <3>1, <3>2, <3>3
  <2>2. held \in BOOLEAN /\ refreshing \in BOOLEAN
    BY Zenon
  <2>3. /\ present \subseteq Ports /\ openAT \in Ports
        /\ reading \in Ports \cup {NoPort}
        /\ stage \in [Probers -> {"idle", "probing"}]
        /\ skip \in [Probers -> Ports \cup {NoPort}]
        /\ listAge \in 0..(ListTTL + 1)
        /\ probeCache \in [Ports -> {"none", "ok", "not"}]
        /\ probeAge \in [Ports -> 0..ProbeTTL]
        /\ changes \in 0..MaxChanges /\ misread \subseteq Ports
    OBVIOUS
  <2> QED BY <1>2, <2>1, <2>2, <2>3 DEF TypeOK
<1>4. Idle /\ Own /\ OneRefresh
  BY <1>1, SlotsAreProbers DEF Idle, Own, OneRefresh
<1>5. OwnPortReady /\ Order
  BY <1>2, SlotsAreProbers DEF OwnPortReady, Order
<1> QED BY <1>3, <1>4, <1>5 DEF IInv

-----------------------------------------------------------------------------
(***************************************************************************)
(* The parts common to several actions.                                    *)
(***************************************************************************)
Probing == /\ stage \in [Probers -> {"idle", "probing"}]
           /\ skip \in [Probers -> Ports \cup {NoPort}]
           /\ found \in [Probers -> [nodes : SUBSET Ports, seen : 0..MaxChanges]]
           /\ \A listed \in {need, opened, clashed, ready} :
                 /\ listed \in [Probers -> SUBSET Ports]
                 /\ \A x \in Probers : listed[x] \subseteq found[x].nodes
           /\ \A x \in Probers : clashed[x] \subseteq opened[x]

LEMMA StartProbingTypes ==
  ASSUME IInv, NEW x \in Probers, NEW own \in Ports \cup {NoPort}, StartProbing(x, own)
  PROVE  /\ Probing' /\ Idle'
         /\ stage' = [stage EXCEPT ![x] = "probing"]
         /\ \A y \in Probers \ {x} : skip'[y] = skip[y] /\ found'[y] = found[y]
                                    /\ need'[y] = need[y] /\ ready'[y] = ready[y]
         /\ skip'[x] = own /\ found'[x].seen = changes
         /\ own \notin need'[x] \cup opened'[x]
         /\ own \in found'[x].nodes => own \in ready'[x]
         /\ opened' = opened
<1> DEFINE listing == [nodes |-> present, seen |-> changes]
           answering == {p \in present :
                           p = own \/ (p \notin Opens(present, own) /\ probeCache[p] = "ok")}
<1>1. /\ listing \in [nodes : SUBSET Ports, seen : 0..MaxChanges]
      /\ listing.nodes = present /\ listing.seen = changes
  BY DEF IInv, TypeOK
<1>2. /\ Opens(present, own) \subseteq present /\ own \notin Opens(present, own)
      /\ answering \subseteq present /\ (own \in present => own \in answering)
  BY OpensWhat
<1>3. opened[x] = {} /\ clashed[x] = {} /\ stage[x] = "idle"
  BY DEF IInv, TypeOK, Idle, StartProbing
<1>4. /\ stage' = [stage EXCEPT ![x] = "probing"]
      /\ skip' = [skip EXCEPT ![x] = own]
      /\ found' = [found EXCEPT ![x] = listing]
      /\ need' = [need EXCEPT ![x] = Opens(present, own)]
      /\ ready' = [ready EXCEPT ![x] = answering]
      /\ UNCHANGED <<opened, clashed>>
  BY DEF StartProbing
<1> HIDE DEF listing, answering
<1>5. present \subseteq Ports
  BY DEF IInv, TypeOK
<1> QED BY <1>1, <1>2, <1>3, <1>4, <1>5 DEF IInv, TypeOK, Probing, Idle

LEMMA ForgetTypes ==
  ASSUME IInv, NEW x \in Probers, Probed(x), Forget(x),
         clashed' \in [Probers -> SUBSET Ports],
         \A y \in Probers : clashed'[y] \subseteq opened[y]
  PROVE  /\ Probing' /\ Idle'
         /\ stage' = [stage EXCEPT ![x] = "idle"]
         /\ \A y \in Probers \ {x} : skip'[y] = skip[y] /\ found'[y] = found[y]
                                    /\ ready'[y] = ready[y]
         /\ UNCHANGED <<need, opened>>
<1>1. /\ NothingFound \in [nodes : SUBSET Ports, seen : 0..MaxChanges]
      /\ NothingFound.nodes = {}
  BY BoundsAssumption DEF NothingFound
<1>2. need[x] = {} /\ opened[x] = {}
  BY DEF Probed
<1>3. /\ stage' = [stage EXCEPT ![x] = "idle"]
      /\ skip' = [skip EXCEPT ![x] = NoPort]
      /\ found' = [found EXCEPT ![x] = NothingFound]
      /\ ready' = [ready EXCEPT ![x] = {}]
      /\ UNCHANGED <<need, opened>>
  BY DEF Forget
<1>4. /\ stage \in [Probers -> {"idle", "probing"}]
      /\ skip \in [Probers -> Ports \cup {NoPort}]
      /\ found \in [Probers -> [nodes : SUBSET Ports, seen : 0..MaxChanges]]
      /\ need \in [Probers -> SUBSET Ports] /\ opened \in [Probers -> SUBSET Ports]
      /\ ready \in [Probers -> SUBSET Ports]
      /\ \A y \in Probers : /\ need[y] \subseteq found[y].nodes
                            /\ opened[y] \subseteq found[y].nodes
                            /\ ready[y] \subseteq found[y].nodes
      /\ Idle
  BY DEF IInv, TypeOK
<1>5. /\ stage' \in [Probers -> {"idle", "probing"}]
      /\ skip' \in [Probers -> Ports \cup {NoPort}]
      /\ found' \in [Probers -> [nodes : SUBSET Ports, seen : 0..MaxChanges]]
      /\ ready' \in [Probers -> SUBSET Ports]
      /\ \A y \in Probers \ {x} : skip'[y] = skip[y] /\ found'[y] = found[y]
                                 /\ ready'[y] = ready[y]
      /\ found'[x] = NothingFound /\ ready'[x] = {}
  BY <1>1, <1>3, <1>4
<1>6. \A y \in Probers : /\ need'[y] \subseteq found'[y].nodes
                         /\ opened'[y] \subseteq found'[y].nodes
                         /\ ready'[y] \subseteq found'[y].nodes
                         /\ clashed'[y] \subseteq opened'[y]
                         /\ clashed'[y] \subseteq found'[y].nodes
  BY <1>1, <1>2, <1>3, <1>4, <1>5
<1>7. Probing'
  BY <1>3, <1>4, <1>5, <1>6 DEF Probing
<1>8. Idle'
  BY <1>2, <1>3, <1>4 DEF Idle
<1> QED BY <1>3, <1>5, <1>7, <1>8

-----------------------------------------------------------------------------
(***************************************************************************)
(* An action that leaves the probers and the listing alone.                *)
(***************************************************************************)
LEMMA ProbersAlone ==
  ASSUME IInv, TypeOK', UNCHANGED <<stage, skip, found, need, opened, ready, modems>>,
         changes' >= changes, refreshing' = refreshing
  PROVE  IInv'
<1>1. changes \in Nat /\ changes' \in Nat
      /\ modems.seen \in Nat /\ \A x \in Slots : found[x].seen \in Nat
  BY SlotsAreProbers, BoundsAssumption DEF IInv, TypeOK, Listings
<1>2. Idle' /\ Own' /\ OwnPortReady' /\ OneRefresh'
  BY DEF IInv, Idle, Own, OwnPortReady, OneRefresh
<1>3. Order'
  BY <1>1 DEF IInv, Order
<1> QED BY <1>2, <1>3 DEF IInv

LEMMA InvNext == IInv /\ [Next]_vars => IInv'
<1> SUFFICES ASSUME IInv, [Next]_vars PROVE IInv'
  OBVIOUS
<1>0. TypeOK /\ Idle /\ Own /\ OwnPortReady /\ OneRefresh /\ Order
  BY DEF IInv
<1> USE BoundsAssumption DEF service, probers, inventory, cache, Change
<1>1. ASSUME NEW x \in Probers, NEW p \in Ports, ProbeOpen(x, p) PROVE IInv'
  <2>1. /\ p \in need[x] /\ stage[x] = "probing"
        /\ need' = [need EXCEPT ![x] = @ \ {p}]
        /\ opened' = [opened EXCEPT ![x] = @ \cup {p}]
        /\ clashed' = IF InUse(p) THEN [Spoil(p) EXCEPT ![x] = @ \cup {p}] ELSE clashed
        /\ UNCHANGED <<present, openAT, held, stage, skip, found, ready, reading,
                       refreshing, modems, listAge, probeCache, probeAge, changes,
                       misread>>
    BY <1>1 DEF ProbeOpen
  <2>2. /\ clashed' \in [Probers -> SUBSET Ports]
        /\ \A y \in Probers : clashed'[y] \subseteq opened'[y]
    BY <1>0, <2>1, SpoilTypes DEF TypeOK
  <2>3. /\ need' \in [Probers -> SUBSET Ports] /\ opened' \in [Probers -> SUBSET Ports]
        /\ \A y \in Probers : /\ need'[y] \subseteq found[y].nodes
                              /\ opened'[y] \subseteq found[y].nodes
    BY <1>0, <2>1 DEF TypeOK
  <2>4. \A y \in Probers : clashed'[y] \subseteq found[y].nodes
    BY <2>2, <2>3
  <2>5. TypeOK'
    BY <1>0, <2>1, <2>2, <2>3, <2>4 DEF TypeOK
  <2>6. Idle' /\ Own'
    BY <1>0, <2>1, SlotsAreProbers DEF Idle, Own, TypeOK
  <2>7. OwnPortReady' /\ OneRefresh' /\ Order'
    BY <1>0, <2>1 DEF OwnPortReady, OneRefresh, Order
  <2> QED BY <2>5, <2>6, <2>7 DEF IInv
<1>2. ASSUME NEW x \in Probers, NEW p \in Ports, ProbeEnd(x, p) PROVE IInv'
  <2>1. PICK ok \in BOOLEAN :
          /\ p \in opened[x]
          /\ opened' = [opened EXCEPT ![x] = @ \ {p}]
          /\ clashed' = [clashed EXCEPT ![x] = @ \ {p}]
          /\ misread' = IF ok \/ p \notin present \cap ATPorts THEN misread \ {p}
                        ELSE misread \cup {p}
          /\ probeCache' = [probeCache EXCEPT ![p] = IF ok THEN "ok" ELSE "not"]
          /\ ready' = [ready EXCEPT ![x] = IF ok THEN @ \cup {p} ELSE @ \ {p}]
          /\ probeAge' = [probeAge EXCEPT ![p] = 0]
          /\ UNCHANGED <<present, openAT, held, stage, skip, found, need, reading,
                         refreshing, modems, listAge, changes>>
    BY <1>2 DEF ProbeEnd
  <2>2. /\ opened' \in [Probers -> SUBSET Ports] /\ clashed' \in [Probers -> SUBSET Ports]
        /\ ready' \in [Probers -> SUBSET Ports]
        /\ \A y \in Probers : /\ opened'[y] \subseteq found[y].nodes
                              /\ clashed'[y] \subseteq opened'[y]
                              /\ ready'[y] \subseteq found[y].nodes
    BY <1>0, <2>1 DEF TypeOK
  <2>3. misread' \subseteq Ports /\ probeCache' \in [Ports -> {"none", "ok", "not"}]
        /\ probeAge' \in [Ports -> 0..ProbeTTL]
    BY <1>0, <2>1 DEF TypeOK
  <2>4. \A y \in Probers : clashed'[y] \subseteq found[y].nodes
    BY <2>2
  <2>5. TypeOK'
    BY <1>0, <2>1, <2>2, <2>3, <2>4 DEF TypeOK
  <2>6. Idle' /\ Own'
    BY <1>0, <2>1, SlotsAreProbers DEF Idle, Own, TypeOK
  <2>7. OwnPortReady' /\ OneRefresh' /\ Order'
    BY <1>0, <2>1 DEF OwnPortReady, OneRefresh, Order
  <2> QED BY <2>5, <2>6, <2>7 DEF IInv
<1>3. CASE ReadOpenAT
  <2>1. TypeOK'
    BY <1>0, <1>3 DEF ReadOpenAT, TypeOK
  <2> QED BY <1>0, <1>3, <2>1, ProbersAlone DEF ReadOpenAT, TypeOK
<1>4. CASE ListModems
  <2>1. CASE Stale(reading) /\ MayRefresh
    <3>1. PICK x \in Slots : StartProbing(x, reading)
      BY <1>4, <2>1 DEF ListModems
    <3>2. /\ ~refreshing /\ refreshing' = TRUE
          /\ reading # NoPort /\ reading' = NoPort
          /\ UNCHANGED <<present, openAT, held, modems, listAge, probeCache, probeAge,
                         changes, misread>>
      BY <1>4, <2>1 DEF ListModems, MayRefresh
    <3>3. x \in Probers /\ reading \in Ports
      BY <1>0, <3>2, SlotsAreProbers DEF TypeOK
    <3>4. /\ Probing' /\ Idle'
          /\ stage' = [stage EXCEPT ![x] = "probing"]
          /\ skip'[x] = reading /\ found'[x].seen = changes
          /\ reading \notin need'[x] \cup opened'[x]
          /\ reading \in found'[x].nodes => reading \in ready'[x]
      BY <3>1, <3>3, StartProbingTypes
    <3>5. \A y \in Slots : y # x => stage'[y] # "probing"
      BY <1>0, <3>2, <3>3, <3>4, SlotsAreProbers DEF OneRefresh, TypeOK
    <3>6. TypeOK'
      BY <1>0, <3>2, <3>4 DEF TypeOK, Probing
    <3>7. Own' /\ OneRefresh'
      BY <3>2, <3>3, <3>4, <3>5 DEF Own, OneRefresh
    <3>8. modems.seen <= changes /\ changes <= changes
      BY <1>0 DEF Order, TypeOK
    <3>9. Order' /\ OwnPortReady'
      BY <1>0, <3>2, <3>4, <3>5, <3>8 DEF Order, OwnPortReady
    <3> QED BY <3>4, <3>6, <3>7, <3>9 DEF IInv
  <2>2. CASE ~(Stale(reading) /\ MayRefresh)
    <3>1. /\ reading' = NoPort
          /\ UNCHANGED <<present, openAT, held, refreshing, stage, skip, found, need,
                         opened, clashed, ready, modems, listAge, probeCache, probeAge,
                         changes, misread>>
      BY <1>4, <2>2 DEF ListModems
    <3>2. TypeOK'
      BY <1>0, <3>1 DEF TypeOK
    <3> QED BY <1>0, <3>1, <3>2, ProbersAlone DEF TypeOK
  <2> QED BY <2>1, <2>2
<1>5. ASSUME NEW x \in Slots, Refresh(x) PROVE IInv'
  <2>1. /\ Probed(x) /\ Forget(x)
        /\ modems' = [openAT |-> skip[x], nodes |-> found[x].nodes, ready |-> ready[x],
                      seen |-> found[x].seen]
        /\ listAge' = 0 /\ refreshing' = FALSE
        /\ UNCHANGED <<clashed, present, openAT, held, reading, probeCache, probeAge,
                       changes, misread>>
    BY <1>5 DEF Refresh, ListedFor, Released
  <2>2. x \in Probers /\ stage[x] = "probing"
    BY <2>1, SlotsAreProbers DEF Probed
  <2>3. /\ Probing' /\ Idle' /\ stage' = [stage EXCEPT ![x] = "idle"]
    BY <1>0, <2>1, <2>2, ForgetTypes DEF TypeOK
  <2>4. /\ skip[x] \in Ports /\ ready[x] \subseteq Ports
        /\ found[x] \in [nodes : SUBSET Ports, seen : 0..MaxChanges]
        /\ skip[x] \in found[x].nodes => skip[x] \in ready[x]
        /\ found[x].seen <= changes
    BY <1>0, <1>5, <2>2 DEF Own, Order, TypeOK
  <2>5. modems' \in Listings
    BY <2>1, <2>4 DEF Listings
  <2>6. TypeOK'
    <3>1. listAge' \in 0..(ListTTL + 1)
      BY <2>1
    <3>2. /\ refreshing' \in BOOLEAN
          /\ UNCHANGED <<present, openAT, held, reading, probeCache, probeAge, changes,
                         misread>>
      BY <2>1, Zenon
    <3> QED BY <1>0, <2>3, <2>5, <3>1, <3>2 DEF TypeOK, Probing
  <2>7. \A y \in Slots : stage'[y] # "probing"
    BY <1>0, <1>5, <2>2, <2>3, SlotsAreProbers DEF OneRefresh, TypeOK
  <2>8. Own' /\ OneRefresh' /\ Order' /\ OwnPortReady'
    BY <2>1, <2>4, <2>7 DEF Own, OneRefresh, Order, OwnPortReady
  <2> QED BY <2>3, <2>6, <2>8 DEF IInv
<1>6. CASE DiscoverATPort
  <2>1. /\ StartProbing(Discovery, NoPort)
        /\ UNCHANGED <<present, openAT, held, reading, refreshing, modems, listAge,
                       probeCache, probeAge, changes, misread>>
    BY <1>6 DEF DiscoverATPort
  <2>2. /\ Probing' /\ Idle' /\ opened' = opened
        /\ \A y \in Probers \ {Discovery} :
              skip'[y] = skip[y] /\ found'[y] = found[y] /\ need'[y] = need[y]
              /\ ready'[y] = ready[y]
        /\ stage' = [stage EXCEPT ![Discovery] = "probing"]
    BY <2>1, SlotsAreProbers, StartProbingTypes
  <2>3. TypeOK'
    BY <1>0, <2>1, <2>2 DEF TypeOK, Probing
  <2>4. \A y \in Slots : /\ stage'[y] = stage[y] /\ skip'[y] = skip[y]
                         /\ found'[y] = found[y] /\ need'[y] = need[y]
                         /\ opened'[y] = opened[y] /\ ready'[y] = ready[y]
    BY <1>0, <2>2, SlotsAreProbers DEF TypeOK
  <2>5. Own' /\ OneRefresh' /\ Order' /\ OwnPortReady'
    BY <1>0, <2>1, <2>4 DEF Own, OneRefresh, Order, OwnPortReady
  <2> QED BY <2>2, <2>3, <2>5 DEF IInv
<1>7. CASE Discovered
  <2>1. /\ Probed(Discovery) /\ Forget(Discovery)
        /\ openAT' \in Ports /\ held' \in BOOLEAN
        /\ clashed' \in [Probers -> SUBSET Ports]
        /\ \A y \in Probers : clashed'[y] \subseteq opened[y]
        /\ UNCHANGED <<present, reading, refreshing, modems, listAge, probeCache,
                       probeAge, changes, misread>>
    <3>1. \/ UNCHANGED <<openAT, held, clashed>>
          \/ \E p \in ready[Discovery] :
                /\ openAT' = p /\ held' = (p \in present)
                /\ clashed' = IF p \in present THEN Spoil(p) ELSE clashed
      BY <1>7 DEF Discovered
    <3>2. CASE UNCHANGED <<openAT, held, clashed>>
      BY <1>0, <1>7, <3>2 DEF Discovered, TypeOK
    <3>3. ASSUME NEW p \in ready[Discovery],
                 openAT' = p /\ held' = (p \in present),
                 clashed' = IF p \in present THEN Spoil(p) ELSE clashed
          PROVE  /\ openAT' \in Ports /\ held' \in BOOLEAN
                 /\ clashed' \in [Probers -> SUBSET Ports]
                 /\ \A y \in Probers : clashed'[y] \subseteq opened[y]
      <4>1. p \in Ports
        BY <1>0, SlotsAreProbers DEF TypeOK
      <4> QED BY <1>0, <3>3, <4>1, SpoilTypes DEF TypeOK
    <3> QED BY <1>7, <3>1, <3>2, <3>3 DEF Discovered
  <2>2. /\ Probing' /\ Idle' /\ UNCHANGED <<need, opened>>
        /\ stage' = [stage EXCEPT ![Discovery] = "idle"]
        /\ \A y \in Probers \ {Discovery} :
              skip'[y] = skip[y] /\ found'[y] = found[y] /\ ready'[y] = ready[y]
    BY <2>1, SlotsAreProbers, ForgetTypes
  <2>3. TypeOK'
    BY <1>0, <2>1, <2>2 DEF TypeOK, Probing
  <2>4. \A y \in Slots : /\ stage'[y] = stage[y] /\ skip'[y] = skip[y]
                         /\ found'[y] = found[y] /\ need'[y] = need[y]
                         /\ opened'[y] = opened[y] /\ ready'[y] = ready[y]
    BY <1>0, <2>2, SlotsAreProbers DEF TypeOK
  <2>5. Own' /\ OneRefresh' /\ Order' /\ OwnPortReady'
    BY <1>0, <2>1, <2>4 DEF Own, OneRefresh, Order, OwnPortReady
  <2> QED BY <2>2, <2>3, <2>5 DEF IInv
<1>8. ASSUME NEW p \in Ports, SelectBind(p) PROVE IInv'
  <2>1. TypeOK'
    <3>1. /\ clashed' \in [Probers -> SUBSET Ports]
          /\ \A y \in Probers : clashed'[y] \subseteq opened[y]
      BY <1>0, <1>8, SpoilTypes DEF SelectBind
    <3>2. \A y \in Probers : clashed'[y] \subseteq found[y].nodes
      BY <1>0, <3>1 DEF TypeOK
    <3> QED BY <1>0, <1>8, <3>1, <3>2 DEF SelectBind, TypeOK
  <2> QED BY <1>0, <1>8, <2>1, ProbersAlone DEF SelectBind, TypeOK
<1>9. ASSUME NEW p \in Ports, Replug(p) PROVE IInv'
  <2>1. TypeOK'
    <3>1. present' \subseteq Ports /\ held' \in BOOLEAN /\ changes' \in 0..MaxChanges
      BY <1>0, <1>9 DEF Replug, TypeOK
    <3>2. UNCHANGED <<openAT, stage, skip, found, need, opened, clashed, ready, reading,
                      refreshing, modems, listAge, probeCache, probeAge, misread>>
      BY <1>9 DEF Replug
    <3> QED BY <1>0, <3>1, <3>2 DEF TypeOK
  <2> QED BY <1>0, <1>9, <2>1, ProbersAlone DEF Replug, TypeOK
<1>10. CASE PortError
  <2>1. TypeOK'
    <3>1. changes' \in 0..MaxChanges
      BY <1>0, <1>10 DEF PortError, TypeOK
    <3>2. /\ held' \in BOOLEAN
          /\ UNCHANGED <<present, openAT, stage, skip, found, need, opened, clashed, ready,
                         reading, refreshing, modems, listAge, probeCache, probeAge,
                         misread>>
      BY <1>10, Zenon DEF PortError
    <3> QED BY <1>0, <3>1, <3>2 DEF TypeOK
  <2> QED BY <1>0, <1>10, <2>1, ProbersAlone DEF PortError, TypeOK
<1>11. CASE Tick
  <2>1. /\ listAge' \in 0..(ListTTL + 1)
        /\ probeAge' \in [Ports -> 0..ProbeTTL]
        /\ probeCache' \in [Ports -> {"none", "ok", "not"}]
        /\ misread' \subseteq Ports
    BY <1>0, <1>11 DEF Tick, TypeOK, ProbeLife
  <2>2. UNCHANGED <<present, openAT, held, stage, skip, found, need, opened, clashed,
                    ready, reading, refreshing, modems, changes>>
    BY <1>11 DEF Tick
  <2>3. TypeOK'
    BY <1>0, <2>1, <2>2 DEF TypeOK
  <2> QED BY <1>0, <2>2, <2>3, ProbersAlone DEF TypeOK
<1>12. CASE UNCHANGED vars
  <2>1. TypeOK'
    BY <1>0, <1>12 DEF vars, TypeOK
  <2> QED BY <1>0, <1>12, <2>1, ProbersAlone DEF vars, TypeOK
<1> QED
  BY <1>1, <1>2, <1>3, <1>4, <1>5, <1>6, <1>7, <1>8, <1>9, <1>10, <1>11, <1>12
     DEF Next

(***************************************************************************)
(* The types of the listing, the probes and their cache.                   *)
(***************************************************************************)
THEOREM TypeCorrect == Spec => []TypeOK
<1>1. IInv => TypeOK
  BY DEF IInv
<1> QED BY <1>1, InvInit, InvNext, PTL DEF Spec

(***************************************************************************)
(* The port in use is listed as answering by a listing made for it, for any *)
(* number of ports, requests and changes of the port.                      *)
(***************************************************************************)
THEOREM OwnPortReadyCorrect == Spec => []OwnPortReady
<1>1. IInv => OwnPortReady
  BY DEF IInv
<1> QED BY <1>1, InvInit, InvNext, PTL DEF Spec

(***************************************************************************)
(* A listing is never replaced by one from an earlier look at the ports.   *)
(***************************************************************************)
THEOREM ListingMovesForwardCorrect == Spec => ListingMovesForward
<1>1. ASSUME IInv, [Next]_vars PROVE [modems'.seen >= modems.seen]_modems
  <2>1. CASE modems' = modems
    BY <2>1
  <2>2. ASSUME NEW x \in Slots, Refresh(x) PROVE modems'.seen >= modems.seen
    <3>1. modems'.seen = found[x].seen /\ stage[x] = "probing"
      BY <2>2 DEF Refresh, Probed
    <3>2. modems.seen \in Nat /\ found[x].seen \in Nat
      BY <1>1, SlotsAreProbers, BoundsAssumption DEF IInv, TypeOK, Listings
    <3> QED BY <1>1, <3>1, <3>2 DEF IInv, Order
  <2>3. modems' = modems \/ \E x \in Slots : Refresh(x)
    BY <1>1 DEF Next, vars, inventory, ProbeOpen, ProbeEnd, ReadOpenAT, ListModems,
       DiscoverATPort, Discovered, SelectBind, Replug, PortError, Tick
  <2> QED BY <2>1, <2>2, <2>3
<1> QED BY <1>1, InvInit, InvNext, PTL DEF Spec, ListingMovesForward

=============================================================================

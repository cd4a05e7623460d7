------------------------- MODULE TieredCacheProofs -------------------------
(***************************************************************************)
(* Proofs about TieredCache, for any ports, modems, contexts, intervals and *)
(* number of failures.                                                     *)
(***************************************************************************)
EXTENDS TieredCache, TLAPS

USE DEF Outcomes, Commands, SessionStates, Sessions, NoSession, EmptyCache

-----------------------------------------------------------------------------
\* Facts about the helpers of a sample

\* The age of a tier stays within its interval, and grows by one below it.
LEMMA AgedBounded ==
  ASSUME NEW bound \in Nat, NEW age \in 0..bound
  PROVE  /\ Aged(age, bound) \in 0..bound
         /\ Aged(age, bound) # bound => Aged(age, bound) = age + 1
         /\ age = bound => Aged(age, bound) = bound
  BY DEF Aged

LEMMA ValuesAre == Values = {"operator", "apn", "imsi", "identity"}
  BY DEF Values, Source

\* A session that a response shows.
LEMMA SessionOfType ==
  ASSUME NEW cid \in Cids \cup {0}, NEW up \in BOOLEAN
  PROVE  SessionOf(cid, up) \in Sessions /\ SessionOf(cid, up).up = up
  BY DEF SessionOf

Caches == [apn : APNs \cup {Unknown, None},
           operator : Operators \cup {Unknown, None},
           pdp : Sessions,
           imsi : SIMs \cup {None},
           identity : Devices \cup {None}]

\* Showing another session changes nothing else in the cache.
LEMMA ShowSession ==
  ASSUME NEW c \in Caches, NEW p \in Sessions
  PROVE  /\ [c EXCEPT !.pdp = p] \in Caches
         /\ [c EXCEPT !.pdp = p].pdp = p
         /\ [c EXCEPT !.pdp = p].imsi = c.imsi
         /\ [c EXCEPT !.pdp = p].identity = c.identity
  BY Zenon DEF Caches

(***************************************************************************)
(* The slow tier touches the APN, the SIM and the identity only, and takes *)
(* each from the modem when its own command gives it.                      *)
(***************************************************************************)
LEMMA RefreshSlowReads ==
  ASSUME TypeOK, NEW c \in Caches, NEW outcome \in [Commands -> Outcomes]
  PROVE  /\ RefreshSlow(c, outcome) \in Caches
         /\ RefreshSlow(c, outcome).pdp = c.pdp
         /\ RefreshSlow(c, outcome).operator = c.operator
         /\ RefreshSlow(c, outcome).imsi \in {c.imsi, sim}
         /\ RefreshSlow(c, outcome).identity \in {c.identity, device}
         /\ outcome["CGDCONT"] = "ok" => RefreshSlow(c, outcome).apn = apn
         /\ outcome["CIMI"] = "ok" /\ sim # None =>
               RefreshSlow(c, outcome).imsi = sim
         /\ outcome["CGSN"] = "ok" => RefreshSlow(c, outcome).identity = device
  BY DEF RefreshSlow, Caches, TypeOK

(***************************************************************************)
(* The medium tier touches the operator and the session only, and shows    *)
(* the default context as it is when the modem answers.                    *)
(***************************************************************************)
LEMMA RefreshMediumReads ==
  ASSUME TypeOK, NEW c \in Caches, NEW outcome \in [Commands -> Outcomes]
  PROVE  /\ RefreshMedium(c, outcome) \in Caches
         /\ RefreshMedium(c, outcome).apn = c.apn
         /\ RefreshMedium(c, outcome).imsi = c.imsi
         /\ RefreshMedium(c, outcome).identity = c.identity
         /\ outcome["CGPADDR"] = "ok" =>
               RefreshMedium(c, outcome).pdp.up = (session[DefaultCID] = "addressed")
  BY CidsAssumption DEF RefreshMedium, SessionOf, Caches, TypeOK

-----------------------------------------------------------------------------
(***************************************************************************)
(* Type correctness.                                                       *)
(***************************************************************************)
LEMMA TypeInit == Init => TypeOK
  BY FirstAssumption, BoundsAssumption DEF Init, TypeOK, SessionOf

LEMMA SampleTypes ==
  ASSUME TypeOK, NEW outcome \in [Commands -> Outcomes], GetFullStatus(outcome)
  PROVE  /\ cache' \in Caches
         /\ mediumAge' \in 0..MediumPolls /\ operatorAge' \in 0..MediumPolls
         /\ slowAge' \in 0..SlowPolls /\ apnAge' \in 0..SlowPolls
         /\ excused' \subseteq Values
         /\ owed' = {}
         /\ UNCHANGED <<port, modem, events>>
<1> DEFINE medium == Aged(mediumAge, MediumPolls)
           slow == Aged(slowAge, SlowPolls)
           afterSlow == IF SlowDue(slow) THEN RefreshSlow(cache, outcome) ELSE cache
           due == (IF MediumDue(medium) THEN {"operator"} ELSE {})
                  \cup (IF SlowDue(slow) THEN Values \ {"operator"} ELSE {})
           taken == {v \in due :
                       outcome[Source[v]] = "ok" /\ Given[v] \notin {None, Unknown}}
<1>1. /\ medium \in 0..MediumPolls /\ Aged(operatorAge, MediumPolls) \in 0..MediumPolls
      /\ slow \in 0..SlowPolls /\ Aged(apnAge, SlowPolls) \in 0..SlowPolls
  BY AgedBounded, BoundsAssumption DEF TypeOK
<1>2. cache \in Caches
  BY DEF TypeOK, Caches
<1>3. afterSlow \in Caches
  BY <1>2, RefreshSlowReads
<1>4. cache' = IF MediumDue(medium) THEN RefreshMedium(afterSlow, outcome) ELSE afterSlow
  BY DEF GetFullStatus
<1>5. cache' \in Caches
  BY <1>3, <1>4, RefreshMediumReads
<1>6. due \subseteq Values
  BY ValuesAre
<1>7. /\ mediumAge' = IF MediumDue(medium) THEN 0 ELSE medium
      /\ slowAge' = IF SlowDue(slow) THEN 0 ELSE slow
      /\ operatorAge' = IF "operator" \in taken THEN 0 ELSE Aged(operatorAge, MediumPolls)
      /\ apnAge' = IF "apn" \in taken THEN 0 ELSE Aged(apnAge, SlowPolls)
      /\ excused' = (excused \ taken) \cup ((due \ taken) \cap {"operator", "apn"})
      /\ owed' = {}
      /\ UNCHANGED <<port, modem, events>>
  BY DEF GetFullStatus
<1> HIDE DEF medium, slow, due, taken
<1>8. excused' \subseteq Values
  BY <1>6, <1>7 DEF TypeOK
<1> QED BY <1>1, <1>5, <1>7, <1>8, BoundsAssumption

LEMMA TypeNext == TypeOK /\ [Next]_vars => TypeOK'
<1> SUFFICES ASSUME TypeOK, [Next]_vars PROVE TypeOK'
  OBVIOUS
<1> USE BoundsAssumption, ValuesAre DEF TypeOK, Event, modem, tiers, history, Aged
<1>1. CASE AnsweredSample
  <2>1. Answered \in [Commands -> Outcomes]
    BY DEF Answered
  <2> QED BY <1>1, <2>1, SampleTypes DEF AnsweredSample, Caches
<1>2. CASE DisturbedSample
  BY <1>2, SampleTypes DEF DisturbedSample, Replies, Caches
<1>3. CASE FailedSample
  BY <1>3 DEF FailedSample
<1>4. ASSUME NEW name \in Ports, SetPortName(name) PROVE TypeOK'
  BY <1>4 DEF SetPortName, FreshModem, ResetPollCache, SessionOf
<1>5. CASE SetUSBMode
  BY <1>5 DEF SetUSBMode, FreshModem, ResetPollCache, SessionOf
<1>6. ASSUME NEW value \in APNs, SetAPN(value) PROVE TypeOK'
  BY <1>6 DEF SetAPN
<1>7. ASSUME NEW value \in APNs, SetAPNUnconfirmed(value) PROVE TypeOK'
  BY <1>7 DEF SetAPNUnconfirmed
<1>8. ASSUME NEW cid \in Cids, ActivatePDP(cid) PROVE TypeOK'
  <2> DEFINE activated == [session EXCEPT ![cid] = IF @ = "down" THEN "active" ELSE @]
             shown == SessionOf(cid, activated[cid] = "addressed")
  <2>1. activated \in [Cids -> SessionStates]
    OBVIOUS
  <2>2. shown \in Sessions
    <3>1. (activated[cid] = "addressed") \in BOOLEAN
      OBVIOUS
    <3> QED BY <3>1, SessionOfType
  <2>3. /\ session' = activated
        /\ cache' \in {cache, [cache EXCEPT !.pdp = shown]}
        /\ mediumAge' \in {0, MediumPolls}
        /\ excused' \in {excused, excused \cup {"operator"}}
        /\ owed' \in {owed \cup {"pdp"}, owed \ {"pdp"}}
        /\ UNCHANGED <<port, device, sim, apn, operator, slowAge, failures, operatorAge,
                       apnAge>>
        /\ events > 0 /\ events' = events - 1
    BY <1>8, Zenon DEF ActivatePDP
  <2> HIDE DEF activated, shown
  <2>4. cache' \in Caches
    <3>1. cache \in Caches
      BY DEF Caches
    <3>2. [cache EXCEPT !.pdp = shown] \in Caches
      BY <2>2, <3>1, ShowSession, Zenon
    <3>3. cache' = cache \/ cache' = [cache EXCEPT !.pdp = shown]
      BY <2>3
    <3> QED BY <3>1, <3>2, <3>3, Zenon
  <2>5. /\ mediumAge' \in 0..MediumPolls /\ events' \in 0..MaxEvents
        /\ session' \in [Cids -> SessionStates]
        /\ excused' \subseteq Values /\ owed' \subseteq {"apn", "pdp"}
    BY <2>1, <2>3, SMT
  <2> QED BY <2>3, <2>4, <2>5, Zenon DEF Caches
<1>9. ASSUME NEW cid \in Cids, DeactivatePDP(cid) PROVE TypeOK'
  <2>1. SessionOf(cid, FALSE) \in Sessions
    BY SessionOfType
  <2>2. cache' \in Caches
    BY <1>9, <2>1, ShowSession, Zenon DEF DeactivatePDP, Caches
  <2>3. /\ mediumAge' \in 0..MediumPolls /\ events' \in 0..MaxEvents
        /\ session' \in [Cids -> SessionStates] /\ owed' \subseteq {"apn", "pdp"}
        /\ UNCHANGED <<port, device, sim, apn, operator, slowAge, failures, operatorAge,
                       apnAge, excused>>
    BY <1>9, SMT DEF DeactivatePDP
  <2> QED BY <2>2, <2>3, Zenon DEF Caches
<1>10. ASSUME NEW cid \in Cids, SessionChanges(cid) PROVE TypeOK'
  BY <1>10 DEF SessionChanges
<1>11. CASE Roam
  BY <1>11 DEF Roam
<1>12. CASE Replug
  BY <1>12 DEF Replug, FreshModem
<1>13. CASE UNCHANGED vars
  BY <1>13 DEF vars
<1> QED
  BY <1>1, <1>2, <1>3, <1>4, <1>5, <1>6, <1>7, <1>8, <1>9, <1>10, <1>11, <1>12,
     <1>13 DEF Next

(***************************************************************************)
(* The types of the cache, its stamps and the modem hold throughout.       *)
(***************************************************************************)
THEOREM TypeCorrect == Spec => []TypeOK
  BY TypeInit, TypeNext, PTL DEF Spec

-----------------------------------------------------------------------------
(***************************************************************************)
(* What a sample does to the ages, the identity and the values it owes.    *)
(***************************************************************************)
LEMMA SampleReads ==
  ASSUME TypeOK, NEW outcome \in [Commands -> Outcomes], GetFullStatus(outcome)
  PROVE  /\ IF Aged(mediumAge, MediumPolls) = MediumPolls
            THEN /\ mediumAge' = 0
                 /\ operatorAge' = 0 \/ "operator" \in excused'
                 /\ outcome["CGPADDR"] = "ok" =>
                       cache'.pdp.up = (session[DefaultCID] = "addressed")
            ELSE /\ mediumAge' = Aged(mediumAge, MediumPolls)
                 /\ operatorAge' = Aged(operatorAge, MediumPolls)
                 /\ "operator" \in excused => "operator" \in excused'
                 /\ cache'.pdp = cache.pdp
         /\ IF Aged(slowAge, SlowPolls) = SlowPolls
            THEN /\ slowAge' = 0
                 /\ apnAge' = 0 \/ "apn" \in excused'
                 /\ outcome["CGDCONT"] = "ok" => cache'.apn = apn
                 /\ \/ cache'.imsi = sim
                    \/ /\ cache'.imsi = cache.imsi
                       /\ "imsi" \in excused => "imsi" \in excused'
                 /\ \/ cache'.identity = device
                    \/ /\ cache'.identity = cache.identity
                       /\ "identity" \in excused => "identity" \in excused'
            ELSE /\ slowAge' = Aged(slowAge, SlowPolls)
                 /\ apnAge' = Aged(apnAge, SlowPolls)
                 /\ "apn" \in excused => "apn" \in excused'
                 /\ cache'.imsi = cache.imsi /\ cache'.identity = cache.identity
                 /\ "imsi" \in excused => "imsi" \in excused'
                 /\ "identity" \in excused => "identity" \in excused'
<1> DEFINE medium == Aged(mediumAge, MediumPolls)
           slow == Aged(slowAge, SlowPolls)
           afterSlow == IF SlowDue(slow) THEN RefreshSlow(cache, outcome) ELSE cache
           due == (IF MediumDue(medium) THEN {"operator"} ELSE {})
                  \cup (IF SlowDue(slow) THEN Values \ {"operator"} ELSE {})
           taken == {v \in due :
                       outcome[Source[v]] = "ok" /\ Given[v] \notin {None, Unknown}}
<1>1. cache \in Caches
  BY DEF TypeOK, Caches
<1>2. /\ afterSlow \in Caches
      /\ afterSlow.pdp = cache.pdp
      /\ ~SlowDue(slow) => afterSlow = cache
      /\ SlowDue(slow) =>
            /\ afterSlow.imsi \in {cache.imsi, sim}
            /\ afterSlow.identity \in {cache.identity, device}
            /\ outcome["CGDCONT"] = "ok" => afterSlow.apn = apn
            /\ outcome["CIMI"] = "ok" /\ sim # None => afterSlow.imsi = sim
            /\ outcome["CGSN"] = "ok" => afterSlow.identity = device
  BY <1>1, RefreshSlowReads
<1>3. cache' = IF MediumDue(medium) THEN RefreshMedium(afterSlow, outcome) ELSE afterSlow
  BY DEF GetFullStatus
<1>4. /\ cache'.apn = afterSlow.apn
      /\ cache'.imsi = afterSlow.imsi /\ cache'.identity = afterSlow.identity
      /\ ~MediumDue(medium) => cache'.pdp = cache.pdp
      /\ MediumDue(medium) /\ outcome["CGPADDR"] = "ok" =>
            cache'.pdp.up = (session[DefaultCID] = "addressed")
  <2>1. CASE MediumDue(medium)
    BY <1>2, <1>3, <2>1, RefreshMediumReads
  <2>2. CASE ~MediumDue(medium)
    BY <1>2, <1>3, <2>2
  <2> QED BY <2>1, <2>2
<1>5. /\ mediumAge' = IF MediumDue(medium) THEN 0 ELSE medium
      /\ slowAge' = IF SlowDue(slow) THEN 0 ELSE slow
      /\ operatorAge' = IF "operator" \in taken THEN 0 ELSE Aged(operatorAge, MediumPolls)
      /\ apnAge' = IF "apn" \in taken THEN 0 ELSE Aged(apnAge, SlowPolls)
      /\ excused' = (excused \ taken) \cup ((due \ taken) \cap {"operator", "apn"})
  BY DEF GetFullStatus
<1>6. /\ "operator" \in due <=> MediumDue(medium)
      /\ "apn" \in due <=> SlowDue(slow)
      /\ "imsi" \in due <=> SlowDue(slow)
      /\ "identity" \in due <=> SlowDue(slow)
  BY ValuesAre
<1>7. /\ taken \subseteq due
      /\ "imsi" \in taken => outcome["CIMI"] = "ok" /\ sim # None
      /\ "identity" \in taken => outcome["CGSN"] = "ok"
  BY DEF Source, Given
<1>8. (MediumDue(medium) <=> medium = MediumPolls) /\ (SlowDue(slow) <=> slow = SlowPolls)
  BY DEF MediumDue, SlowDue
<1> HIDE DEF due, taken, afterSlow
<1> QED BY <1>2, <1>4, <1>5, <1>6, <1>7, <1>8

-----------------------------------------------------------------------------
(***************************************************************************)
(* The identity shown.  The invariant needs only the types.                *)
(***************************************************************************)
IdentityInv == TypeOK /\ IdentityOfModem

LEMMA IdentityInit == Init => IdentityInv
  BY TypeInit DEF Init, IdentityInv, IdentityOfModem

LEMMA IdentityNext == IdentityInv /\ [Next]_vars => IdentityInv'
<1> SUFFICES ASSUME IdentityInv, [Next]_vars PROVE IdentityOfModem'
  BY TypeNext DEF IdentityInv
<1> USE DEF IdentityInv, IdentityOfModem, modem, tiers, history
<1>0. cache \in Caches
  BY DEF TypeOK, Caches
<1>1. ASSUME NEW outcome \in [Commands -> Outcomes], GetFullStatus(outcome)
      PROVE IdentityOfModem'
  BY <1>1, SampleReads, SampleTypes
<1>2. CASE AnsweredSample
  BY <1>1, <1>2 DEF AnsweredSample, Answered
<1>3. CASE DisturbedSample
  BY <1>1, <1>3 DEF DisturbedSample, Replies
<1>4. CASE FailedSample
  BY <1>4 DEF FailedSample
<1>5. ASSUME NEW name \in Ports, SetPortName(name) PROVE IdentityOfModem'
  BY <1>5 DEF SetPortName, ResetPollCache
<1>6. CASE SetUSBMode
  BY <1>6 DEF SetUSBMode, ResetPollCache
<1>7. ASSUME NEW value \in APNs, SetAPN(value) \/ SetAPNUnconfirmed(value)
      PROVE IdentityOfModem'
  BY <1>7 DEF SetAPN, SetAPNUnconfirmed
<1>8. ASSUME NEW cid \in Cids, NEW p \in Sessions,
             cache' \in {cache, [cache EXCEPT !.pdp = p]},
             device' = device, sim' = sim, excused \subseteq excused'
      PROVE IdentityOfModem'
  <2>1. /\ [cache EXCEPT !.pdp = p].imsi = cache.imsi
        /\ [cache EXCEPT !.pdp = p].identity = cache.identity
    BY <1>0, ShowSession, Zenon
  <2>2. cache'.imsi = cache.imsi /\ cache'.identity = cache.identity
    BY <1>8, <2>1, Zenon
  <2> QED BY <1>8, <2>2
<1>9. ASSUME NEW cid \in Cids, ActivatePDP(cid) PROVE IdentityOfModem'
  <2> DEFINE activated == [session EXCEPT ![cid] = IF @ = "down" THEN "active" ELSE @]
             shown == SessionOf(cid, activated[cid] = "addressed")
  <2>1. shown \in Sessions
    <3>1. (activated[cid] = "addressed") \in BOOLEAN
      OBVIOUS
    <3> QED BY <3>1, SessionOfType
  <2>2. /\ cache' \in {cache, [cache EXCEPT !.pdp = shown]}
        /\ device' = device /\ sim' = sim /\ excused \subseteq excused'
    BY <1>9, Zenon DEF ActivatePDP
  <2> HIDE DEF shown
  <2> QED BY <1>8, <2>1, <2>2
<1>10. ASSUME NEW cid \in Cids, DeactivatePDP(cid) PROVE IdentityOfModem'
  <2>1. SessionOf(cid, FALSE) \in Sessions
    BY SessionOfType
  <2>2. /\ cache' = [cache EXCEPT !.pdp = SessionOf(cid, FALSE)]
        /\ device' = device /\ sim' = sim /\ excused' = excused
    BY <1>10, Zenon DEF DeactivatePDP
  <2> QED BY <1>8, <2>1, <2>2, Zenon
<1>11. ASSUME NEW cid \in Cids, SessionChanges(cid) PROVE IdentityOfModem'
  BY <1>11 DEF SessionChanges
<1>12. CASE Roam
  BY <1>12 DEF Roam
<1>13. CASE Replug
  BY <1>13 DEF Replug
<1>14. CASE UNCHANGED vars
  BY <1>14 DEF vars
<1> QED
  BY <1>2, <1>3, <1>4, <1>5, <1>6, <1>7, <1>9, <1>10, <1>11, <1>12, <1>13, <1>14
     DEF Next

(***************************************************************************)
(* The SIM and the identity on show are those of the modem in use unless   *)
(* another one has taken its port name and has not given its own since,    *)
(* whatever the intervals and the failures.                                *)
(***************************************************************************)
THEOREM IdentityOfModemCorrect == Spec => []IdentityOfModem
<1>1. IdentityInv => IdentityOfModem
  BY DEF IdentityInv
<1> QED BY <1>1, IdentityInit, IdentityNext, PTL DEF Spec

-----------------------------------------------------------------------------
(***************************************************************************)
(* The age of the values.  Without an excuse a value is not older than the *)
(* stamp of its tier, and younger than the interval: a stamp moved forward *)
(* by an operation makes the next sample read, never skip.                 *)
(***************************************************************************)
AgesInv ==
    /\ TypeOK
    /\ "operator" \notin excused => operatorAge <= mediumAge /\ operatorAge < MediumPolls
    /\ "apn" \notin excused => apnAge <= slowAge /\ apnAge < SlowPolls

LEMMA AgesInit == Init => AgesInv
  BY TypeInit, BoundsAssumption DEF Init, AgesInv

LEMMA AgesNext == AgesInv /\ [Next]_vars => AgesInv'
<1> SUFFICES ASSUME AgesInv, [Next]_vars PROVE AgesInv'
  OBVIOUS
<1>0. TypeOK /\ TypeOK'
  BY TypeNext DEF AgesInv
<1> USE <1>0, BoundsAssumption DEF AgesInv, modem, tiers, history
<1>1. ASSUME NEW outcome \in [Commands -> Outcomes], GetFullStatus(outcome)
      PROVE AgesInv'
  <2>1. /\ mediumAge \in 0..MediumPolls /\ operatorAge \in 0..MediumPolls
        /\ slowAge \in 0..SlowPolls /\ apnAge \in 0..SlowPolls
    BY DEF TypeOK
  <2>2. "operator" \notin excused' =>
          operatorAge' <= mediumAge' /\ operatorAge' < MediumPolls
    BY <1>1, <2>1, SampleReads DEF Aged
  <2>3. "apn" \notin excused' => apnAge' <= slowAge' /\ apnAge' < SlowPolls
    BY <1>1, <2>1, SampleReads DEF Aged
  <2> QED BY <2>2, <2>3
<1>2. CASE AnsweredSample
  BY <1>1, <1>2 DEF AnsweredSample, Answered
<1>3. CASE DisturbedSample
  BY <1>1, <1>3 DEF DisturbedSample, Replies
<1>4. CASE FailedSample
  BY <1>4 DEF FailedSample
<1>5. ASSUME NEW name \in Ports, SetPortName(name) PROVE AgesInv'
  BY <1>5 DEF SetPortName, ResetPollCache
<1>6. CASE SetUSBMode
  BY <1>6 DEF SetUSBMode, ResetPollCache
<1>7. ASSUME NEW value \in APNs, SetAPN(value) \/ SetAPNUnconfirmed(value)
      PROVE AgesInv'
  BY <1>7 DEF SetAPN, SetAPNUnconfirmed, TypeOK
<1>8. ASSUME NEW cid \in Cids, ActivatePDP(cid) PROVE AgesInv'
  <2>1. /\ \/ mediumAge' = MediumPolls /\ excused' = excused
           \/ excused' = excused \cup {"operator"}
        /\ UNCHANGED <<slowAge, operatorAge, apnAge>>
    BY <1>8, Zenon DEF ActivatePDP
  <2> QED BY <2>1 DEF TypeOK
<1>9. ASSUME NEW cid \in Cids, DeactivatePDP(cid) PROVE AgesInv'
  BY <1>9 DEF DeactivatePDP, TypeOK
<1>10. ASSUME NEW cid \in Cids, SessionChanges(cid) PROVE AgesInv'
  BY <1>10 DEF SessionChanges
<1>11. CASE Roam
  BY <1>11 DEF Roam
<1>12. CASE Replug
  BY <1>12 DEF Replug
<1>13. CASE UNCHANGED vars
  BY <1>13 DEF vars
<1> QED
  BY <1>2, <1>3, <1>4, <1>5, <1>6, <1>7, <1>8, <1>9, <1>10, <1>11, <1>12, <1>13
     DEF Next

(***************************************************************************)
(* No operation lets a value grow older than its tier's interval, for any  *)
(* intervals, but for the three named exceptions.                          *)
(***************************************************************************)
THEOREM BoundedAgeCorrect == Spec => []BoundedAge
<1>1. AgesInv => BoundedAge
  BY DEF AgesInv, BoundedAge, TypeOK
<1> QED BY <1>1, AgesInit, AgesNext, PTL DEF Spec

-----------------------------------------------------------------------------
(***************************************************************************)
(* What a control operation has changed is either already in the cache or  *)
(* due at the next sample.                                                 *)
(***************************************************************************)
OwedInv ==
    /\ TypeOK
    /\ "apn" \in owed => slowAge = SlowPolls
    /\ "pdp" \in owed =>
          \/ mediumAge = MediumPolls
          \/ cache.pdp.up = (session[DefaultCID] = "addressed")

LEMMA OwedInit == Init => OwedInv
  BY TypeInit DEF Init, OwedInv

LEMMA OwedNext == OwedInv /\ [Next]_vars => OwedInv'
<1> SUFFICES ASSUME OwedInv, [Next]_vars PROVE OwedInv'
  OBVIOUS
<1>0. TypeOK /\ TypeOK'
  BY TypeNext DEF OwedInv
<1> USE <1>0, BoundsAssumption DEF OwedInv, modem, tiers, history
<1>1. ASSUME NEW outcome \in [Commands -> Outcomes], GetFullStatus(outcome)
      PROVE OwedInv'
  BY <1>1, SampleTypes
<1>2. CASE AnsweredSample
  BY <1>1, <1>2 DEF AnsweredSample, Answered
<1>3. CASE DisturbedSample
  BY <1>1, <1>3 DEF DisturbedSample, Replies
<1>4. CASE FailedSample
  BY <1>4 DEF FailedSample, Aged
<1>5. ASSUME NEW name \in Ports, SetPortName(name) PROVE OwedInv'
  BY <1>5 DEF SetPortName, ResetPollCache
<1>6. CASE SetUSBMode
  BY <1>6 DEF SetUSBMode, ResetPollCache
<1>7. ASSUME NEW value \in APNs, SetAPN(value) \/ SetAPNUnconfirmed(value)
      PROVE OwedInv'
  BY <1>7 DEF SetAPN, SetAPNUnconfirmed
<1>8. ASSUME NEW cid \in Cids, ActivatePDP(cid) PROVE OwedInv'
  <2> DEFINE activated == [session EXCEPT ![cid] = IF @ = "down" THEN "active" ELSE @]
             shown == SessionOf(cid, activated[cid] = "addressed")
  <2>1. /\ session' = activated
        /\ slowAge' = slowAge
        /\ \/ /\ cache' = [cache EXCEPT !.pdp = shown]
              /\ owed' = IF cid = DefaultCID /\ activated[cid] = "addressed"
                         THEN owed \cup {"pdp"} ELSE owed \ {"pdp"}
           \/ mediumAge' = MediumPolls /\ owed' = owed \cup {"pdp"}
    BY <1>8, Zenon DEF ActivatePDP
  <2>2. CASE mediumAge' = MediumPolls /\ owed' = owed \cup {"pdp"}
    BY <2>1, <2>2
  <2>3. CASE /\ cache' = [cache EXCEPT !.pdp = shown]
             /\ owed' = IF cid = DefaultCID /\ activated[cid] = "addressed"
                        THEN owed \cup {"pdp"} ELSE owed \ {"pdp"}
    <3>1. (activated[cid] = "addressed") \in BOOLEAN
      OBVIOUS
    <3>2. shown \in Sessions /\ shown.up = (activated[cid] = "addressed")
      BY <3>1, SessionOfType
    <3>3. cache \in Caches
      BY DEF TypeOK, Caches
    <3>4. cache'.pdp = shown
      BY <2>3, <3>2, <3>3, ShowSession, Zenon
    <3>5. "pdp" \in owed' => cid = DefaultCID
      BY <2>3
    <3>6. "apn" \in owed' => "apn" \in owed
      BY <2>3
    <3>7. "pdp" \in owed' => cache'.pdp.up = (session'[DefaultCID] = "addressed")
      BY <2>1, <3>2, <3>4, <3>5, Zenon
    <3> QED BY <2>1, <3>6, <3>7
  <2> QED BY <2>1, <2>2, <2>3
<1>9. ASSUME NEW cid \in Cids, DeactivatePDP(cid) PROVE OwedInv'
  BY <1>9 DEF DeactivatePDP
<1>10. ASSUME NEW cid \in Cids, SessionChanges(cid) PROVE OwedInv'
  BY <1>10 DEF SessionChanges
<1>11. CASE Roam
  BY <1>11 DEF Roam
<1>12. CASE Replug
  BY <1>12 DEF Replug
<1>13. CASE UNCHANGED vars
  BY <1>13 DEF vars
<1> QED
  BY <1>2, <1>3, <1>4, <1>5, <1>6, <1>7, <1>8, <1>9, <1>10, <1>11, <1>12, <1>13
     DEF Next

(***************************************************************************)
(* The first answered sample after a control operation shows its effect.   *)
(***************************************************************************)
THEOREM ControlShowsCorrect == Spec => ControlShows
<1> DEFINE Shows == AnsweredSample =>
              /\ "apn" \in owed => cache'.apn = apn
              /\ "pdp" \in owed => cache'.pdp.up = (session[DefaultCID] = "addressed")
<1>1. OwedInv => Shows
  <2> SUFFICES ASSUME OwedInv, AnsweredSample
               PROVE  /\ "apn" \in owed => cache'.apn = apn
                      /\ "pdp" \in owed =>
                            cache'.pdp.up = (session[DefaultCID] = "addressed")
    OBVIOUS
  <2>1. GetFullStatus(Answered) /\ Answered \in [Commands -> Outcomes]
    BY DEF AnsweredSample, Answered
  <2>2. Answered["CGDCONT"] = "ok" /\ Answered["CGPADDR"] = "ok"
    BY DEF Answered
  <2> QED BY <2>1, <2>2, SampleReads, BoundsAssumption DEF OwedInv, TypeOK, Aged
<1>2. OwedInv /\ [Next]_vars => [Shows]_vars
  BY <1>1
<1> QED BY <1>2, OwedInit, OwedNext, PTL DEF Spec, ControlShows

=============================================================================

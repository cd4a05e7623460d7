-------------------------- MODULE SMSServiceProofs --------------------------
(***************************************************************************)
(* Proofs about SMSService, for any number of requests, keys and           *)
(* notifications, any limit and window of the rate, any capacity of the    *)
(* queue, any number of deadlines that pass and of texts that read like    *)
(* answers.                                                                *)
(***************************************************************************)
EXTENDS SMSService, SequenceTheorems, FiniteSetTheorems, TLAPS

-----------------------------------------------------------------------------
\* Facts about the scripts and about sequences of what was written

LEMMA Scripts ==
  ASSUME NEW o \in AllOps
  PROVE  /\ Len(Script(o)) \in 1..5
         /\ \A i \in 1..Len(Script(o)) : Script(o)[i] \in Commands \ {"payload"}
         /\ o \notin SendOps => \A i \in 1..Len(Script(o)) : Script(o)[i] # "submit"
         /\ o \in SendOps =>
               /\ Len(Script(o)) = 5 /\ Script(o)[5] = "submit"
               /\ Script(o)[1] = "ping" /\ Script(o)[2] = "cnmi"
               /\ Script(o)[3] = IF o = "sendMulti" THEN "pdu" ELSE "text"
               /\ o = "sendGSM" => Script(o)[4] = "gsm"
               /\ o = "sendUCS2" => Script(o)[4] = "ucs2"
               /\ o = "sendMulti" => Script(o)[4] = "submit"
<1>1. CASE o = "sendGSM"
  BY <1>1 DEF Script, SendOps, Commands
<1>2. CASE o = "sendUCS2"
  BY <1>2 DEF Script, SendOps, Commands
<1>3. CASE o = "sendMulti"
  BY <1>3 DEF Script, SendOps, Commands
<1>4. CASE o \in {"list", "read"}
  BY <1>4 DEF Script, SendOps, Commands
<1>5. CASE o \in {"delete", "query"}
  BY <1>5 DEF Script, SendOps, Commands
<1> QED BY <1>1, <1>2, <1>3, <1>4, <1>5 DEF AllOps, SendOps

LEMMA MarkLateIs ==
  ASSUME NEW s \in Seq(Written)
  PROVE  /\ MarkLate(s) \in Seq(Written) /\ Len(MarkLate(s)) = Len(s)
         /\ \A i \in 1..Len(s) : /\ MarkLate(s)[i].command = s[i].command
                                 /\ MarkLate(s)[i].key = s[i].key
         /\ s = <<>> => MarkLate(s) = <<>>
<1> DEFINE t == MarkLate(s)
<1>1. \A i \in 1..Len(s) : s[i] \in Written
  OBVIOUS
<1>2. t = [i \in 1..Len(s) |-> [s[i] EXCEPT !.late = TRUE]]
  BY DEF MarkLate
<1>3. \A i \in 1..Len(s) : t[i] \in Written /\ t[i].command = s[i].command /\ t[i].key = s[i].key
  BY <1>1, <1>2 DEF Written
<1> HIDE DEF t
<1>4. t \in Seq(Written) /\ Len(t) = Len(s)
  BY <1>2, <1>3
<1>5. s = <<>> => t = <<>>
  BY <1>4
<1> QED BY <1>3, <1>4, <1>5 DEF t

LEMMA TailIs ==
  ASSUME NEW s \in Seq(Written), s # <<>>
  PROVE  /\ Len(s) >= 1 /\ Head(s) = s[1] /\ Head(s) \in Written
         /\ Tail(s) \in Seq(Written) /\ Len(Tail(s)) = Len(s) - 1
         /\ \A i \in 1..(Len(s) - 1) : Tail(s)[i] = s[i + 1]
  BY HeadTailProperties, LenProperties, EmptySeq

LEMMA AppendIs ==
  ASSUME NEW s \in Seq(Written), NEW w \in Written
  PROVE  /\ Append(s, w) \in Seq(Written) /\ Len(Append(s, w)) = Len(s) + 1
         /\ \A i \in 1..Len(s) : Append(s, w)[i] = s[i]
         /\ Append(s, w)[Len(s) + 1] = w
         /\ Append(s, w) # <<>>
  BY AppendProperties

-----------------------------------------------------------------------------
\* The texts that read like answers

ForgedOK == forged \in Seq(Lookalikes) /\ Len(forged) <= MaxLookalikes

LEMMA ReciteIs ==
  ASSUME ForgedOK, Recite
  PROVE  /\ ForgedOK' /\ forged' # <<>> /\ Range(forged) \subseteq Range(forged)'
         /\ todo # <<>> /\ Head(todo).command = "query" /\ ~prompting
         /\ UNCHANGED <<locals, atMu, guard, todo, arrived, modem, notifications, timeouts,
                        transmitted, excusedKeys, recent>>
         /\ \E kind \in Answers : Respond(Head(todo), kind) /\ kind \in Range(forged)'
<1>1. PICK kind \in Lookalikes : Respond(Head(todo), kind) /\ forged' = Append(forged, kind)
  BY DEF Recite
<1>2. PICK f \in Seq(Lookalikes) : f = forged
  BY DEF ForgedOK
<1>3. PICK g \in Seq(Lookalikes) : g = Append(f, kind)
  BY AppendProperties
<1>4. /\ Len(f) \in Nat /\ Len(g) = Len(f) + 1 /\ g[Len(f) + 1] = kind
      /\ \A i \in 1..Len(f) : g[i] = f[i]
      /\ DOMAIN g = 1..(Len(f) + 1) /\ DOMAIN f = 1..Len(f)
  BY <1>3, AppendProperties, LenProperties
<1>5. kind \in Range(g) /\ Range(f) \subseteq Range(g)
  BY <1>4 DEF Range
<1>6. Len(g) <= MaxLookalikes
  BY <1>2, <1>4, BoundsAssumption DEF Recite
<1>7. g # <<>>
  BY <1>4, EmptySeq
<1>8. kind \in Answers
  BY <1>1, RequestsAssumption
<1> QED BY <1>1, <1>2, <1>3, <1>5, <1>6, <1>7, <1>8 DEF Recite, ForgedOK

LEMMA SameForged ==
  ASSUME [Next]_vars, ~Recite
  PROVE  forged' = forged
<1>1. ASSUME NEW r \in Requests,
             \/ SendSMS(r) \/ OtherRequest(r) \/ AcquireAT(r) \/ Write(r) \/ Record(r)
             \/ Reopen(r) \/ ReadPlain(r) \/ ReadPrompt(r) \/ ReadPayload(r)
      PROVE  forged' = forged
  BY <1>1 DEF SendSMS, OtherRequest, AcquireAT, Write, Record, Reopen, ReadPlain,
              ReadPrompt, ReadPayload, history
<1>2. ASSUME NEW r \in Requests, TimeoutPlain(r) \/ TimeoutPrompt(r) \/ TimeoutPayload(r)
      PROVE  forged' = forged
  BY <1>2 DEF TimeoutPlain, TimeoutPrompt, TimeoutPayload, GiveUp
<1>3. ASSUME DrainSMSNotifications \/ Execute \/ URCArrives \/ Tick PROVE forged' = forged
  BY <1>3 DEF DrainSMSNotifications, Execute, URCArrives, Tick, history
<1>4. UNCHANGED vars => forged' = forged
  BY DEF vars, history
<1> QED BY <1>1, <1>2, <1>3, <1>4 DEF Next

\* What texts have read like stays on record.
LEMMA NextForged ==
  ForgedOK /\ [Next]_vars =>
      /\ ForgedOK' /\ Range(forged) \subseteq Range(forged)'
      /\ forged' = <<>> => forged = <<>>
<1> SUFFICES ASSUME ForgedOK, [Next]_vars
             PROVE  /\ ForgedOK' /\ Range(forged) \subseteq Range(forged)'
                    /\ forged' = <<>> => forged = <<>>
  OBVIOUS
<1>1. CASE Recite
  BY <1>1, ReciteIs
<1>2. CASE ~Recite
  BY <1>2, SameForged DEF ForgedOK
<1> QED BY <1>1, <1>2

-----------------------------------------------------------------------------
(***************************************************************************)
(* Where the requests are.  The one whose exchange is under way holds      *)
(* atMu; a key goes with a send, a text with a submission.                 *)
(***************************************************************************)
Stages == {"idle", "lock", "write", "read", "payload", "reopen", "record"}

Busy == {"write", "read", "payload", "reopen"}

Steps(o) == 1..Len(Script(o))

LocalsOK ==
    /\ pc \in [Requests -> Stages]
    /\ op \in [Requests -> AllOps]
    /\ key \in [Requests -> Keys \cup {NoKey}]
    /\ step \in [Requests -> 1..5]
    /\ repinged \in [Requests -> BOOLEAN]
    /\ atMu \in Requests \cup {NoProc}

Control ==
    /\ LocalsOK
    /\ \A r \in Requests :
         /\ pc[r] \in Busy <=> atMu = r
         /\ step[r] \in Steps(op[r])
         /\ pc[r] = "idle" => key[r] = NoKey
         /\ pc[r] \in {"idle", "lock"} => step[r] = 1
         /\ key[r] # NoKey => op[r] \in SendOps
         /\ pc[r] = "payload" => Command(r) = "submit"
         /\ pc[r] = "record" => key[r] # NoKey

\* What a step of r does to the requests.
Others(r) ==
    \A q \in Requests \ {r} :
       pc'[q] = pc[q] /\ op'[q] = op[q] /\ key'[q] = key[q] /\ step'[q] = step[q]

Returned(r) == pc'[r] = "idle" /\ op'[r] = "query" /\ key'[r] = NoKey /\ step'[r] = 1

Moved(r, stage) == pc'[r] = stage /\ op'[r] = op[r] /\ key'[r] = key[r] /\ step'[r] = step[r]

Advanced(r) == pc'[r] = "write" /\ op'[r] = op[r] /\ key'[r] = key[r] /\ step'[r] = step[r] + 1

LocalsTyped ==
    /\ pc \in [Requests -> Stages]
    /\ op \in [Requests -> AllOps]
    /\ key \in [Requests -> Keys \cup {NoKey}]
    /\ step \in [Requests -> 1..5]
    /\ repinged \in [Requests -> BOOLEAN]

LEMMA StepsIs ==
  ASSUME NEW o \in AllOps
  PROVE  /\ 1 \in Steps(o) /\ Steps(o) \subseteq 1..5
         /\ \A i \in Steps(o) : i # Len(Script(o)) => i + 1 \in Steps(o)
  BY Scripts DEF Steps

LEMMA ReturnIs ==
  ASSUME LocalsTyped, NEW r \in Requests, Return(r)
  PROVE  LocalsTyped' /\ Returned(r) /\ Others(r)
<1>1. "idle" \in Stages /\ "query" \in AllOps
  BY DEF Stages, AllOps
<1>2. LocalsTyped'
  BY <1>1 DEF LocalsTyped, Return
<1> QED BY <1>2 DEF LocalsTyped, Return, Returned, Others

LEMMA GotoIs ==
  ASSUME LocalsTyped, NEW r \in Requests, NEW stage \in Stages, Goto(r, stage)
  PROVE  LocalsTyped' /\ Moved(r, stage) /\ Others(r)
  BY DEF LocalsTyped, Goto, Moved, Others

\* The four ways in which an exchange can end.
Passed(r, ok) == ok \/ ~Checked(op[r], Command(r))

Proceeds(r, ok) ==
    \/ Advanced(r) /\ Passed(r, ok) /\ ~LastStep(r) /\ atMu' = atMu
    \/ /\ Moved(r, "reopen") /\ ~Passed(r, ok) /\ Command(r) = "ping" /\ atMu' = atMu
    \/ Moved(r, "record") /\ Passed(r, ok) /\ LastStep(r) /\ key[r] # NoKey /\ atMu' = NoProc
    \/ /\ Returned(r) /\ atMu' = NoProc
       /\ ~Passed(r, ok) \/ (LastStep(r) /\ key[r] = NoKey)

LEMMA ProceedIs ==
  ASSUME Control, NEW r \in Requests, NEW ok \in BOOLEAN, Proceed(r, ok)
  PROVE  /\ LocalsTyped' /\ Others(r) /\ Proceeds(r, ok)
         /\ todo' = MarkLate(todo) /\ answers' = {}
<1>0. LocalsTyped /\ {"write", "reopen", "record"} \subseteq Stages
  BY DEF Control, LocalsOK, LocalsTyped, Stages
<1>1. /\ todo' = MarkLate(todo) /\ answers' = {}
      /\ \/ /\ Passed(r, ok) /\ ~LastStep(r)
            /\ pc' = [pc EXCEPT ![r] = "write"]
            /\ step' = [step EXCEPT ![r] = @ + 1]
            /\ UNCHANGED <<op, key, repinged, atMu>>
         \/ /\ ~Passed(r, ok) /\ Command(r) = "ping"
            /\ Goto(r, "reopen") /\ UNCHANGED atMu
         \/ /\ Passed(r, ok) /\ LastStep(r) /\ key[r] # NoKey
            /\ Goto(r, "record") /\ atMu' = NoProc
         \/ /\ ~Passed(r, ok) \/ (LastStep(r) /\ key[r] = NoKey)
            /\ Return(r) /\ atMu' = NoProc
  BY Zenon DEF Proceed, Passed
<1>2. CASE /\ Passed(r, ok) /\ ~LastStep(r)
           /\ pc' = [pc EXCEPT ![r] = "write"]
           /\ step' = [step EXCEPT ![r] = @ + 1]
           /\ UNCHANGED <<op, key, repinged, atMu>>
  <2>1. step[r] + 1 \in 1..5
    <3>1. PICK o \in AllOps : o = op[r]
      BY DEF Control, LocalsOK
    <3>2. step[r] \in Steps(o) /\ step[r] # Len(Script(o))
      BY <1>2, <3>1 DEF Control, LastStep
    <3> QED BY <3>2, StepsIs
  <2>2. LocalsTyped' /\ Others(r) /\ Advanced(r)
    BY <1>0, <1>2, <2>1 DEF LocalsTyped, Others, Advanced
  <2> QED BY <1>1, <1>2, <2>2 DEF Proceeds
<1>3. CASE /\ ~Passed(r, ok) /\ Command(r) = "ping"
           /\ Goto(r, "reopen") /\ UNCHANGED atMu
  BY <1>0, <1>1, <1>3, GotoIs DEF Proceeds
<1>4. CASE /\ Passed(r, ok) /\ LastStep(r) /\ key[r] # NoKey
           /\ Goto(r, "record") /\ atMu' = NoProc
  BY <1>0, <1>1, <1>4, GotoIs DEF Proceeds
<1>5. CASE /\ ~Passed(r, ok) \/ (LastStep(r) /\ key[r] = NoKey)
           /\ Return(r) /\ atMu' = NoProc
  BY <1>0, <1>1, <1>5, ReturnIs DEF Proceeds
<1> QED BY <1>1, <1>2, <1>3, <1>4, <1>5

-----------------------------------------------------------------------------
\* Preservation of Control

\* The conjuncts of Control about one request.
ControlOf(r) ==
    /\ pc[r] \in Busy <=> atMu = r
    /\ step[r] \in Steps(op[r])
    /\ pc[r] = "idle" => key[r] = NoKey
    /\ pc[r] \in {"idle", "lock"} => step[r] = 1
    /\ key[r] # NoKey => op[r] \in SendOps
    /\ pc[r] = "payload" => Command(r) = "submit"
    /\ pc[r] = "record" => key[r] # NoKey

\* A step of r that keeps atMu, or that takes it from no one or gives it back,
\* leaves the others' conjuncts alone.
LEMMA OthersControl ==
  ASSUME Control, NEW r \in Requests, Others(r),
         \/ atMu' = atMu
         \/ atMu' = NoProc /\ atMu = r
         \/ atMu' = r /\ atMu = NoProc
  PROVE  \A q \in Requests \ {r} : ControlOf(q)'
  BY RequestsAssumption DEF Control, ControlOf, Others, Command

LEMMA ControlFrom ==
  ASSUME Control, NEW r \in Requests, LocalsTyped', Others(r), ControlOf(r)',
         \/ atMu' = atMu
         \/ atMu' = NoProc /\ atMu = r
         \/ atMu' = r /\ atMu = NoProc
  PROVE  Control'
<1>1. \A q \in Requests : ControlOf(q)'
  BY OthersControl
<1>2. LocalsOK'
  BY DEF LocalsTyped, LocalsOK, Control
<1> QED BY <1>1, <1>2 DEF Control, ControlOf

\* Where an exchange proceeds to.
LEMMA ProceedControl ==
  ASSUME Control, NEW r \in Requests, NEW ok \in BOOLEAN, pc[r] \in {"read", "payload"},
         Proceed(r, ok)
  PROVE  Control'
<1>1. LocalsTyped' /\ Others(r) /\ Proceeds(r, ok)
  BY ProceedIs
<1>2. ControlOf(r) /\ atMu = r
  BY DEF Control, ControlOf, Busy
<1>3. ~LastStep(r) => step[r] + 1 \in Steps(op[r])
  <2>1. PICK o \in AllOps : o = op[r]
    BY DEF Control, LocalsOK
  <2>2. step[r] \in Steps(o)
    BY <1>2, <2>1 DEF ControlOf
  <2>3. ~LastStep(r) => step[r] # Len(Script(o))
    BY <2>1 DEF LastStep
  <2> QED BY <2>1, <2>2, <2>3, StepsIs
<1>4. 1 \in Steps("query")
  BY StepsIs DEF AllOps
<1>5. ControlOf(r)' /\ (atMu' = atMu \/ atMu' = NoProc)
  <2>1. CASE Advanced(r) /\ ~LastStep(r) /\ atMu' = atMu
    BY <1>2, <1>3, <2>1 DEF ControlOf, Advanced, Busy, LastStep
  <2>2. CASE Moved(r, "reopen") /\ atMu' = atMu
    BY <1>2, <2>2 DEF ControlOf, Moved, Busy
  <2>3. CASE Moved(r, "record") /\ key[r] # NoKey /\ atMu' = NoProc
    BY <1>2, <2>3, RequestsAssumption DEF ControlOf, Moved, Busy
  <2>4. CASE Returned(r) /\ atMu' = NoProc
    BY <1>4, <2>4, RequestsAssumption DEF ControlOf, Returned, Busy
  <2> QED BY <1>1, <2>1, <2>2, <2>3, <2>4 DEF Proceeds
<1> QED BY <1>1, <1>2, <1>5, ControlFrom

LEMMA ReturnControl ==
  ASSUME Control, NEW r \in Requests, Return(r),
         (atMu' = NoProc /\ atMu = r) \/ (atMu' = atMu /\ atMu # r)
  PROVE  Control'
<1>1. LocalsTyped' /\ Others(r) /\ Returned(r)
  BY ReturnIs DEF Control, LocalsOK, LocalsTyped
<1>2. 1 \in Steps("query")
  BY StepsIs DEF AllOps
<1>3. ControlOf(r)'
  BY <1>1, <1>2, RequestsAssumption DEF ControlOf, Returned, Busy
<1> QED BY <1>1, <1>3, ControlFrom

LEMMA GotoControl ==
  ASSUME Control, NEW r \in Requests, NEW stage \in Stages, Goto(r, stage), pc[r] # "idle",
         stage \in Busy, (pc[r] \in Busy /\ atMu' = atMu) \/ (atMu' = r /\ atMu = NoProc),
         stage = "payload" => Command(r) = "submit"
  PROVE  Control'
<1>1. LocalsTyped' /\ Others(r) /\ Moved(r, stage)
  BY GotoIs DEF Control, LocalsOK, LocalsTyped
<1>2. ControlOf(r)
  BY DEF Control, ControlOf
<1>3. ControlOf(r)'
  BY <1>1, <1>2 DEF ControlOf, Moved, Busy, Command
<1> QED BY <1>1, <1>2, <1>3, ControlFrom DEF ControlOf

LEMMA InitControl == Init => Control
<1> SUFFICES ASSUME Init PROVE Control
  OBVIOUS
<1>1. 1 \in Steps("query") /\ "query" \in AllOps /\ "idle" \in Stages
  BY StepsIs DEF AllOps, Stages
<1> QED BY <1>1, RequestsAssumption DEF Init, Control, LocalsOK, Busy

LEMMA NextControl == Control /\ [Next]_vars => Control'
<1> SUFFICES ASSUME Control, [Next]_vars PROVE Control'
  OBVIOUS
<1>0. UNCHANGED <<locals, atMu>> => Control'
  BY DEF Control, LocalsOK, locals, Command
<1>s. Stages = {"idle", "lock", "write", "read", "payload", "reopen", "record"}
  BY DEF Stages
<1> USE DEF Busy
<1>1. ASSUME NEW r \in Requests, SendSMS(r) PROVE Control'
  <2>1. PICK o \in SendOps \cap Ops, k \in SendKeys :
           /\ pc[r] = "idle" /\ pc' = [pc EXCEPT ![r] = "lock"]
           /\ op' = [op EXCEPT ![r] = o] /\ key' = [key EXCEPT ![r] = k]
           /\ UNCHANGED <<step, repinged, atMu>>
    BY <1>1 DEF SendSMS
  <2>2. o \in AllOps /\ k \in Keys \cup {NoKey} /\ 1 \in Steps(o)
    BY RequestsAssumption, StepsIs DEF AllOps
  <2>3. LocalsTyped' /\ Others(r)
    BY <1>s, <2>1, <2>2 DEF Control, LocalsOK, LocalsTyped, Others
  <2>4. ControlOf(r)'
    BY <2>1, <2>2 DEF Control, LocalsOK, ControlOf
  <2> QED BY <2>1, <2>3, <2>4, ControlFrom
<1>2. ASSUME NEW r \in Requests, OtherRequest(r) PROVE Control'
  <2>1. PICK o \in Ops \ SendOps :
           /\ pc[r] = "idle" /\ pc' = [pc EXCEPT ![r] = "lock"]
           /\ op' = [op EXCEPT ![r] = o] /\ UNCHANGED <<key, step, repinged, atMu>>
    BY <1>2 DEF OtherRequest
  <2>2. o \in AllOps /\ 1 \in Steps(o)
    BY RequestsAssumption, StepsIs
  <2>3. LocalsTyped' /\ Others(r)
    BY <1>s, <2>1, <2>2 DEF Control, LocalsOK, LocalsTyped, Others
  <2>4. ControlOf(r)'
    BY <2>1, <2>2 DEF Control, LocalsOK, ControlOf
  <2> QED BY <2>1, <2>3, <2>4, ControlFrom
<1>3. ASSUME NEW r \in Requests, AcquireAT(r) PROVE Control'
  BY <1>3, <1>s, GotoControl DEF AcquireAT
<1>4. ASSUME NEW r \in Requests, Write(r) PROVE Control'
  BY <1>4, <1>s, GotoControl DEF Write
<1>5. ASSUME NEW r \in Requests, ReadPlain(r) PROVE Control'
  BY <1>5, ProceedControl DEF ReadPlain, Plain, Has
<1>6. ASSUME NEW r \in Requests, TimeoutPlain(r) PROVE Control'
  BY <1>6, ProceedControl DEF TimeoutPlain, Plain
<1>7. ASSUME NEW r \in Requests, Reopen(r) PROVE Control'
  <2>1. /\ pc[r] = "reopen" /\ pc' = [pc EXCEPT ![r] = "write"]
        /\ repinged' = [repinged EXCEPT ![r] = TRUE] /\ UNCHANGED <<op, key, step, atMu>>
    BY <1>7 DEF Reopen
  <2>2. LocalsTyped' /\ Others(r)
    BY <1>s, <2>1 DEF Control, LocalsOK, LocalsTyped, Others
  <2>3. ControlOf(r)'
    BY <2>1 DEF Control, LocalsOK, ControlOf
  <2> QED BY <2>1, <2>2, <2>3, ControlFrom
<1>8. ASSUME NEW r \in Requests, ReadPrompt(r) PROVE Control'
  <2>1. atMu = r /\ pc[r] = "read" /\ Command(r) = "submit"
    BY <1>8 DEF ReadPrompt, AtPrompt, Control
  <2>2. CASE Goto(r, "payload") /\ UNCHANGED atMu
    BY <1>s, <2>1, <2>2, GotoControl
  <2>3. CASE Return(r) /\ atMu' = NoProc
    BY <2>1, <2>3, ReturnControl
  <2> QED BY <1>8, <2>2, <2>3 DEF ReadPrompt
<1>9. ASSUME NEW r \in Requests, TimeoutPrompt(r) \/ TimeoutPayload(r) PROVE Control'
  <2>1. atMu = r /\ Return(r) /\ atMu' = NoProc
    BY <1>9 DEF TimeoutPrompt, TimeoutPayload, GiveUp, AtPrompt, Control
  <2> QED BY <2>1, ReturnControl
<1>10. ASSUME NEW r \in Requests, ReadPayload(r) PROVE Control'
  BY <1>10, ProceedControl DEF ReadPayload, Accepted, Has
<1>11. ASSUME NEW r \in Requests, Record(r) PROVE Control'
  <2>1. atMu # r /\ Return(r) /\ UNCHANGED atMu
    BY <1>11 DEF Record, Control
  <2> QED BY <2>1, ReturnControl
<1>12. CASE DrainSMSNotifications \/ Execute \/ Recite \/ URCArrives \/ Tick
  BY <1>0, <1>12 DEF DrainSMSNotifications, Execute, Recite, URCArrives, Tick
<1>13. CASE UNCHANGED vars
  BY <1>0, <1>13 DEF vars
<1> QED BY <1>1, <1>2, <1>3, <1>4, <1>5, <1>6, <1>7, <1>8, <1>9, <1>10, <1>11, <1>12, <1>13
        DEF Next

-----------------------------------------------------------------------------
(***************************************************************************)
(* What is on the line.  A text is written after the modem's prompt, and   *)
(* the modem answers no command while it waits for one: at most one text   *)
(* is under way, nothing is answered before it, nothing written after it.  *)
(* So what a request reads as the verdict on its text is that verdict,     *)
(* whatever commands were given up before.  A text that was given up with  *)
(* a key excuses the key.                                                  *)
(***************************************************************************)
LineOK ==
    /\ todo \in Seq(Written)
    /\ answers \subseteq Items
    /\ format \in {"text", "pdu"}
    /\ charset \in {"gsm", "ucs2"}
    /\ prompting \in BOOLEAN
    /\ transmitted \in [Keys -> 0..2]
    /\ excusedKeys \subseteq Keys

OneText ==
    /\ \A i \in 1..Len(todo) : todo[i].command = "payload" =>
          /\ prompting /\ ~Has(answers, "prompt")
          /\ \A j \in 1..Len(todo) : todo[j].command = "payload" => j = i
    /\ Has(answers, "prompt") => prompting

Text(r) == [command |-> "payload", late |-> FALSE, key |-> IF LastStep(r) THEN key[r] ELSE NoKey]

Good == {[kind |-> "ok", late |-> FALSE]}

Bad == {[kind |-> "cms", late |-> FALSE]}

Pending(r) == todo # <<>> /\ todo[Len(todo)] = Text(r) /\ answers = {}

Judged(r) ==
    /\ todo = <<>>
    /\ \/ answers = Bad
       \/ /\ answers = Good
          /\ LastStep(r) /\ key[r] # NoKey => transmitted[key[r]] >= 1

Verdict == \A r \in Requests : pc[r] = "payload" => Pending(r) \/ Judged(r)

KeyedTexts ==
    \A i \in 1..Len(todo) : todo[i].key # NoKey =>
       /\ todo[i].command = "payload"
       /\ \/ todo[i].key \in excusedKeys
          \/ \E r \in Requests : pc[r] = "payload" /\ LastStep(r) /\ key[r] = todo[i].key

Line == LineOK /\ OneText /\ Verdict /\ KeyedTexts

LEMMA Alone ==
  ASSUME Control, NEW r \in Requests, pc[r] \in Busy
  PROVE  atMu = r /\ \A q \in Requests \ {r} : pc[q] \notin Busy
  BY DEF Control

\* The answers to a text.
LEMMA Judgements ==
  /\ Final(Good) /\ Accepted(Good) /\ Final(Bad) /\ ~Accepted(Bad)
  /\ ~Final({}) /\ ~Accepted({}) /\ Good # {} /\ Bad # {}
  /\ ~Has(Good, "prompt") /\ ~Has(Bad, "prompt") /\ ~Has({}, "prompt")
  /\ Good \subseteq Items /\ Bad \subseteq Items
  BY DEF Good, Bad, Final, Accepted, Has, Items, Answers

\* A request that begins, leaves or goes on outside a submission changes nothing.
LEMMA SameLine ==
  ASSUME Line, UNCHANGED <<todo, answers, modem, transmitted>>, excusedKeys \subseteq excusedKeys',
         excusedKeys' \subseteq Keys, NEW r \in Requests, Others(r),
         pc[r] # "payload", pc'[r] # "payload"
  PROVE  Line'
<1>1. LineOK' /\ OneText'
  BY DEF Line, LineOK, OneText, modem, Has
<1>2. \A q \in Requests \ {r} : LastStep(q)' = LastStep(q) /\ Text(q)' = Text(q)
  BY DEF Others, LastStep, Text
<1>3. Verdict'
  BY <1>2 DEF Line, Verdict, Pending, Judged, Others
<1>4. KeyedTexts'
  BY <1>2 DEF Line, KeyedTexts, Others
<1> QED BY <1>1, <1>3, <1>4 DEF Line

\* The end of an exchange.
LEMMA ExchangeEnds ==
  ASSUME Control, Line, NEW r \in Requests, pc[r] \in {"read", "payload"},
         todo' = MarkLate(todo), answers' = {}, UNCHANGED <<modem, transmitted>>,
         excusedKeys \subseteq excusedKeys', excusedKeys' \subseteq Keys,
         \/ pc[r] = "read"
         \/ todo = <<>>
         \/ {key[r]} \cap Keys \subseteq excusedKeys',
         Others(r), pc'[r] # "payload"
  PROVE  Line'
<1>0. \A q \in Requests : q # r => pc[q] # "payload"
  BY Alone DEF Busy
<1>1. /\ todo' \in Seq(Written) /\ Len(todo') = Len(todo)
      /\ \A i \in 1..Len(todo) : todo'[i].command = todo[i].command /\ todo'[i].key = todo[i].key
  <2>1. PICK s \in Seq(Written) : s = todo
    BY DEF Line, LineOK
  <2> QED BY <2>1, MarkLateIs
<1>2. LineOK'
  BY <1>1 DEF Line, LineOK, modem
<1>3. OneText'
  BY <1>1 DEF Line, OneText, modem, Has
<1>4. Verdict'
  BY <1>0 DEF Verdict, Others
<1>5. ASSUME NEW i \in 1..Len(todo'), todo'[i].key # NoKey
      PROVE  todo'[i].command = "payload" /\ todo'[i].key \in excusedKeys'
  <2>1. todo[i].key # NoKey /\ i \in 1..Len(todo) /\ todo[i] \in Written
    BY <1>1, <1>5 DEF Line, LineOK
  <2>2. /\ todo[i].command = "payload"
        /\ todo[i].key \in excusedKeys \/ (pc[r] = "payload" /\ key[r] = todo[i].key)
    BY <1>0, <2>1 DEF Line, KeyedTexts
  <2>3. todo[i].key \in Keys
    BY <2>1 DEF Written
  <2>4. todo # <<>>
    BY <2>1
  <2> QED BY <1>1, <2>1, <2>2, <2>3, <2>4
<1>6. KeyedTexts'
  BY <1>5 DEF KeyedTexts
<1> QED BY <1>2, <1>3, <1>4, <1>6 DEF Line

LEMMA InitLine == Init => Line
<1> SUFFICES ASSUME Init PROVE Line
  OBVIOUS
<1>1. todo = <<>> /\ answers = {} /\ ~Has({}, "prompt") /\ Len(<<>>) = 0
  BY Judgements DEF Init
<1>2. prompting \in BOOLEAN
  BY DEF Init
<1>3. LineOK
  BY <1>1, <1>2 DEF Init, LineOK
<1> QED BY <1>1, <1>3 DEF Init, Line, OneText, Verdict, KeyedTexts

\* A script writes commands; the text of a message is not one.
LEMMA CommandIs ==
  ASSUME Control, NEW r \in Requests
  PROVE  Command(r) \in Commands \ {"payload"}
<1>1. PICK o \in AllOps : o = op[r]
  BY DEF Control, LocalsOK
<1>2. step[r] \in 1..Len(Script(o))
  BY <1>1 DEF Control, Steps
<1>3. Command(r) = Script(o)[step[r]]
  BY <1>1 DEF Command
<1> QED BY <1>2, <1>3, Scripts

LEMMA WriteLine ==
  ASSUME Control, Line, NEW r \in Requests, Write(r)
  PROVE  Line'
<1> DEFINE w == [command |-> Command(r), late |-> FALSE, key |-> NoKey]
<1>1. /\ pc[r] = "write" /\ todo' = Append(todo, w) /\ Goto(r, "read")
      /\ UNCHANGED <<answers, modem, transmitted, excusedKeys>>
  BY DEF Write, history
<1>2. pc'[r] = "read" /\ Others(r) /\ \A q \in Requests \ {r} : pc[q] # "payload"
  BY <1>1, Alone DEF Goto, Others, Control, LocalsOK, Busy
<1>3. Command(r) \in Commands \ {"payload"}
  BY CommandIs
<1>4. w \in Written /\ w.command # "payload" /\ w.key = NoKey
  BY <1>3 DEF Written
<1> HIDE DEF w
<1>5. /\ todo' \in Seq(Written) /\ Len(todo') = Len(todo) + 1 /\ Len(todo) \in Nat
      /\ \A i \in 1..Len(todo) : todo'[i] = todo[i]
      /\ todo'[Len(todo) + 1] = w
  BY <1>1, <1>4, AppendIs, LenProperties DEF Line, LineOK
<1>6. \A i \in 1..Len(todo') : i \in 1..Len(todo) \/ i = Len(todo) + 1
  BY <1>5
<1>7. LineOK'
  BY <1>1, <1>5 DEF Line, LineOK, modem
<1>8. OneText'
  BY <1>1, <1>4, <1>5, <1>6 DEF Line, OneText, modem, Has
<1>9. Verdict'
  BY <1>2 DEF Verdict, Others
<1>10. KeyedTexts'
  <2>1. \A i \in 1..Len(todo) : todo[i].key # NoKey =>
           todo[i].command = "payload" /\ todo[i].key \in excusedKeys
    BY <1>1, <1>2 DEF Line, KeyedTexts
  <2> QED BY <1>1, <1>4, <1>5, <1>6, <2>1 DEF KeyedTexts
<1> QED BY <1>7, <1>8, <1>9, <1>10 DEF Line

LEMMA PromptLine ==
  ASSUME Control, Line, NEW r \in Requests, ReadPrompt(r)
  PROVE  Line'
<1>1. /\ pc[r] = "read" /\ answers' = {} /\ UNCHANGED <<modem, transmitted, excusedKeys>>
  BY DEF ReadPrompt, AtPrompt, history
<1>2. \A q \in Requests \ {r} : pc[q] # "payload"
  BY <1>1, Alone DEF Busy
<1>3. CASE Return(r) /\ todo' = MarkLate(todo)
  <2>1. Others(r) /\ pc'[r] # "payload"
    BY <1>3, ReturnIs DEF Control, LocalsOK, LocalsTyped, Returned
  <2> QED BY <1>1, <1>3, <2>1, ExchangeEnds DEF Line, LineOK
<1>4. CASE /\ Has(answers, "prompt") /\ Goto(r, "payload")
           /\ todo' = Append(todo, Text(r))
  <2>1. /\ pc'[r] = "payload" /\ Others(r) /\ key'[r] = key[r]
        /\ LastStep(r)' = LastStep(r) /\ Text(r)' = Text(r)
    BY <1>4 DEF Goto, Others, Control, LocalsOK, LastStep, Text
  <2>2. Text(r) \in Written /\ Text(r).command = "payload"
        /\ (Text(r).key # NoKey => LastStep(r) /\ Text(r).key = key[r])
    BY DEF Text, Written, Commands, Control, LocalsOK
  <2>3. PICK w \in Written : w = Text(r)
    BY <2>2
  <2>4. /\ todo' \in Seq(Written) /\ Len(todo') = Len(todo) + 1 /\ Len(todo) \in Nat
        /\ \A i \in 1..Len(todo) : todo'[i] = todo[i]
        /\ todo'[Len(todo) + 1] = w /\ todo' # <<>>
    BY <1>4, <2>3, AppendIs, LenProperties DEF Line, LineOK
  <2>5. \A i \in 1..Len(todo') : i \in 1..Len(todo) \/ i = Len(todo) + 1
    BY <2>4
  <2>6. prompting' /\ \A i \in 1..Len(todo) : todo[i].command # "payload"
    BY <1>1, <1>4 DEF Line, OneText, modem
  <2>7. LineOK'
    BY <1>1, <2>4, Judgements DEF Line, LineOK, modem
  <2>8. OneText'
    BY <1>1, <2>4, <2>5, <2>6, Judgements DEF OneText
  <2>9. Verdict'
    <3>1. Pending(r)'
      BY <1>1, <2>1, <2>3, <2>4 DEF Pending
    <3> QED BY <1>2, <2>1, <3>1 DEF Verdict, Others
  <2>10. KeyedTexts'
    <3>1. \A i \in 1..Len(todo) : todo[i].key # NoKey =>
             todo[i].command = "payload" /\ todo[i].key \in excusedKeys
      BY <1>1, <1>2 DEF Line, KeyedTexts
    <3>2. \A i \in 1..Len(todo) : todo'[i].key # NoKey =>
             todo'[i].command = "payload" /\ todo'[i].key \in excusedKeys'
      BY <1>1, <2>4, <3>1
    <3>3. w.command = "payload" /\ (w.key # NoKey => LastStep(r)' /\ key'[r] = w.key)
      BY <2>1, <2>2, <2>3
    <3> QED BY <2>1, <2>4, <2>5, <3>2, <3>3 DEF KeyedTexts
  <2> QED BY <2>7, <2>8, <2>9, <2>10 DEF Line
<1> QED BY <1>3, <1>4 DEF ReadPrompt, Text

\* The modem deals with what it was written.
LEMMA ExecuteLine ==
  ASSUME Control, Line, Execute
  PROVE  Line'
<1> DEFINE head == Head(todo)
           n == Len(todo)
<1>1. /\ todo # <<>> /\ todo' = Tail(todo) /\ UNCHANGED <<locals, excusedKeys>>
      /\ TakeText(head) \/ Ignore(head) \/ AskForText(head) \/ Obey(head)
  BY DEF Execute
<1>2. /\ n \in Nat /\ n >= 1 /\ head = todo[1] /\ head \in Written
      /\ todo' \in Seq(Written) /\ Len(todo') = n - 1
      /\ \A i \in 1..(n - 1) : todo'[i] = todo[i + 1]
  <2>1. PICK s \in Seq(Written) : s = todo
    BY DEF Line, LineOK
  <2> QED BY <1>1, <2>1, TailIs, LenProperties
<1> HIDE DEF n, head
<1>3. n = Len(todo)
  BY DEF n
<1>4. \A q \in Requests : /\ pc'[q] = pc[q] /\ key'[q] = key[q]
                          /\ LastStep(q)' = LastStep(q) /\ Text(q)' = Text(q)
  BY <1>1 DEF locals, LastStep, Text
<1>5. KeyedTexts'
  <2>1. \A i \in 1..(n - 1) : i + 1 \in 1..n
    BY <1>2
  <2> QED BY <1>1, <1>2, <1>3, <1>4, <2>1 DEF Line, KeyedTexts
<1>6. \A i, j \in 1..n : todo[i].command = "payload" /\ todo[j].command = "payload" => i = j
  BY <1>3 DEF Line, OneText
<1>7. head.late \in BOOLEAN
  BY <1>2 DEF Written
<1>8. ASSUME NEW q \in Requests, pc[q] = "payload"
      PROVE  /\ todo[n] = Text(q) /\ answers = {} /\ (n > 1 => head.command # "payload")
             /\ Text(q).command = "payload" /\ Text(q).late = FALSE
  <2>1. todo[n] = Text(q) /\ answers = {}
    BY <1>1, <1>3, <1>8 DEF Line, Verdict, Pending, Judged
  <2>2. Text(q).command = "payload" /\ Text(q).late = FALSE
    BY DEF Text
  <2> QED BY <1>2, <1>6, <2>1, <2>2
<1>9. n > 1 => todo' # <<>> /\ todo'[Len(todo')] = todo[n]
  BY <1>2, EmptySeq
<1>10. n = 1 => todo' = <<>>
  BY <1>2, EmptySeq
<1>11. CASE TakeText(head)
  <2>1. /\ prompting /\ ~prompting' /\ head.command = "payload" /\ UNCHANGED <<format, charset>>
        /\ \/ Respond(head, "ok")
              /\ transmitted' = [k \in Keys |-> IF k = head.key THEN SaturatedInc(transmitted[k])
                                                ELSE transmitted[k]]
           \/ Respond(head, "cms") /\ UNCHANGED transmitted
    BY <1>11 DEF TakeText
  <2>2. ~Has(answers, "prompt") /\ \A i \in 1..(n - 1) : todo'[i].command # "payload"
    BY <1>2, <1>3, <1>6, <2>1 DEF Line, OneText
  <2>3. ~Has(answers', "prompt") /\ answers' \subseteq Items
    BY <1>7, <2>1, <2>2 DEF Respond, Has, Line, LineOK, Items, Answers
  <2>4. transmitted' \in [Keys -> 0..2]
    BY <2>1 DEF Line, LineOK, SaturatedInc
  <2>5. prompting' \in BOOLEAN
    <3>1. prompting' = FALSE
      BY <1>11 DEF TakeText
    <3> QED BY <3>1
  <2>6. LineOK'
    BY <1>1, <1>2, <2>1, <2>3, <2>4, <2>5 DEF Line, LineOK
  <2>7. OneText'
    BY <1>2, <2>2, <2>3 DEF OneText
  <2>8. Verdict'
    <3> SUFFICES ASSUME NEW q \in Requests, pc[q] = "payload" PROVE Judged(q)'
      BY <1>4 DEF Verdict
    <3>0. todo[n] = Text(q) /\ answers = {} /\ (n > 1 => head.command # "payload")
          /\ Text(q).late = FALSE
      BY <1>8
    <3>a. n = 1
      BY <1>2, <2>1, <3>0
    <3>1. todo' = <<>> /\ head = Text(q) /\ answers = {} /\ head.late = FALSE
      BY <1>2, <1>10, <3>0, <3>a
    <3>2. CASE Respond(head, "cms")
      BY <3>1, <3>2 DEF Judged, Respond, Bad
    <3>3. CASE /\ Respond(head, "ok")
               /\ transmitted' = [k \in Keys |-> IF k = head.key THEN SaturatedInc(transmitted[k])
                                                 ELSE transmitted[k]]
      <4>1. answers' = Good
        BY <3>1, <3>3 DEF Respond, Good
      <4>2. ASSUME LastStep(q), key[q] # NoKey PROVE transmitted'[key[q]] >= 1
        <5>1. key[q] \in Keys /\ head.key = key[q] /\ transmitted[key[q]] \in 0..2
          BY <3>1, <4>2 DEF Text, Control, LocalsOK, Line, LineOK
        <5> QED BY <3>3, <5>1 DEF SaturatedInc
      <4> QED BY <1>4, <3>1, <4>1, <4>2 DEF Judged
    <3> QED BY <2>1, <3>2, <3>3
  <2> QED BY <1>5, <2>6, <2>7, <2>8 DEF Line
<1>12. CASE ~TakeText(head)
  <2>1. head.command = "payload" => ~prompting
    BY <1>1, <1>12 DEF Ignore, AskForText, Obey
  <2>2. head.command # "payload"
    BY <1>2, <1>3, <2>1 DEF Line, OneText
  <2>3. transmitted' = transmitted
    BY <1>1, <1>12 DEF Ignore, AskForText, Obey
  <2>4. ASSUME \E i \in 1..n : todo[i].command = "payload" PROVE Ignore(head)
    <3>1. prompting
      BY <1>3, <2>4 DEF Line, OneText
    <3> QED BY <1>1, <1>12, <3>1 DEF AskForText, Obey
  <2>5. LineOK' /\ (Has(answers', "prompt") => prompting')
    <3>1. CASE Ignore(head)
      BY <1>1, <1>2, <3>1 DEF Ignore, Line, LineOK, OneText, modem
    <3>2. CASE AskForText(head)
      <4>1. /\ UNCHANGED <<format, charset, transmitted>>
            /\ \/ Respond(head, "prompt") /\ prompting' = TRUE
               \/ Respond(head, "cms") /\ UNCHANGED prompting
        BY <3>2 DEF AskForText
      <4>2. prompting' \in BOOLEAN
        BY <4>1 DEF Line, LineOK
      <4>3. answers' \subseteq Items /\ (Has(answers', "prompt") => prompting')
        BY <1>7, <4>1 DEF Respond, Has, Line, LineOK, OneText, Items, Answers
      <4> QED BY <1>1, <1>2, <4>1, <4>2, <4>3 DEF Line, LineOK
    <3>3. CASE Obey(head)
      <4>1. /\ UNCHANGED <<prompting, transmitted>>
            /\ Respond(head, "ok") \/ Respond(head, "error")
            /\ format' \in {format, "text", "pdu"} /\ charset' \in {charset, "gsm", "ucs2"}
        BY <3>3 DEF Obey
      <4>2. answers' \subseteq Items /\ (Has(answers', "prompt") => prompting')
        BY <1>7, <4>1 DEF Respond, Has, Line, LineOK, OneText, Items, Answers
      <4> QED BY <1>1, <1>2, <4>1, <4>2 DEF Line, LineOK
    <3> QED BY <1>1, <1>12, <3>1, <3>2, <3>3
  <2>6. OneText'
    <3> SUFFICES ASSUME NEW i \in 1..(n - 1), todo'[i].command = "payload"
                 PROVE  /\ prompting' /\ ~Has(answers', "prompt")
                        /\ \A j \in 1..(n - 1) : todo'[j].command = "payload" => j = i
      BY <1>2, <2>5 DEF OneText
    <3>1. i + 1 \in 1..n /\ todo[i + 1].command = "payload"
      BY <1>2
    <3>2. Ignore(head)
      BY <2>4, <3>1
    <3>3. \A j \in 1..(n - 1) : todo'[j].command = "payload" => j = i
      <4>1. \A j \in 1..(n - 1) : j + 1 \in 1..n /\ todo'[j] = todo[j + 1]
        BY <1>2
      <4>2. \A j \in 1..(n - 1) : todo'[j].command = "payload" => j + 1 = i + 1
        BY <1>6, <3>1, <4>1
      <4> QED BY <1>2, <4>2
    <3>4. prompting /\ ~Has(answers, "prompt")
      BY <1>3, <3>1 DEF Line, OneText
    <3> QED BY <3>2, <3>3, <3>4 DEF Ignore, modem
  <2>7. Verdict'
    <3> SUFFICES ASSUME NEW q \in Requests, pc[q] = "payload" PROVE Pending(q)'
      BY <1>4 DEF Verdict
    <3>1. todo[n] = Text(q) /\ answers = {} /\ Text(q).command = "payload"
      BY <1>8
    <3>2. Ignore(head) /\ n > 1
      BY <1>2, <2>2, <2>4, <3>1
    <3> QED BY <1>4, <1>9, <3>1, <3>2 DEF Pending, Ignore
  <2> QED BY <1>5, <2>5, <2>6, <2>7 DEF Line
<1> QED BY <1>11, <1>12

\* No text is awaited or judged while the modem answers a query.
LEMMA ReciteLine ==
  ASSUME Line, ForgedOK, Recite
  PROVE  /\ Len(todo) >= 1 /\ \A i \in 1..Len(todo) : todo[i].command # "payload"
         /\ \A r \in Requests : pc[r] # "payload"
         /\ answers' \subseteq Items
<1>1. todo # <<>> /\ Head(todo).command = "query" /\ ~prompting
  BY ReciteIs
<1>2. /\ Len(todo) \in Nat /\ Len(todo) >= 1
      /\ Head(todo) = todo[1] /\ Head(todo) \in Written
  <2>1. PICK s \in Seq(Written) : s = todo
    BY DEF Line, LineOK
  <2> QED BY <1>1, <2>1, TailIs, LenProperties
<1>3. \A i \in 1..Len(todo) : todo[i].command # "payload"
  BY <1>1 DEF Line, OneText
<1>4. ASSUME NEW r \in Requests, pc[r] = "payload" PROVE FALSE
  <2>1. Pending(r)
    BY <1>1, <1>4 DEF Line, Verdict, Judged
  <2>2. todo[Len(todo)].command = "payload" /\ Len(todo) \in 1..Len(todo)
    BY <1>2, <2>1 DEF Pending, Text
  <2> QED BY <1>3, <2>2
<1>5. answers' \subseteq Items
  <2>1. PICK kind \in Answers : Respond(Head(todo), kind)
    BY ReciteIs
  <2> QED BY <1>2, <2>1 DEF Respond, Line, LineOK, Items, Written
<1> QED BY <1>2, <1>3, <1>4, <1>5

LEMMA NextLine ==
  Control /\ Line /\ idem \subseteq Keys
      /\ ForgedOK /\ "prompt" \notin Range(forged)' /\ [Next]_vars
  => Line'
<1> SUFFICES ASSUME Control, Line, idem \subseteq Keys, ForgedOK,
                    "prompt" \notin Range(forged)', [Next]_vars
             PROVE  Line'
  OBVIOUS
<1>0. LocalsTyped /\ excusedKeys \subseteq Keys
  BY DEF Control, LocalsOK, LocalsTyped, Line, LineOK
<1>a. UNCHANGED <<locals, todo, answers, modem, transmitted, excusedKeys>> => Line'
  BY DEF Line, LineOK, OneText, Verdict, KeyedTexts, Pending, Judged, locals, modem, Text,
         LastStep, Has
<1>1. ASSUME NEW r \in Requests, SendSMS(r) PROVE Line'
  <2>1. /\ pc[r] = "idle" /\ pc' = [pc EXCEPT ![r] = "lock"] /\ step' = step
        /\ \E o \in SendOps \cap Ops : op' = [op EXCEPT ![r] = o]
        /\ \E k \in SendKeys : key' = [key EXCEPT ![r] = k]
        /\ UNCHANGED <<todo, answers, modem, transmitted>>
        /\ \E expired \in SUBSET idem, more \in SUBSET Keys :
              excusedKeys' = excusedKeys \cup expired \cup more
    BY <1>1 DEF SendSMS, line
  <2>2. pc'[r] = "lock" /\ Others(r)
    BY <2>1 DEF Control, LocalsOK, Others
  <2>3. excusedKeys \subseteq excusedKeys' /\ excusedKeys' \subseteq Keys
    BY <1>0, <2>1
  <2> QED BY <2>1, <2>2, <2>3, SameLine
<1>2. ASSUME NEW r \in Requests, OtherRequest(r) \/ AcquireAT(r) PROVE Line'
  <2>1. /\ pc[r] # "payload" /\ pc'[r] # "payload" /\ Others(r)
        /\ UNCHANGED <<todo, answers, modem, transmitted, excusedKeys>>
    BY <1>2 DEF OtherRequest, AcquireAT, Goto, Others, Control, LocalsOK, line, history
  <2> QED BY <1>0, <2>1, SameLine
<1>3. ASSUME NEW r \in Requests, Write(r) PROVE Line'
  BY <1>3, WriteLine
<1>4. ASSUME NEW r \in Requests, ReadPlain(r) \/ TimeoutPlain(r) PROVE Line'
  <2>1. /\ pc[r] = "read" /\ \E ok \in BOOLEAN : Proceed(r, ok)
        /\ UNCHANGED <<modem, transmitted, excusedKeys>>
    BY <1>4 DEF ReadPlain, TimeoutPlain, Plain, Has, history
  <2>2. Others(r) /\ pc'[r] # "payload" /\ todo' = MarkLate(todo) /\ answers' = {}
    BY <2>1, ProceedIs DEF Proceeds, Advanced, Moved, Returned
  <2> QED BY <1>0, <2>1, <2>2, ExchangeEnds
<1>5. ASSUME NEW r \in Requests, Reopen(r) PROVE Line'
  <2>1. /\ pc[r] = "reopen" /\ pc' = [pc EXCEPT ![r] = "write"] /\ answers' = {}
        /\ UNCHANGED <<op, key, step, todo, modem, transmitted, excusedKeys>>
    BY <1>5 DEF Reopen, history
  <2>2. \A q \in Requests : pc[q] # "payload" /\ pc'[q] # "payload"
    BY <2>1, Alone DEF Busy, Control, LocalsOK
  <2>3. LineOK' /\ OneText' /\ Verdict'
    BY <2>1, <2>2, Judgements DEF Line, LineOK, OneText, Verdict, modem
  <2>4. KeyedTexts'
    BY <2>1, <2>2 DEF Line, KeyedTexts
  <2> QED BY <2>3, <2>4 DEF Line
<1>6. ASSUME NEW r \in Requests, ReadPrompt(r) PROVE Line'
  BY <1>6, PromptLine
<1>7. ASSUME NEW r \in Requests, TimeoutPrompt(r) \/ TimeoutPayload(r) PROVE Line'
  <2>1. /\ Return(r) /\ todo' = MarkLate(todo) /\ answers' = {}
        /\ UNCHANGED <<modem, transmitted>>
        /\ \/ pc[r] = "read" /\ excusedKeys' = excusedKeys
           \/ pc[r] = "payload" /\ excusedKeys' = excusedKeys \cup ({key[r]} \cap Keys)
    BY <1>7 DEF TimeoutPrompt, TimeoutPayload, GiveUp, AtPrompt
  <2>2. Others(r) /\ pc'[r] # "payload"
    BY <1>0, <2>1, ReturnIs DEF Returned
  <2> QED BY <1>0, <2>1, <2>2, ExchangeEnds
<1>8. ASSUME NEW r \in Requests, ReadPayload(r) PROVE Line'
  <2>1. /\ pc[r] = "payload" /\ Final(answers) /\ \E ok \in BOOLEAN : Proceed(r, ok)
        /\ UNCHANGED <<modem, transmitted, excusedKeys>>
    BY <1>8 DEF ReadPayload, Accepted, Has, history
  <2>2. Others(r) /\ pc'[r] # "payload" /\ todo' = MarkLate(todo) /\ answers' = {}
    BY <2>1, ProceedIs DEF Proceeds, Advanced, Moved, Returned
  <2>3. todo = <<>>
    BY <2>1, Judgements DEF Line, Verdict, Pending, Judged
  <2> QED BY <1>0, <2>1, <2>2, <2>3, ExchangeEnds
<1>9. ASSUME NEW r \in Requests, Record(r) PROVE Line'
  <2>1. /\ pc[r] = "record" /\ Return(r)
        /\ UNCHANGED <<todo, answers, modem, transmitted, excusedKeys>>
    BY <1>9 DEF Record, line, history
  <2>2. Others(r) /\ pc'[r] # "payload"
    BY <1>0, <2>1, ReturnIs DEF Returned
  <2> QED BY <1>0, <2>1, <2>2, SameLine
<1>10. CASE Execute
  BY <1>10, ExecuteLine
<1>r. CASE Recite
  <2>1. /\ UNCHANGED <<locals, todo, modem, transmitted, excusedKeys>>
        /\ \E kind \in Answers \ {"prompt"} : Respond(Head(todo), kind)
    BY <1>r, ReciteIs
  <2>2. /\ \A i \in 1..Len(todo) : todo[i].command # "payload"
        /\ \A q \in Requests : pc[q] # "payload" /\ answers' \subseteq Items
    BY <1>r, ReciteLine
  <2>3. Has(answers', "prompt") => Has(answers, "prompt")
    BY <2>1 DEF Has, Respond
  <2>4. answers' \subseteq Items
    BY <1>r, ReciteLine
  <2>5. LineOK' /\ OneText'
    BY <2>1, <2>2, <2>3, <2>4 DEF Line, LineOK, OneText, modem
  <2>6. Verdict' /\ KeyedTexts'
    BY <2>1, <2>2 DEF Line, Verdict, KeyedTexts, locals
  <2> QED BY <2>5, <2>6 DEF Line
<1>11. CASE DrainSMSNotifications \/ URCArrives \/ Tick
  BY <1>a, <1>11 DEF DrainSMSNotifications, URCArrives, Tick, line, history
<1>12. CASE UNCHANGED vars
  BY <1>a, <1>12 DEF vars, line, history
<1> QED BY <1>1, <1>2, <1>3, <1>4, <1>5, <1>6, <1>7, <1>8, <1>9, <1>10, <1>11, <1>12, <1>r DEF Next

-----------------------------------------------------------------------------
(***************************************************************************)
(* Sends with a key.  A key without an excuse is with one request at a     *)
(* time, and with none once its result is stored.  When its message was    *)
(* transmitted, the result is stored, or its request is about to read the  *)
(* modem's OK or to store the result.                                      *)
(***************************************************************************)
Sent(r) ==
    \/ pc[r] = "record"
    \/ pc[r] = "payload" /\ LastStep(r) /\ todo = <<>> /\ answers = Good

OneSend(k) ==
    /\ \A r, q \in Requests : key[r] = k /\ key[q] = k => r = q
    /\ k \in idem => \A r \in Requests : key[r] # k
    /\ transmitted[k] <= 1
    /\ transmitted[k] # 0 => k \in idem \/ \E r \in Requests : key[r] = k /\ Sent(r)

Sends ==
    /\ idem \subseteq Keys
    /\ \A k \in Keys \ excusedKeys : OneSend(k)

\* A result is recorded for a message that was transmitted.
Records ==
    /\ \A k \in idem : transmitted[k] >= 1
    /\ \A r \in Requests : pc[r] = "record" => transmitted[key[r]] >= 1

\* The last exchange of a send is a submission.
LEMMA LastIsSubmit ==
  ASSUME Control, NEW r \in Requests, LastStep(r), key[r] # NoKey
  PROVE  Command(r) = "submit"
<1>1. PICK o \in SendOps : o = op[r]
  BY DEF Control
<1>2. Script(o)[5] = "submit" /\ Len(Script(o)) = 5
  BY Scripts DEF AllOps
<1>3. step[r] = 5
  BY <1>1, <1>2 DEF LastStep
<1> QED BY <1>1, <1>2, <1>3 DEF Command

\* A step of r that transmits and stores nothing and starts no send.
LEMMA SameSends ==
  ASSUME Control, Sends, NEW r \in Requests, Others(r), key'[r] \in {key[r], NoKey},
         UNCHANGED <<idem, transmitted>>, excusedKeys \subseteq excusedKeys',
         \A q \in Requests \ {r} : Sent(q) => Sent(q)',
         Sent(r) /\ key[r] # NoKey => Sent(r)' /\ key'[r] = key[r]
  PROVE  Sends'
<1> SUFFICES ASSUME NEW k \in Keys \ excusedKeys' PROVE OneSend(k)'
  BY DEF Sends
<1>1. OneSend(k) /\ k # NoKey
  BY RequestsAssumption DEF Sends
<1>2. \A q \in Requests : key'[q] = k => key[q] = k
  BY <1>1 DEF Others
<1>3. \A q \in Requests : key[q] = k /\ Sent(q) => key'[q] = k /\ Sent(q)'
  BY <1>1 DEF Others
<1> QED BY <1>1, <1>2, <1>3 DEF OneSend

\* A step of r while it exchanges and has no verdict on a last text to read.
LEMMA ExchangeSends ==
  ASSUME Control, Line, Sends, NEW r \in Requests, pc[r] \in Busy, Others(r),
         key'[r] \in {key[r], NoKey}, UNCHANGED <<idem, transmitted>>,
         excusedKeys \subseteq excusedKeys', ~Sent(r)
  PROVE  Sends'
<1>1. \A q \in Requests \ {r} : Sent(q) => Sent(q)'
  BY Alone DEF Sent, Others, Busy
<1> QED BY <1>1, SameSends

\* Only a submission that the modem accepted goes on to the record.
LEMMA RecordsOnlySent ==
  ASSUME Control, Line, Records, NEW r \in Requests, NEW ok \in BOOLEAN, Proceed(r, ok),
         \/ Plain(r)
         \/ pc[r] = "payload" /\ Final(answers) /\ ok = Accepted(answers),
         UNCHANGED <<idem, transmitted>>
  PROVE  Records'
<1>1. Others(r) /\ Proceeds(r, ok)
  BY ProceedIs
<1>2. ASSUME pc'[r] = "record" PROVE transmitted[key[r]] >= 1 /\ key'[r] = key[r]
  <2>1. Moved(r, "record") /\ Passed(r, ok) /\ LastStep(r) /\ key[r] # NoKey
    BY <1>1, <1>2 DEF Proceeds, Advanced, Moved, Returned
  <2>2. Command(r) = "submit"
    BY <2>1, LastIsSubmit
  <2>3. pc[r] = "payload" /\ Final(answers) /\ ok = Accepted(answers)
    BY <2>2 DEF Plain
  <2>4. ok
    BY <2>1, <2>2 DEF Passed, Checked
  <2>5. answers = Good /\ Judged(r)
    BY <2>3, <2>4, Judgements DEF Line, Verdict, Pending, Judged
  <2> QED BY <2>1, <2>5, Judgements DEF Judged, Moved
<1> QED BY <1>1, <1>2 DEF Records, Others

LEMMA SendSends ==
  ASSUME Control, Line, Sends, NEW r \in Requests, SendSMS(r)
  PROVE  Sends'
<1>1. PICK k \in SendKeys, expired \in SUBSET idem :
         /\ pc[r] = "idle" /\ k \notin idem \ expired /\ idem' = idem \ expired
         /\ pc' = [pc EXCEPT ![r] = "lock"] /\ key' = [key EXCEPT ![r] = k]
         /\ excusedKeys' = excusedKeys \cup expired
                \cup {x \in {k} \cap Keys : \E q \in Requests : key[q] = x}
         /\ UNCHANGED <<step, todo, answers, transmitted>>
         /\ \E o \in SendOps \cap Ops : op' = [op EXCEPT ![r] = o]
  BY DEF SendSMS, line
<1>2. /\ \A q \in Requests : key'[q] = IF q = r THEN k ELSE key[q]
      /\ \A q \in Requests \ {r} : Sent(q) => Sent(q)'
      /\ ~Sent(r) /\ key[r] = NoKey
  BY <1>1 DEF Control, LocalsOK, Sent, LastStep
<1> SUFFICES ASSUME NEW j \in Keys \ excusedKeys' PROVE OneSend(j)'
  BY <1>1 DEF Sends
<1>3. OneSend(j) /\ j \notin expired /\ j # NoKey
  BY <1>1, RequestsAssumption DEF Sends
<1>4. CASE j = k
  <2>1. \A q \in Requests : key[q] # j
    BY <1>1, <1>4
  <2>2. j \notin idem
    BY <1>1, <1>3, <1>4
  <2> QED BY <1>1, <1>2, <1>3, <1>4, <2>1, <2>2 DEF OneSend
<1>5. CASE j # k
  <2>1. \A q \in Requests : key'[q] = j <=> key[q] = j
    BY <1>2, <1>3, <1>5
  <2>2. \A q \in Requests : key[q] = j /\ Sent(q) => Sent(q)'
    BY <1>2
  <2>3. (j \in idem') = (j \in idem)
    BY <1>1, <1>3
  <2> QED BY <1>1, <1>3, <2>1, <2>2, <2>3 DEF OneSend
<1> QED BY <1>4, <1>5

LEMMA RecordSends ==
  ASSUME Control, Line, Sends, NEW r \in Requests, Record(r)
  PROVE  Sends'
<1>1. /\ pc[r] = "record" /\ idem' = idem \cup {key[r]} /\ Return(r)
      /\ UNCHANGED <<todo, answers, transmitted, excusedKeys>>
  BY DEF Record, line, history
<1>2. Returned(r) /\ Others(r)
  BY <1>1, ReturnIs DEF Control, LocalsOK, LocalsTyped
<1>3. key[r] \in Keys
  BY <1>1 DEF Control, LocalsOK
<1> SUFFICES ASSUME NEW j \in Keys \ excusedKeys' PROVE OneSend(j)'
  BY <1>1, <1>3 DEF Sends
<1>4. OneSend(j) /\ j # NoKey
  BY <1>1, RequestsAssumption DEF Sends
<1>5. \A q \in Requests : key'[q] = j => key[q] = j /\ q # r
  BY <1>2, <1>4 DEF Others, Returned
<1>6. \A q \in Requests \ {r} : Sent(q) => Sent(q)'
  BY <1>1, <1>2 DEF Sent, Others, LastStep
<1>7. \A p, q \in Requests : key'[p] = j /\ key'[q] = j => p = q
  BY <1>4, <1>5 DEF OneSend
<1>8. j \in idem' => \A q \in Requests : key'[q] # j
  BY <1>1, <1>4, <1>5 DEF OneSend
<1>9. transmitted'[j] # 0 => j \in idem' \/ \E q \in Requests : key'[q] = j /\ Sent(q)'
  BY <1>1, <1>2, <1>4, <1>6 DEF OneSend, Others
<1> QED BY <1>1, <1>4, <1>7, <1>8, <1>9 DEF OneSend

LEMMA VerdictSends ==
  ASSUME Control, Line, Sends, NEW r \in Requests, ReadPayload(r)
  PROVE  Sends'
<1>1. /\ pc[r] = "payload" /\ Final(answers) /\ Proceed(r, Accepted(answers))
      /\ UNCHANGED <<idem, transmitted, excusedKeys>>
  BY DEF ReadPayload, guard, history
<1>2. PICK ok \in BOOLEAN : ok = Accepted(answers) /\ Proceed(r, ok)
  BY <1>1 DEF Accepted, Has
<1>3. Others(r) /\ Proceeds(r, ok)
  BY <1>2, ProceedIs
<1>4. key'[r] \in {key[r], NoKey}
  BY <1>3 DEF Proceeds, Advanced, Moved, Returned
<1>5. \A q \in Requests \ {r} : Sent(q) => Sent(q)'
  BY <1>1, <1>3, Alone DEF Sent, Others, Busy
<1>6. CASE Sent(r) /\ key[r] # NoKey
  <2>1. LastStep(r) /\ Passed(r, ok)
    BY <1>1, <1>2, <1>6, Judgements DEF Sent, Passed
  <2>2. Moved(r, "record")
    BY <1>3, <1>6, <2>1 DEF Proceeds
  <2> QED BY <1>1, <1>3, <1>4, <1>5, <2>2, SameSends DEF Sent, Moved
<1>7. CASE ~Sent(r) \/ key[r] = NoKey
  BY <1>1, <1>3, <1>4, <1>5, <1>7, SameSends
<1> QED BY <1>6, <1>7

LEMMA ExecuteSends ==
  ASSUME Control, Line, Sends, Records, Execute
  PROVE  Sends' /\ Records'
<1> DEFINE head == Head(todo)
<1>1. /\ todo # <<>> /\ todo' = Tail(todo) /\ UNCHANGED <<locals, idem, excusedKeys>>
      /\ TakeText(head) \/ Ignore(head) \/ AskForText(head) \/ Obey(head)
  BY DEF Execute, guard
<1>2. /\ Len(todo) >= 1 /\ Len(todo) \in Nat /\ head = todo[1] /\ head \in Written
      /\ Len(todo) = 1 => todo' = <<>>
  <2>1. PICK s \in Seq(Written) : s = todo
    BY DEF Line, LineOK
  <2> QED BY <1>1, <2>1, TailIs, LenProperties, EmptySeq
<1> HIDE DEF head
<1>3. \A q \in Requests : /\ pc'[q] = pc[q] /\ key'[q] = key[q] /\ LastStep(q)' = LastStep(q)
  BY <1>1 DEF locals, LastStep
<1>4. ~(\E q \in Requests : pc[q] = "payload" /\ Sent(q))
  BY <1>1 DEF Sent
<1>5. CASE UNCHANGED transmitted
  <2>1. \A q \in Requests : Sent(q) => Sent(q)'
    BY <1>3, <1>4 DEF Sent
  <2>2. Records'
    BY <1>1, <1>3, <1>5 DEF Records
  <2>3. Sends'
    BY <1>1, <1>3, <1>5, <2>1 DEF Sends, OneSend
  <2> QED BY <2>2, <2>3
<1>6. CASE ~UNCHANGED transmitted
  <2>1. /\ head.command = "payload" /\ Respond(head, "ok")
        /\ transmitted' = [k \in Keys |-> IF k = head.key THEN SaturatedInc(transmitted[k])
                                          ELSE transmitted[k]]
    BY <1>1, <1>6 DEF TakeText, Ignore, AskForText, Obey, modem
  <2>2. \A k \in Keys : /\ transmitted[k] \in 0..2 /\ transmitted'[k] \in 0..2
                        /\ transmitted'[k] >= transmitted[k]
                        /\ k # head.key => transmitted'[k] = transmitted[k]
                        /\ transmitted[k] = 0 => transmitted'[k] <= 1
    BY <2>1 DEF Line, LineOK, SaturatedInc
  <2>3. Records'
    <3>1. \A k \in idem : transmitted'[k] >= 1
      BY <2>2 DEF Records, Sends
    <3>2. \A q \in Requests : pc[q] = "record" => transmitted'[key[q]] >= 1
      <4>1. \A q \in Requests : pc[q] = "record" => key[q] \in Keys
        BY DEF Control, LocalsOK
      <4> QED BY <2>2, <4>1 DEF Records
    <3> QED BY <1>1, <1>3, <3>1, <3>2 DEF Records
  <2>4. ASSUME NEW k \in Keys \ excusedKeys PROVE OneSend(k)'
    <3>1. OneSend(k) /\ k # NoKey
      BY RequestsAssumption DEF Sends
    <3>2. \A q \in Requests : key[q] = k /\ Sent(q) => pc[q] = "record" /\ Sent(q)'
      BY <1>3, <1>4 DEF Sent
    <3>3. CASE k # head.key
      BY <1>1, <1>3, <2>2, <3>1, <3>2, <3>3 DEF OneSend
    <3>4. CASE k = head.key
      <4>1. PICK q \in Requests : pc[q] = "payload" /\ LastStep(q) /\ key[q] = k
        <5>1. 1 \in 1..Len(todo) /\ todo[1].key = k /\ todo[1].key # NoKey
          BY <1>2, <3>1, <3>4
        <5> QED BY <5>1 DEF Line, KeyedTexts
      <4>2. transmitted[k] = 0
        <5>1. k \notin idem
          BY <3>1, <4>1 DEF OneSend
        <5>2. \A p \in Requests : key[p] = k => p = q
          BY <3>1, <4>1 DEF OneSend
        <5> QED BY <3>1, <3>2, <4>1, <5>1, <5>2 DEF OneSend
      <4>3. Pending(q)
        BY <1>1, <4>1 DEF Line, Verdict, Judged
      <4>4. todo' = <<>>
        <5>1. todo[Len(todo)].command = "payload"
          BY <4>3 DEF Pending, Text
        <5>2. Len(todo) = 1
          <6>1. 1 \in 1..Len(todo) /\ Len(todo) \in 1..Len(todo) /\ todo[1].command = "payload"
            BY <1>2, <2>1
          <6> QED BY <5>1, <6>1 DEF Line, OneText
        <5> QED BY <1>2, <5>2
      <4>5. answers' = Good
        <5>1. head.late = FALSE
          <6>1. head = Text(q)
            BY <1>1, <1>2, <2>1, <4>3, <4>4 DEF Pending, Text, Line, OneText
          <6> QED BY <6>1 DEF Text
        <5> QED BY <2>1, <4>3, <5>1 DEF Respond, Pending, Good
      <4>6. Sent(q)'
        BY <1>3, <4>1, <4>4, <4>5 DEF Sent
      <4>7. transmitted'[k] <= 1
        BY <2>2, <4>2
      <4> QED BY <1>1, <1>3, <3>1, <4>1, <4>6, <4>7 DEF OneSend
    <3> QED BY <3>3, <3>4
  <2> QED BY <1>1, <2>3, <2>4 DEF Sends
<1> QED BY <1>5, <1>6

LEMMA InitSends == Init => Sends /\ Records
<1> SUFFICES ASSUME Init PROVE Sends /\ Records
  OBVIOUS
<1>1. /\ idem = {} /\ \A k \in Keys : transmitted[k] = 0
      /\ \A r \in Requests : key[r] = NoKey /\ pc[r] = "idle"
  BY DEF Init
<1>2. \A k \in Keys : OneSend(k)
  BY <1>1, RequestsAssumption DEF OneSend
<1> QED BY <1>1, <1>2 DEF Sends, Records

LEMMA NextSends ==
  Control /\ Line /\ ForgedOK /\ Sends /\ Records /\ [Next]_vars => Sends' /\ Records'
<1> SUFFICES ASSUME Control, Line, ForgedOK, Sends, Records, [Next]_vars
             PROVE  Sends' /\ Records'
  OBVIOUS
<1>0. LocalsTyped
  BY DEF Control, LocalsOK, LocalsTyped
<1>a. UNCHANGED <<locals, idem, todo, answers, transmitted, excusedKeys>> => Sends' /\ Records'
  BY DEF Sends, Records, OneSend, Sent, LastStep, locals
\* A step of r that leaves the results alone and does not lead to a record.
<1>b. ASSUME NEW r \in Requests, Others(r), pc'[r] # "record", UNCHANGED <<idem, transmitted>>
      PROVE  Records'
  BY <1>b DEF Records, Others
<1>1. ASSUME NEW r \in Requests, SendSMS(r) PROVE Sends' /\ Records'
  <2>1. /\ pc' = [pc EXCEPT ![r] = "lock"] /\ step' = step /\ transmitted' = transmitted
        /\ idem' \subseteq idem
        /\ \E k \in SendKeys : key' = [key EXCEPT ![r] = k]
    BY <1>1 DEF SendSMS
  <2>2. Records'
    BY <2>1 DEF Records, Control, LocalsOK
  <2> QED BY <1>1, <2>2, SendSends
<1>2. ASSUME NEW r \in Requests, OtherRequest(r) \/ AcquireAT(r) PROVE Sends' /\ Records'
  <2>1. /\ pc[r] \in {"idle", "lock"} /\ pc'[r] \in {"lock", "write"} /\ Others(r)
        /\ key'[r] = key[r]
        /\ UNCHANGED <<idem, todo, answers, transmitted, excusedKeys>>
    BY <1>2 DEF OtherRequest, AcquireAT, Goto, Others, Control, LocalsOK, guard, line, history
  <2>2. ~Sent(r) /\ \A q \in Requests \ {r} : Sent(q) => Sent(q)'
    BY <2>1 DEF Sent, Others, LastStep
  <2> QED BY <1>b, <2>1, <2>2, SameSends
<1>3. ASSUME NEW r \in Requests, Write(r) \/ Reopen(r) PROVE Sends' /\ Records'
  <2>1. /\ pc[r] \in {"write", "reopen"} /\ pc'[r] \in {"read", "write"} /\ Others(r)
        /\ key'[r] = key[r] /\ UNCHANGED <<idem, transmitted, excusedKeys>>
    BY <1>3 DEF Write, Reopen, Goto, Others, Control, LocalsOK, guard, history
  <2> QED BY <1>b, <2>1, ExchangeSends DEF Sent, Busy
<1>4. ASSUME NEW r \in Requests, ReadPlain(r) \/ TimeoutPlain(r) PROVE Sends' /\ Records'
  <2>1. PICK ok \in BOOLEAN :
           Plain(r) /\ Proceed(r, ok) /\ UNCHANGED <<idem, transmitted, excusedKeys>>
    BY <1>4 DEF ReadPlain, TimeoutPlain, Has, guard, history
  <2>2. pc[r] = "read"
    BY <2>1 DEF Plain
  <2>3. Others(r) /\ key'[r] \in {key[r], NoKey}
    BY <2>1, ProceedIs DEF Proceeds, Advanced, Moved, Returned
  <2>4. Sends'
    BY <2>1, <2>2, <2>3, ExchangeSends DEF Sent, Busy
  <2>5. Records'
    BY <2>1, RecordsOnlySent
  <2> QED BY <2>4, <2>5
<1>5. ASSUME NEW r \in Requests, ReadPrompt(r) \/ TimeoutPrompt(r) PROVE Sends' /\ Records'
  <2>1. /\ pc[r] = "read" /\ (Goto(r, "payload") \/ Return(r))
        /\ UNCHANGED <<idem, transmitted, excusedKeys>>
    BY <1>5 DEF ReadPrompt, TimeoutPrompt, GiveUp, AtPrompt, guard, history
  <2>2. Others(r) /\ key'[r] \in {key[r], NoKey} /\ pc'[r] # "record"
    <3>1. CASE Return(r)
      BY <1>0, <3>1, ReturnIs DEF Returned
    <3>2. CASE Goto(r, "payload")
      BY <1>0, <3>2 DEF Goto, Others, LocalsTyped
    <3> QED BY <2>1, <3>1, <3>2
  <2> QED BY <1>b, <2>1, <2>2, ExchangeSends DEF Sent, Busy
<1>6. ASSUME NEW r \in Requests, TimeoutPayload(r) PROVE Sends' /\ Records'
  <2>1. /\ pc[r] = "payload" /\ ~Final(answers) /\ Return(r)
        /\ UNCHANGED <<idem, transmitted>> /\ excusedKeys \subseteq excusedKeys'
    BY <1>6 DEF TimeoutPayload, GiveUp, guard
  <2>2. Others(r) /\ key'[r] = NoKey /\ pc'[r] = "idle"
    BY <1>0, <2>1, ReturnIs DEF Returned
  <2>3. ~Sent(r)
    BY <2>1, Judgements DEF Sent
  <2> QED BY <1>b, <2>1, <2>2, <2>3, ExchangeSends DEF Busy
<1>7. ASSUME NEW r \in Requests, ReadPayload(r) PROVE Sends' /\ Records'
  <2>1. PICK ok \in BOOLEAN :
           /\ pc[r] = "payload" /\ Final(answers) /\ ok = Accepted(answers) /\ Proceed(r, ok)
           /\ UNCHANGED <<idem, transmitted>>
    BY <1>7 DEF ReadPayload, Accepted, Has, guard, history
  <2>2. Records'
    BY <2>1, RecordsOnlySent
  <2> QED BY <1>7, <2>2, VerdictSends
<1>8. ASSUME NEW r \in Requests, Record(r) PROVE Sends' /\ Records'
  <2>1. /\ pc[r] = "record" /\ Return(r) /\ idem' = idem \cup {key[r]}
        /\ transmitted' = transmitted
    BY <1>8 DEF Record, history
  <2>2. Others(r) /\ pc'[r] = "idle"
    BY <1>0, <2>1, ReturnIs DEF Returned
  <2>3. Records'
    BY <2>1, <2>2 DEF Records, Others
  <2> QED BY <1>8, <2>3, RecordSends
<1>9. CASE Execute
  BY <1>9, ExecuteSends
<1>r. CASE Recite
  <2>1. UNCHANGED <<locals, idem, transmitted, excusedKeys>>
    BY <1>r, ReciteIs DEF guard
  <2>2. \A q \in Requests : pc[q] # "payload"
    BY <1>r, ReciteLine
  <2>3. \A q \in Requests : Sent(q) => Sent(q)'
    BY <2>1, <2>2 DEF Sent, locals
  <2> QED BY <2>1, <2>3 DEF Sends, Records, OneSend, locals
<1>10. CASE DrainSMSNotifications \/ URCArrives \/ Tick
  BY <1>a, <1>10 DEF DrainSMSNotifications, URCArrives, Tick, line, history, guard
<1>11. CASE UNCHANGED vars
  BY <1>a, <1>11 DEF vars, line, history, guard
<1> QED BY <1>1, <1>2, <1>3, <1>4, <1>5, <1>6, <1>7, <1>8, <1>9, <1>10, <1>11, <1>r DEF Next

-----------------------------------------------------------------------------
(***************************************************************************)
(* As long as no exchange was given up and no text read like an answer,    *)
(* nothing on the line is from an earlier one: an exchange begins on a quiet line, and when its answer    *)
(* has come there is no command left.  So only the holder's own commands   *)
(* set the format and the character set, and it goes on after their OK     *)
(* only.                                                                   *)
(***************************************************************************)
Own(r) == [command |-> Command(r), late |-> FALSE, key |-> NoKey]

Quiet == todo = <<>> /\ answers = {}

InStep ==
    /\ timeouts \in Nat
    /\ timeouts = 0 =>
         /\ \A i \in 1..Len(todo) : todo[i].late = FALSE
         /\ \A item \in answers : item.late = FALSE
         /\ (\A r \in Requests : pc[r] \notin {"read", "payload"}) => Quiet
         /\ \A r \in Requests : pc[r] = "read" =>
               \/ todo = <<>>
               \/ Len(todo) = 1 /\ todo[1] = Own(r) /\ answers = {}

Format(o) == IF o = "sendMulti" THEN "pdu" ELSE "text"

IsCharset(o, set) == (o = "sendGSM" => set = "gsm") /\ (o = "sendUCS2" => set = "ucs2")

\* The set-up of the modem that a request has made.
SetUpOf(r) ==
    /\ step[r] >= 4 => format = Format(op[r])
    /\ step[r] = 3 /\ pc[r] = "read" /\ Has(answers, "ok") => format = Format(op[r])
    /\ step[r] >= 5 => IsCharset(op[r], charset)
    /\ step[r] = 4 /\ pc[r] = "read" /\ Has(answers, "ok") => IsCharset(op[r], charset)

SetUp ==
    timeouts = 0 => \A r \in Requests : pc[r] \in Busy /\ op[r] \in SendOps => SetUpOf(r)

LEMMA SendCommands ==
  ASSUME Control, NEW r \in Requests, op[r] \in SendOps
  PROVE  /\ step[r] \in 1..5
         /\ step[r] < 3 => Command(r) \in {"ping", "cnmi"}
         /\ step[r] = 3 => Command(r) = IF op[r] = "sendMulti" THEN "pdu" ELSE "text"
         /\ step[r] = 4 /\ op[r] = "sendGSM" => Command(r) = "gsm"
         /\ step[r] = 4 /\ op[r] = "sendUCS2" => Command(r) = "ucs2"
         /\ step[r] = 4 /\ op[r] = "sendMulti" => Command(r) = "submit"
         /\ step[r] = 5 => Command(r) = "submit"
<1>1. PICK o \in SendOps : o = op[r]
  OBVIOUS
<1>2. PICK i \in 1..5 : i = step[r]
  BY DEF Control, LocalsOK
<1>3. Command(r) = Script(o)[i]
  BY <1>1, <1>2 DEF Command
<1>4. /\ Script(o)[5] = "submit" /\ Script(o)[1] = "ping" /\ Script(o)[2] = "cnmi"
      /\ Script(o)[3] = IF o = "sendMulti" THEN "pdu" ELSE "text"
      /\ o = "sendGSM" => Script(o)[4] = "gsm"
      /\ o = "sendUCS2" => Script(o)[4] = "ucs2"
      /\ o = "sendMulti" => Script(o)[4] = "submit"
  BY Scripts DEF AllOps
<1>5. i < 3 => i = 1 \/ i = 2
  OBVIOUS
<1> QED BY <1>1, <1>2, <1>3, <1>4, <1>5

\* Only sends have a submission, after the set-up.
LEMMA SubmissionIsSend ==
  ASSUME Control, NEW r \in Requests, Command(r) = "submit"
  PROVE  /\ op[r] \in SendOps /\ step[r] >= 4
         /\ step[r] = 4 => op[r] = "sendMulti"
<1>1. PICK o \in AllOps : o = op[r]
  BY DEF Control, LocalsOK
<1>2. PICK i \in 1..Len(Script(o)) : i = step[r]
  BY <1>1 DEF Control, Steps
<1>3. Script(o)[i] = "submit"
  BY <1>1, <1>2 DEF Command
<1>4. op[r] \in SendOps
  BY <1>1, <1>2, <1>3, Scripts
<1> QED BY <1>4, SendCommands DEF SendOps

LEMMA ExecuteSetUp ==
  ASSUME Control, Line, InStep, SetUp, Execute
  PROVE  InStep' /\ SetUp'
<1> DEFINE head == Head(todo)
<1>1. /\ todo # <<>> /\ todo' = Tail(todo) /\ UNCHANGED <<locals, timeouts>>
      /\ TakeText(head) \/ Ignore(head) \/ AskForText(head) \/ Obey(head)
  BY DEF Execute
<1>2. /\ Len(todo) \in Nat /\ Len(todo) >= 1 /\ head = todo[1] /\ Len(todo') = Len(todo) - 1
      /\ \A i \in 1..(Len(todo) - 1) : todo'[i] = todo[i + 1]
      /\ Len(todo) = 1 => todo' = <<>>
  <2>1. PICK s \in Seq(Written) : s = todo
    BY DEF Line, LineOK
  <2> QED BY <1>1, <2>1, TailIs, LenProperties, EmptySeq
<1> HIDE DEF head
<1>3. \A q \in Requests : pc'[q] = pc[q] /\ op'[q] = op[q] /\ step'[q] = step[q]
  BY <1>1 DEF locals
<1> SUFFICES ASSUME timeouts = 0
             PROVE  /\ \A i \in 1..Len(todo') : todo'[i].late = FALSE
                    /\ \A item \in answers' : item.late = FALSE
                    /\ (\A r \in Requests : pc[r] \notin {"read", "payload"}) => FALSE
                    /\ \A r \in Requests : pc[r] = "read" => todo' = <<>>
                    /\ \A r \in Requests : pc[r] \in Busy /\ op[r] \in SendOps => SetUpOf(r)'
  BY <1>1, <1>3 DEF InStep, SetUp
<1>4. \A i \in 1..Len(todo') : todo'[i].late = FALSE
  <2>1. \A i \in 1..(Len(todo) - 1) : i + 1 \in 1..Len(todo)
    BY <1>2
  <2> QED BY <1>2, <2>1 DEF InStep
<1>5. head.late = FALSE
  BY <1>2 DEF InStep
<1>6. \A item \in answers' : item.late = FALSE
  BY <1>1, <1>5 DEF InStep, TakeText, Ignore, AskForText, Obey, Respond
<1>7. ~\A r \in Requests : pc[r] \notin {"read", "payload"}
  BY <1>1 DEF InStep, Quiet
<1>8. ASSUME NEW r \in Requests, pc[r] = "read"
      PROVE  todo' = <<>> /\ head = Own(r) /\ answers = {}
  BY <1>1, <1>2, <1>8 DEF InStep
<1>9. ASSUME NEW r \in Requests, pc[r] \in Busy, op[r] \in SendOps PROVE SetUpOf(r)'
  <2>1. SetUpOf(r) /\ pc[r] \in {"read", "payload"}
    <3>1. SetUpOf(r)
      BY <1>9 DEF SetUp
    <3>2. PICK q \in Requests : pc[q] \in {"read", "payload"}
      BY <1>7
    <3>3. q = r
      BY <1>9, <3>2, Alone DEF Busy
    <3> QED BY <3>1, <3>2, <3>3
  <2>2. CASE UNCHANGED <<format, charset>> /\ pc[r] = "payload"
    BY <1>3, <2>1, <2>2 DEF SetUpOf
  <2>3. CASE pc[r] = "payload"
    <3>1. Pending(r)
      BY <1>1, <2>3 DEF Line, Verdict, Judged
    <3>2. todo[Len(todo)].command = "payload" /\ Len(todo) \in 1..Len(todo)
      BY <1>2, <3>1 DEF Pending, Text
    <3>3. prompting
      BY <3>2 DEF Line, OneText
    <3>4. UNCHANGED <<format, charset>>
      BY <1>1, <3>3 DEF TakeText, Ignore, AskForText, Obey, modem
    <3> QED BY <2>2, <2>3, <3>4
  <2>4. CASE pc[r] = "read"
    <3>1. head.command = Command(r) /\ answers = {}
      BY <1>8, <2>4 DEF Own
    <3>2. ASSUME step[r] >= 4 PROVE format' = Format(op[r])
      <4>1. Command(r) \in {"gsm", "ucs2", "submit"}
        BY <1>9, <3>2, SendCommands DEF SendOps
      <4>2. format' = format
        BY <1>1, <3>1, <4>1 DEF TakeText, Ignore, AskForText, Obey, modem
      <4> QED BY <2>1, <3>2, <4>2 DEF SetUpOf
    <3>3. ASSUME step[r] = 3, Has(answers', "ok") PROVE format' = Format(op[r])
      <4>1. Command(r) = IF op[r] = "sendMulti" THEN "pdu" ELSE "text"
        BY <1>9, <3>3, SendCommands
      <4>2. format' = head.command
        BY <1>1, <3>1, <3>3, <4>1 DEF TakeText, Ignore, AskForText, Obey, Respond, Has
      <4> QED BY <3>1, <4>1, <4>2 DEF Format
    <3>4. ASSUME step[r] >= 5 PROVE IsCharset(op[r], charset')
      <4>1. Command(r) = "submit"
        BY <1>9, <3>4, SendCommands
      <4>2. charset' = charset
        BY <1>1, <3>1, <4>1 DEF TakeText, Ignore, AskForText, Obey, modem
      <4> QED BY <2>1, <3>4, <4>2 DEF SetUpOf
    <3>5. ASSUME step[r] = 4, Has(answers', "ok") PROVE IsCharset(op[r], charset')
      <4>1. CASE op[r] = "sendMulti"
        BY <4>1 DEF IsCharset
      <4>2. CASE op[r] # "sendMulti"
        <5>1. /\ op[r] = "sendGSM" => Command(r) = "gsm"
              /\ op[r] = "sendUCS2" => Command(r) = "ucs2"
              /\ op[r] \in {"sendGSM", "sendUCS2"}
          BY <1>9, <3>5, <4>2, SendCommands DEF SendOps
        <5>2. charset' = head.command
          BY <1>1, <3>1, <3>5, <5>1 DEF TakeText, Ignore, AskForText, Obey, Respond, Has
        <5> QED BY <3>1, <5>1, <5>2 DEF IsCharset
      <4> QED BY <4>1, <4>2
    <3> QED BY <1>3, <3>2, <3>3, <3>4, <3>5 DEF SetUpOf
  <2> QED BY <2>1, <2>3, <2>4
<1> QED BY <1>4, <1>6, <1>7, <1>8, <1>9

\* The holder's set-up when its exchange has ended.
LEMMA ProceedSetUp ==
  ASSUME Control, Line, InStep, SetUp, timeouts = 0, timeouts' = timeouts,
         NEW r \in Requests, pc[r] \in {"read", "payload"}, NEW ok \in BOOLEAN, Proceed(r, ok),
         ok => Has(answers, "ok"), todo = <<>>, UNCHANGED modem
  PROVE  InStep' /\ SetUp'
<1>1. Others(r) /\ Proceeds(r, ok) /\ todo' = MarkLate(todo) /\ answers' = {}
  BY ProceedIs
<1>2. todo' = <<>> /\ Len(todo') = 0
  <2>1. PICK s \in Seq(Written) : s = todo
    BY DEF Line, LineOK
  <2> QED BY <1>1, <2>1, MarkLateIs
<1>3. InStep'
  BY <1>1, <1>2 DEF InStep, Quiet
<1>4. \A q \in Requests \ {r} : pc'[q] \notin Busy
  BY <1>1, Alone DEF Others, Busy
<1>5. ASSUME pc'[r] \in Busy, op'[r] \in SendOps PROVE SetUpOf(r)'
  <2>1. op'[r] = op[r] /\ pc'[r] # "read" /\ ((Advanced(r) /\ Passed(r, ok)) \/ step'[r] = step[r])
    BY <1>1, <1>5 DEF Proceeds, Advanced, Moved, Returned, Busy
  <2>2. SetUpOf(r) /\ op[r] \in SendOps
    BY <1>5, <2>1 DEF SetUp, Busy
  <2>3. CASE step'[r] = step[r]
    BY <2>1, <2>2, <2>3 DEF SetUpOf, modem
  <2>4. CASE Advanced(r) /\ Passed(r, ok)
    <3>1. /\ step[r] \in 1..5 /\ step'[r] = step[r] + 1
          /\ pc[r] = "payload" => Command(r) = "submit"
      BY <2>2, <2>4, SendCommands DEF Advanced, Control
    <3>2. ASSUME step[r] = 3 PROVE format = Format(op[r])
      <4>1. Command(r) \in {"text", "pdu"}
        BY <2>2, <3>2, SendCommands
      <4>2. Has(answers, "ok") /\ pc[r] = "read"
        BY <2>2, <2>4, <3>1, <4>1 DEF Passed, Checked, SendOps
      <4> QED BY <2>2, <3>2, <4>2 DEF SetUpOf
    <3>3. ASSUME step[r] = 4 PROVE IsCharset(op[r], charset)
      <4>1. CASE op[r] = "sendMulti"
        BY <4>1 DEF IsCharset
      <4>2. CASE op[r] # "sendMulti"
        <5>1. Command(r) \in {"gsm", "ucs2"}
          BY <2>2, <3>3, <4>2, SendCommands DEF SendOps
        <5>2. Has(answers, "ok") /\ pc[r] = "read"
          BY <2>2, <2>4, <3>1, <5>1 DEF Passed, Checked
        <5> QED BY <2>2, <3>3, <5>2 DEF SetUpOf
      <4> QED BY <4>1, <4>2
    <3>4. step'[r] >= 4 => step[r] = 3 \/ step[r] >= 4
      BY <3>1
    <3>5. step'[r] >= 5 => step[r] = 4 \/ step[r] >= 5
      BY <3>1
    <3> QED BY <2>1, <2>2, <3>2, <3>3, <3>4, <3>5 DEF SetUpOf, modem
  <2> QED BY <2>1, <2>3, <2>4
<1> QED BY <1>3, <1>4, <1>5 DEF SetUp

LEMMA InitSetUp == Init => InStep /\ SetUp
  BY DEF Init, InStep, SetUp, Quiet, Busy

LEMMA NextSetUp ==
  Control /\ Line /\ InStep /\ SetUp
      /\ ForgedOK /\ forged' = <<>> /\ [Next]_vars
  => InStep' /\ SetUp'
<1> SUFFICES ASSUME Control, Line, InStep, SetUp, ForgedOK, forged' = <<>>, [Next]_vars
             PROVE  InStep' /\ SetUp'
  OBVIOUS
<1>0. LocalsTyped
  BY DEF Control, LocalsOK, LocalsTyped
<1>a. UNCHANGED <<locals, todo, answers, modem, timeouts>> => InStep' /\ SetUp'
  BY DEF InStep, SetUp, SetUpOf, Own, Quiet, Has, locals, modem, Command
\* After an exchange was given up nothing is claimed.
<1>b. timeouts' = timeouts + 1 => InStep' /\ SetUp'
  BY DEF InStep, SetUp
\* A step of r outside the exchanges.
<1>c. ASSUME NEW r \in Requests, Others(r), UNCHANGED <<todo, answers, modem, timeouts>>,
             pc[r] \in {"idle", "lock", "record"}, pc'[r] \notin {"read", "payload"},
             pc'[r] \in Busy => step'[r] = 1
      PROVE  InStep' /\ SetUp'
  <2>1. \A q \in Requests \ {r} : Own(q)' = Own(q)
    BY <1>c DEF Others, Own, Command
  <2>2. InStep'
    BY <1>c, <2>1 DEF InStep, Quiet, Others
  <2>3. \A q \in Requests \ {r} : SetUpOf(q) => SetUpOf(q)'
    BY <1>c DEF SetUpOf, Others, modem, Has
  <2>4. pc'[r] \in Busy => SetUpOf(r)'
    BY <1>c DEF SetUpOf
  <2> QED BY <1>c, <2>2, <2>3, <2>4 DEF SetUp, Others
<1>1. ASSUME NEW r \in Requests, SendSMS(r) \/ OtherRequest(r) PROVE InStep' /\ SetUp'
  <2>1. /\ pc[r] = "idle" /\ pc'[r] = "lock" /\ Others(r)
        /\ UNCHANGED <<todo, answers, modem, timeouts>>
    BY <1>1 DEF SendSMS, OtherRequest, Others, Control, LocalsOK, line, history
  <2> QED BY <1>c, <2>1 DEF Busy
<1>2. ASSUME NEW r \in Requests, AcquireAT(r) PROVE InStep' /\ SetUp'
  <2>1. /\ pc[r] = "lock" /\ pc'[r] = "write" /\ Others(r) /\ step'[r] = 1
        /\ UNCHANGED <<todo, answers, modem, timeouts>>
    BY <1>2 DEF AcquireAT, Goto, Others, Control, LocalsOK, line, history
  <2> QED BY <1>c, <2>1
<1>3. ASSUME NEW r \in Requests, Write(r) PROVE InStep' /\ SetUp'
  <2>1. /\ pc[r] = "write" /\ Goto(r, "read") /\ todo' = Append(todo, Own(r))
        /\ UNCHANGED <<answers, modem, timeouts>>
    BY <1>3 DEF Write, Own, history
  <2>2. Moved(r, "read") /\ Others(r)
    BY <1>0, <2>1, GotoIs DEF Stages
  <2> SUFFICES ASSUME timeouts = 0 PROVE InStep' /\ SetUp'
    BY <2>1 DEF InStep, SetUp
  <2>3. \A q \in Requests \ {r} : pc[q] \notin Busy
    BY <2>1, Alone DEF Busy
  <2>4. Quiet
    BY <2>1, <2>3 DEF InStep, Busy
  <2>5. Own(r)' = Own(r) /\ Own(r).late = FALSE
    BY <2>2 DEF Own, Moved, Command
  <2>6. Len(todo') = 1 /\ todo'[1] = Own(r) /\ answers' = {}
    BY <2>1, <2>4 DEF Quiet
  <2>7. InStep'
    BY <2>1, <2>2, <2>3, <2>5, <2>6 DEF InStep, Others, Moved, Busy
  <2>8. ASSUME op'[r] \in SendOps PROVE SetUpOf(r)'
    <3>1. SetUpOf(r)
      BY <2>1, <2>2, <2>8 DEF SetUp, Busy, Moved
    <3> QED BY <2>1, <2>2, <2>6, <3>1, Judgements DEF SetUpOf, Moved, modem, Has
  <2> QED BY <2>2, <2>3, <2>7, <2>8 DEF SetUp, Others
<1>4. ASSUME NEW r \in Requests, ReadPlain(r) PROVE InStep' /\ SetUp'
  <2>1. PICK ok \in BOOLEAN : /\ ok = Has(answers, "ok") /\ Proceed(r, ok) /\ pc[r] = "read"
                              /\ Final(answers) /\ UNCHANGED <<modem, timeouts>>
    BY <1>4 DEF ReadPlain, Plain, Complete, Has, history
  <2> SUFFICES ASSUME timeouts = 0 PROVE InStep' /\ SetUp'
    BY <2>1 DEF InStep, SetUp
  <2>2. todo = <<>>
    BY <2>1, Judgements DEF InStep
  <2> QED BY <2>1, <2>2, ProceedSetUp
<1>5. ASSUME NEW r \in Requests, TimeoutPlain(r) \/ TimeoutPrompt(r) \/ TimeoutPayload(r)
      PROVE InStep' /\ SetUp'
  BY <1>5, <1>b DEF TimeoutPlain, TimeoutPrompt, TimeoutPayload, GiveUp
<1>6. ASSUME NEW r \in Requests, Reopen(r) PROVE InStep' /\ SetUp'
  <2>1. /\ pc[r] = "reopen" /\ pc' = [pc EXCEPT ![r] = "write"] /\ answers' = {}
        /\ UNCHANGED <<op, key, step, todo, modem, timeouts>>
    BY <1>6 DEF Reopen, history
  <2> SUFFICES ASSUME timeouts = 0 PROVE InStep' /\ SetUp'
    BY <2>1 DEF InStep, SetUp
  <2>2. \A q \in Requests \ {r} : pc[q] \notin Busy
    BY <2>1, Alone DEF Busy
  <2>3. \A q \in Requests : pc'[q] = IF q = r THEN "write" ELSE pc[q]
    BY <2>1 DEF Control, LocalsOK
  <2>4. Quiet
    BY <2>1, <2>2 DEF InStep, Busy
  <2>5. InStep'
    BY <2>1, <2>2, <2>3, <2>4 DEF InStep, Quiet, Busy
  <2>6. op[r] \in SendOps => SetUpOf(r)'
    BY <2>1, <2>3 DEF SetUp, SetUpOf, modem, Busy
  <2> QED BY <2>1, <2>2, <2>3, <2>5, <2>6 DEF SetUp
<1>7. ASSUME NEW r \in Requests, ReadPrompt(r) PROVE InStep' /\ SetUp'
  <2>1. /\ pc[r] = "read" /\ Command(r) = "submit" /\ answers' = {} /\ answers # {}
        /\ UNCHANGED <<modem, timeouts>>
        /\ \/ Goto(r, "payload") /\ todo' = Append(todo, Text(r))
           \/ Return(r) /\ todo' = MarkLate(todo)
    BY <1>7 DEF ReadPrompt, AtPrompt, Text, history, Has
  <2> SUFFICES ASSUME timeouts = 0 PROVE InStep' /\ SetUp'
    BY <2>1 DEF InStep, SetUp
  <2>2. \A q \in Requests \ {r} : pc[q] \notin Busy
    BY <2>1, Alone DEF Busy
  <2>3. todo = <<>>
    BY <2>1 DEF InStep
  <2>4. CASE Return(r) /\ todo' = MarkLate(todo)
    <3>1. Others(r) /\ pc'[r] = "idle"
      BY <1>0, <2>4, ReturnIs DEF Returned
    <3>2. todo' = <<>> /\ Len(todo') = 0
      <4>1. PICK s \in Seq(Written) : s = todo
        BY DEF Line, LineOK
      <4> QED BY <2>3, <2>4, <4>1, MarkLateIs
    <3> QED BY <2>1, <2>2, <3>1, <3>2 DEF InStep, SetUp, Quiet, Others, Busy
  <2>5. CASE Goto(r, "payload") /\ todo' = Append(todo, Text(r))
    <3>1. Moved(r, "payload") /\ Others(r)
      BY <1>0, <2>5, GotoIs DEF Stages
    <3>2. Len(todo') = 1 /\ todo'[1] = Text(r) /\ Text(r).late = FALSE
      BY <2>3, <2>5 DEF Text
    <3>3. InStep'
      BY <2>1, <2>2, <3>1, <3>2 DEF InStep, Others, Moved, Busy
    <3>4. op'[r] \in SendOps => SetUpOf(r)'
      BY <2>1, <3>1 DEF SetUp, SetUpOf, Moved, modem, Busy
    <3> QED BY <2>2, <3>1, <3>3, <3>4 DEF SetUp, Others
  <2> QED BY <2>1, <2>4, <2>5
<1>8. ASSUME NEW r \in Requests, ReadPayload(r) PROVE InStep' /\ SetUp'
  <2>1. PICK ok \in BOOLEAN : /\ ok = Accepted(answers) /\ Proceed(r, ok) /\ pc[r] = "payload"
                              /\ Final(answers) /\ UNCHANGED <<modem, timeouts>>
    BY <1>8 DEF ReadPayload, Accepted, Has, history
  <2> SUFFICES ASSUME timeouts = 0 PROVE InStep' /\ SetUp'
    BY <2>1 DEF InStep, SetUp
  <2>2. todo = <<>>
    BY <2>1, Judgements DEF Line, Verdict, Pending, Judged
  <2>3. ok => Has(answers, "ok")
    BY <2>1 DEF Accepted
  <2> QED BY <2>1, <2>2, <2>3, ProceedSetUp
<1>9. ASSUME NEW r \in Requests, Record(r) PROVE InStep' /\ SetUp'
  <2>1. /\ pc[r] = "record" /\ Return(r) /\ UNCHANGED <<todo, answers, modem, timeouts>>
    BY <1>9 DEF Record, line, history
  <2>2. Others(r) /\ pc'[r] = "idle"
    BY <1>0, <2>1, ReturnIs DEF Returned
  <2> QED BY <1>c, <2>1, <2>2 DEF Busy
<1>10. CASE Execute
  BY <1>10, ExecuteSetUp
<1>11. CASE DrainSMSNotifications \/ URCArrives \/ Tick
  BY <1>a, <1>11 DEF DrainSMSNotifications, URCArrives, Tick, line, history
<1>12. CASE UNCHANGED vars
  BY <1>a, <1>12 DEF vars, line, history
<1> QED BY <1>1, <1>2, <1>3, <1>4, <1>5, <1>6, <1>7, <1>8, <1>9, <1>10, <1>11, <1>12, ReciteIs DEF Next

-----------------------------------------------------------------------------
(***************************************************************************)
(* The notifications.  They come in the order of their numbers and keep it *)
(* on their way: those handed out are older than those in the queue, which *)
(* are older than those on the line.  What a full queue drops is older     *)
(* than all it keeps.                                                      *)
(***************************************************************************)
Rising(s) == \A i, j \in 1..Len(s) : i < j => s[i] < s[j]

Before(s, t) == \A x \in Range(s), y \in Range(t) : x < y

LEMMA RangeIs ==
  ASSUME NEW s \in Seq(URCIds)
  PROVE  /\ Range(s) \subseteq URCIds
         /\ \A i \in 1..Len(s) : s[i] \in Range(s)
         /\ \A x \in Range(s) : \E i \in 1..Len(s) : s[i] = x
<1>1. DOMAIN s = 1..Len(s) /\ \A i \in 1..Len(s) : s[i] \in URCIds
  OBVIOUS
<1> QED BY <1>1 DEF Range

LEMMA EmptyIs == <<>> \in Seq(URCIds) /\ Len(<<>>) = 0 /\ Range(<<>>) = {} /\ Rising(<<>>)
  BY DEF Range, Rising

LEMMA ConcatIs ==
  ASSUME NEW s \in Seq(URCIds), NEW t \in Seq(URCIds), Rising(s), Rising(t), Before(s, t)
  PROVE  /\ s \o t \in Seq(URCIds) /\ Rising(s \o t)
         /\ Range(s \o t) = Range(s) \cup Range(t)
<1>1. PICK q \in Seq(URCIds) : q = s \o t
  BY ConcatProperties
<1>2. PICK m \in Nat : m = Len(s)
  OBVIOUS
<1>3. PICK n \in Nat : n = Len(t)
  OBVIOUS
<1>4. /\ Len(q) = m + n
      /\ \A i \in 1..m : q[i] = s[i]
      /\ \A i \in 1..n : q[m + i] = t[i]
      /\ \A i \in 1..(m + n) : i > m => i - m \in 1..n /\ q[i] = t[i - m]
  BY <1>1, <1>2, <1>3, ConcatProperties
<1>5. Range(q) = Range(s) \cup Range(t)
  <2>1. ASSUME NEW x \in Range(q) PROVE x \in Range(s) \cup Range(t)
    <3>1. PICK i \in 1..(m + n) : q[i] = x
      BY <1>4, RangeIs
    <3>2. CASE i <= m
      BY <1>2, <1>4, <3>1, <3>2, RangeIs
    <3>3. CASE i > m
      BY <1>3, <1>4, <3>1, <3>3, RangeIs
    <3> QED BY <3>2, <3>3
  <2>2. ASSUME NEW x \in Range(s) PROVE x \in Range(q)
    <3>1. PICK i \in 1..m : s[i] = x
      BY <1>2, RangeIs
    <3>2. i \in 1..Len(q)
      BY <1>4
    <3> QED BY <1>4, <3>1, <3>2, RangeIs
  <2>3. ASSUME NEW x \in Range(t) PROVE x \in Range(q)
    <3>1. PICK i \in 1..n : t[i] = x
      BY <1>3, RangeIs
    <3>2. m + i \in 1..Len(q)
      BY <1>4
    <3> QED BY <1>4, <3>1, <3>2, RangeIs
  <2> QED BY <2>1, <2>2, <2>3
<1>6. ASSUME NEW i \in 1..(m + n), NEW j \in 1..(m + n), i < j PROVE q[i] < q[j]
  <2>1. CASE j <= m
    BY <1>2, <1>4, <1>6, <2>1 DEF Rising
  <2>2. CASE i > m
    <3>1. i - m \in 1..n /\ j - m \in 1..n /\ i - m < j - m
      BY <1>6, <2>2
    <3>2. t[i - m] < t[j - m]
      BY <1>3, <3>1 DEF Rising
    <3> QED BY <1>4, <1>6, <2>2, <3>2
  <2>3. CASE i <= m /\ j > m
    <3>1. q[i] \in Range(s)
      BY <1>2, <1>4, <2>3, RangeIs
    <3>2. q[j] \in Range(t)
      BY <1>3, <1>4, <2>3, RangeIs
    <3> QED BY <3>1, <3>2 DEF Before
  <2> QED BY <2>1, <2>2, <2>3
<1>7. Rising(q)
  BY <1>4, <1>6 DEF Rising
<1> QED BY <1>1, <1>5, <1>7

LEMMA NewestIs ==
  ASSUME NEW q \in Seq(URCIds), Rising(q)
  PROVE  /\ Newest(q) \in Seq(URCIds) /\ Rising(Newest(q))
         /\ Len(Newest(q)) <= QueueMax
         /\ Range(Newest(q)) \subseteq Range(q)
         /\ \A x \in Range(q) \ Range(Newest(q)) :
               Len(Newest(q)) = QueueMax /\ \A y \in Range(Newest(q)) : x < y
<1>0. QueueMax \in Nat \ {0}
  BY BoundsAssumption
<1>1. CASE Len(q) <= QueueMax
  <2>1. Newest(q) = q
    BY <1>0, <1>1 DEF Newest
  <2> QED BY <1>1, <2>1
<1>2. CASE Len(q) > QueueMax
  <2>1. PICK d \in Nat \ {0} : d = Len(q) - QueueMax
    BY <1>0, <1>2
  <2>2. PICK n : n = Newest(q)
    OBVIOUS
  <2>3. n = SubSeq(q, d + 1, Len(q)) /\ Len(q) = d + QueueMax
    BY <1>0, <1>2, <2>1, <2>2 DEF Newest
  <2>4. PICK a \in Nat, b \in Nat : a = d + 1 /\ b = Len(q)
    OBVIOUS
  <2>5. /\ n \in Seq(URCIds) /\ Len(n) = QueueMax
        /\ \A i \in 1..QueueMax : n[i] = q[d + i]
    <3>1. \A i \in a..b : q[i] \in URCIds
      BY <2>4
    <3>2. /\ SubSeq(q, a, b) \in Seq(URCIds)
          /\ Len(SubSeq(q, a, b)) = IF a <= b THEN b - a + 1 ELSE 0
          /\ \A i \in 1..(b - a + 1) : SubSeq(q, a, b)[i] = q[a + i - 1]
      BY <3>1, SubSeqProperties
    <3>3. n = SubSeq(q, a, b) /\ b - a + 1 = QueueMax /\ a <= b
      BY <1>0, <2>1, <2>3, <2>4
    <3>4. \A i \in 1..QueueMax : a + i - 1 = d + i
      BY <1>0, <2>4
    <3> QED BY <3>2, <3>3, <3>4
  <2>6. \A i \in 1..QueueMax : d + i \in 1..Len(q)
    BY <1>0, <2>1, <2>3
  <2>7. Rising(n)
    <3> SUFFICES ASSUME NEW i \in 1..QueueMax, NEW j \in 1..QueueMax, i < j
                 PROVE  n[i] < n[j]
      BY <2>5 DEF Rising
    <3>1. d + i < d + j
      BY <1>0, <2>1
    <3>2. q[d + i] < q[d + j]
      BY <2>6, <3>1 DEF Rising
    <3> QED BY <2>5, <3>2
  <2>8. Range(n) \subseteq Range(q)
    <3> SUFFICES ASSUME NEW y \in Range(n) PROVE y \in Range(q)
      OBVIOUS
    <3>1. PICK i \in 1..QueueMax : n[i] = y
      BY <2>5, RangeIs
    <3> QED BY <2>5, <2>6, <3>1, RangeIs
  <2>9. ASSUME NEW x \in Range(q) \ Range(n), NEW y \in Range(n) PROVE x < y
    <3>1. PICK i \in 1..Len(q) : q[i] = x
      BY RangeIs
    <3>2. PICK j \in 1..QueueMax : n[j] = y
      BY <2>5, RangeIs
    <3>3. i <= d
      <4>1. SUFFICES ASSUME i > d PROVE FALSE
        BY <2>1
      <4>2. i - d \in 1..QueueMax /\ d + (i - d) = i
        BY <1>0, <2>1, <2>3, <4>1
      <4>3. n[i - d] = q[i]
        BY <2>5, <4>2
      <4> QED BY <2>5, <2>9, <3>1, <4>2, <4>3, RangeIs
    <3>4. q[i] < q[d + j]
      BY <2>1, <2>6, <3>3 DEF Rising
    <3> QED BY <2>5, <3>1, <3>2, <3>4
  <2> QED BY <1>0, <2>2, <2>5, <2>7, <2>8, <2>9
<1> QED BY <1>0, <1>1, <1>2

\* A rising sequence repeats nothing.
LEMMA RisingCardinality ==
  ASSUME NEW s \in Seq(URCIds), Rising(s), NEW T, IsFiniteSet(T), Range(s) \subseteq T
  PROVE  Cardinality(T) >= Len(s)
<1>1. \A i \in 1..Len(s) : s[i] \in T
  BY RangeIs
<1>2. \A i, j \in 1..Len(s) : s[i] = s[j] => i = j
  <2> SUFFICES ASSUME NEW i \in 1..Len(s), NEW j \in 1..Len(s), s[i] = s[j], i # j PROVE FALSE
    OBVIOUS
  <2>1. s[i] \in Nat /\ s[j] \in Nat
    BY BoundsAssumption DEF URCIds
  <2>2. i < j \/ j < i
    OBVIOUS
  <2> QED BY <2>1, <2>2 DEF Rising
<1>3. s \in Injection(1..Len(s), T)
  BY <1>1, <1>2 DEF Injection, IsInjective
<1>4. Cardinality(1..Len(s)) <= Cardinality(T)
  BY <1>3, FS_Injection
<1>5. Len(s) \in Nat /\ Cardinality(T) \in Nat
  BY FS_CardinalityType
<1>6. Cardinality(1..Len(s)) = Len(s)
  <2>1. PICK n \in Nat : n = Len(s)
    BY <1>5
  <2>2. Cardinality(1..n) = IF 1 > n THEN 0 ELSE n - 1 + 1
    BY FS_Interval
  <2> QED BY <2>1, <2>2
<1> QED BY <1>4, <1>5, <1>6

URCsOK ==
    /\ urcs \in Seq(URCIds) /\ Len(urcs) <= QueueMax
    /\ delivered \in Seq(URCIds)
    /\ arrived \in Seq(URCIds)
    /\ lost \subseteq URCIds
    /\ nextURC \in 1..(MaxURCs + 1)

InOrder ==
    /\ Rising(delivered) /\ Rising(urcs) /\ Rising(arrived)
    /\ Before(delivered, urcs) /\ Before(delivered, arrived) /\ Before(urcs, arrived)
    /\ \A id \in Range(delivered) \cup Range(urcs) \cup Range(arrived) \cup lost : id < nextURC
    /\ lost \cap (Range(urcs) \cup Range(arrived)) = {}

\* What has left the line for the queue.
Taken == 1..(nextURC - 1) \ (Range(arrived) \cup lost)

PushedOut ==
    \A id \in Taken \ (Range(delivered) \cup Range(urcs)) :
       Cardinality({other \in Taken : other > id}) >= QueueMax

URCsInv == URCsOK /\ InOrder /\ PushedOut

\* Enough newer ones are enough when more have been taken.
LEMMA StillPushedOut ==
  ASSUME NEW S, IsFiniteSet(S), NEW T \in SUBSET S, NEW id \in Nat,
         Cardinality({other \in T : other > id}) >= QueueMax
  PROVE  Cardinality({other \in S : other > id}) >= QueueMax
<1> DEFINE newerS == {other \in S : other > id}
           newerT == {other \in T : other > id}
<1>1. IsFiniteSet(newerS)
  BY FS_Subset
<1>2. newerT \in SUBSET newerS
  OBVIOUS
<1>3. IsFiniteSet(newerT) /\ Cardinality(newerT) <= Cardinality(newerS)
  BY <1>1, <1>2, FS_Subset
<1>4. Cardinality(newerS) \in Nat /\ Cardinality(newerT) \in Nat /\ QueueMax \in Nat
  BY <1>1, <1>3, FS_CardinalityType, BoundsAssumption
<1> HIDE DEF newerS, newerT
<1>5. Cardinality(newerT) >= QueueMax => Cardinality(newerS) >= QueueMax
  BY <1>3, <1>4
<1> QED BY <1>5 DEF newerS, newerT

LEMMA NumbersIs ==
  ASSUME NEW n \in 1..(MaxURCs + 1), NEW S \in SUBSET (1..(n - 1))
  PROVE  IsFiniteSet(S) /\ S \subseteq Nat
<1>1. n - 1 \in Int /\ 1..(n - 1) \subseteq Nat
  BY BoundsAssumption
<1>2. IsFiniteSet(1..(n - 1))
  BY <1>1, FS_Interval
<1> QED BY <1>1, <1>2, FS_Subset

LEMMA StoreURCs ==
  ASSUME URCsInv, Store, UNCHANGED <<nextURC, delivered, lost>>
  PROVE  URCsInv'
<1>1. PICK u \in Seq(URCIds), a \in Seq(URCIds) : u = urcs /\ a = arrived
  BY DEF URCsInv, URCsOK
<1>2. PICK d \in Seq(URCIds) : d = delivered
  BY DEF URCsInv, URCsOK
<1>3. PICK q : q = u \o a
  OBVIOUS
<1>4. Rising(u) /\ Rising(a) /\ Before(u, a) /\ Before(d, u) /\ Before(d, a)
  BY <1>1, <1>2 DEF URCsInv, InOrder
<1>5. q \in Seq(URCIds) /\ Rising(q) /\ Range(q) = Range(u) \cup Range(a)
  BY <1>3, <1>4, ConcatIs
<1>6. PICK n : n = Newest(q)
  OBVIOUS
<1>7. /\ n \in Seq(URCIds) /\ Rising(n) /\ Len(n) <= QueueMax /\ Range(n) \subseteq Range(q)
      /\ \A x \in Range(q) \ Range(n) : Len(n) = QueueMax /\ \A y \in Range(n) : x < y
  BY <1>5, <1>6, NewestIs
<1>8. urcs' = n /\ arrived' = <<>> /\ UNCHANGED <<nextURC, delivered, lost>>
  BY <1>1, <1>3, <1>6 DEF Store
<1>9. URCsOK'
  BY <1>7, <1>8, EmptyIs DEF URCsInv, URCsOK
<1>10. InOrder'
  <2>1. Before(d, n)
    BY <1>4, <1>5, <1>7 DEF Before
  <2>2. Rising(<<>>) /\ Before(d, <<>>) /\ Before(n, <<>>)
    BY EmptyIs DEF Before
  <2>3. Rising(delivered)' /\ Rising(urcs)' /\ Rising(arrived)'
    BY <1>7, <1>8, <2>2 DEF URCsInv, InOrder, Rising
  <2>4. Before(delivered, urcs)' /\ Before(delivered, arrived)' /\ Before(urcs, arrived)'
    BY <1>2, <1>8, <2>1, <2>2 DEF Before
  <2>5. Range(arrived') = {} /\ Range(urcs') \subseteq Range(urcs) \cup Range(arrived)
    BY <1>1, <1>5, <1>7, <1>8, EmptyIs
  <2>6. \A id \in Range(delivered') \cup Range(urcs') \cup Range(arrived') \cup lost' : id < nextURC'
    BY <1>8, <2>5 DEF URCsInv, InOrder
  <2>7. lost' \cap (Range(urcs') \cup Range(arrived')) = {}
    BY <1>8, <2>5 DEF URCsInv, InOrder
  <2> QED BY <2>3, <2>4, <2>6, <2>7 DEF InOrder
<1>11. PushedOut'
  <2>1. PICK S, T : S = Taken' /\ T = Taken
    OBVIOUS
  <2>2. IsFiniteSet(S) /\ S \subseteq Nat
    <3>1. PICK m \in 1..(MaxURCs + 1) : m = nextURC'
      BY <1>9 DEF URCsOK
    <3>2. S \in SUBSET (1..(m - 1))
      BY <2>1, <3>1 DEF Taken
    <3> QED BY <3>2, NumbersIs
  <2>3. /\ S = T \cup (Range(a) \ lost)
        /\ \A id \in Range(u) \cup Range(a) : id \in S
    <3>1. \A id \in Range(u) \cup Range(a) : id \in 1..(nextURC - 1) /\ id \notin lost
      <4> SUFFICES ASSUME NEW id \in Range(u) \cup Range(a)
                   PROVE  id \in 1..(nextURC - 1) /\ id \notin lost
        OBVIOUS
      <4>1. id \in URCIds
        BY <1>1, RangeIs
      <4>2. id < nextURC /\ id \notin lost /\ nextURC \in 1..(MaxURCs + 1)
        BY <1>1 DEF URCsInv, InOrder, URCsOK
      <4> QED BY <4>1, <4>2, BoundsAssumption DEF URCIds
    <3>2. S = 1..(nextURC - 1) \ lost
      BY <1>8, <2>1, EmptyIs DEF Taken
    <3>3. T = 1..(nextURC - 1) \ (Range(a) \cup lost)
      BY <1>1, <2>1 DEF Taken
    <3> QED BY <3>1, <3>2, <3>3
  <2> SUFFICES ASSUME NEW id \in S, id \notin Range(d), id \notin Range(n)
               PROVE  Cardinality({other \in S : other > id}) >= QueueMax
    BY <1>2, <1>8, <2>1 DEF PushedOut
  <2>4. CASE id \in Range(q)
    <3>1. Len(n) = QueueMax /\ \A y \in Range(n) : id < y
      BY <1>7, <2>4
    <3>2. Range(n) \subseteq {other \in S : other > id}
      <4>1. \A y \in Range(n) : y \in S /\ y \in Nat /\ id \in Nat
        BY <1>5, <1>7, <2>2, <2>3
      <4> QED BY <3>1, <4>1
    <3>3. IsFiniteSet({other \in S : other > id})
      BY <2>2, FS_Subset
    <3> QED BY <1>7, <3>1, <3>2, <3>3, RisingCardinality
  <2>5. CASE id \notin Range(q)
    <3>1. id \in T /\ T \in SUBSET S /\ id \in Nat
      BY <1>5, <2>2, <2>3, <2>5
    <3>2. Cardinality({other \in T : other > id}) >= QueueMax
      BY <1>1, <1>2, <1>5, <2>1, <2>5, <3>1 DEF URCsInv, PushedOut
    <3> QED BY <2>2, <3>1, <3>2, StillPushedOut
  <2> QED BY <2>4, <2>5
<1> QED BY <1>9, <1>10, <1>11 DEF URCsInv

LEMMA DiscardURCs ==
  ASSUME URCsInv, Discard, UNCHANGED <<urcs, nextURC, delivered>>
  PROVE  URCsInv'
<1>1. PICK a \in Seq(URCIds) : a = arrived
  BY DEF URCsInv, URCsOK
<1>2. lost' = lost \cup Range(a) /\ arrived' = <<>> /\ Range(a) \subseteq URCIds
  BY <1>1, RangeIs DEF Discard
<1>3. URCsOK'
  BY <1>2, EmptyIs DEF URCsInv, URCsOK
<1>4. Taken' = Taken
  BY <1>1, <1>2, EmptyIs DEF Taken
<1>5. PushedOut'
  BY <1>4 DEF URCsInv, PushedOut
<1>6. Before(delivered, arrived)' /\ Before(urcs, arrived)' /\ Rising(arrived)'
  BY <1>2, EmptyIs DEF Before
<1>7. \A id \in Range(urcs) : id \notin Range(a)
  <2> SUFFICES ASSUME NEW id \in Range(urcs), id \in Range(a) PROVE FALSE
    OBVIOUS
  <2>1. id < id
    BY <1>1 DEF URCsInv, InOrder, Before
  <2>2. id \in Nat
    BY <1>2, BoundsAssumption DEF URCIds
  <2> QED BY <2>1, <2>2
<1>8. /\ \A id \in Range(delivered') \cup Range(urcs') \cup Range(arrived') \cup lost' : id < nextURC'
      /\ lost' \cap (Range(urcs') \cup Range(arrived')) = {}
  BY <1>1, <1>2, <1>7, EmptyIs DEF URCsInv, InOrder
<1>9. Rising(delivered)' /\ Rising(urcs)' /\ Before(delivered, urcs)'
  BY DEF URCsInv, InOrder, Rising, Before
<1>10. InOrder'
  BY <1>6, <1>8, <1>9 DEF InOrder
<1> QED BY <1>3, <1>5, <1>10 DEF URCsInv

LEMMA DrainURCs ==
  ASSUME URCsInv, DrainSMSNotifications
  PROVE  URCsInv'
<1>1. PICK d \in Seq(URCIds), u \in Seq(URCIds) : d = delivered /\ u = urcs
  BY DEF URCsInv, URCsOK
<1>2. PICK q : q = d \o u
  OBVIOUS
<1>3. delivered' = q /\ urcs' = <<>> /\ UNCHANGED <<arrived, nextURC, lost>>
  BY <1>1, <1>2 DEF DrainSMSNotifications, line
<1>4. q \in Seq(URCIds) /\ Rising(q) /\ Range(q) = Range(d) \cup Range(u)
  BY <1>1, <1>2, ConcatIs DEF URCsInv, InOrder
<1>5. URCsOK'
  BY <1>3, <1>4, EmptyIs, BoundsAssumption DEF URCsInv, URCsOK
<1>6. Taken' = Taken
  BY <1>3 DEF Taken
<1>7. PushedOut'
  BY <1>1, <1>3, <1>4, <1>6, EmptyIs DEF URCsInv, PushedOut
<1>8. Rising(delivered)' /\ Rising(urcs)' /\ Rising(arrived)'
  BY <1>3, <1>4, EmptyIs DEF URCsInv, InOrder, Rising
<1>9. Before(delivered, urcs)' /\ Before(delivered, arrived)' /\ Before(urcs, arrived)'
  BY <1>1, <1>3, <1>4, EmptyIs DEF URCsInv, InOrder, Before
<1>10. /\ \A id \in Range(delivered') \cup Range(urcs') \cup Range(arrived') \cup lost' : id < nextURC'
       /\ lost' \cap (Range(urcs') \cup Range(arrived')) = {}
  BY <1>1, <1>3, <1>4, EmptyIs DEF URCsInv, InOrder
<1>11. InOrder'
  BY <1>8, <1>9, <1>10 DEF InOrder
<1> QED BY <1>5, <1>7, <1>11 DEF URCsInv

LEMMA ArriveURCs ==
  ASSUME URCsInv, URCArrives
  PROVE  URCsInv'
<1>1. PICK a \in Seq(URCIds), n \in URCIds : a = arrived /\ n = nextURC
  BY BoundsAssumption DEF URCsInv, URCsOK, URCArrives, URCIds
<1>2. PICK b : b = Append(a, n)
  OBVIOUS
<1>3. nextURC' = n + 1 /\ arrived' = b /\ UNCHANGED <<urcs, delivered, lost>>
  BY <1>1, <1>2 DEF URCArrives
<1>4. n \in 1..MaxURCs /\ MaxURCs \in Nat
  BY BoundsAssumption DEF URCIds
<1>5. /\ b \in Seq(URCIds) /\ Len(b) = Len(a) + 1 /\ b[Len(a) + 1] = n
      /\ \A i \in 1..Len(a) : b[i] = a[i]
  BY <1>2, AppendProperties
<1>6. PICK m \in Nat : m = Len(a)
  OBVIOUS
<1>7. \A i \in 1..(m + 1) : i \in 1..m \/ i = m + 1
  OBVIOUS
<1>8. Range(b) = Range(a) \cup {n}
  <2>1. \A x \in Range(b) : x \in Range(a) \/ x = n
    <3> SUFFICES ASSUME NEW x \in Range(b) PROVE x \in Range(a) \/ x = n
      OBVIOUS
    <3>1. PICK i \in 1..(m + 1) : b[i] = x
      BY <1>5, <1>6, RangeIs
    <3> QED BY <1>5, <1>6, <1>7, <3>1, RangeIs
  <2>2. \A x \in Range(a) : x \in Range(b)
    <3> SUFFICES ASSUME NEW x \in Range(a) PROVE x \in Range(b)
      OBVIOUS
    <3>1. PICK i \in 1..m : a[i] = x
      BY <1>6, RangeIs
    <3>2. i \in 1..Len(b)
      BY <1>5, <1>6
    <3> QED BY <1>5, <1>6, <3>1, <3>2, RangeIs
  <2>3. n \in Range(b)
    <3>1. m + 1 \in 1..Len(b)
      BY <1>5, <1>6
    <3> QED BY <1>5, <1>6, <3>1, RangeIs
  <2> QED BY <2>1, <2>2, <2>3
<1>9. \A id \in Range(delivered) \cup Range(urcs) \cup Range(a) \cup lost : id < n
  BY <1>1 DEF URCsInv, InOrder
<1>10. Rising(b)
  <2> SUFFICES ASSUME NEW i \in 1..(m + 1), NEW j \in 1..(m + 1), i < j PROVE b[i] < b[j]
    BY <1>5, <1>6 DEF Rising
  <2>1. i \in 1..m /\ b[i] = a[i] /\ a[i] \in Range(a)
    BY <1>5, <1>6, RangeIs
  <2>2. CASE j = m + 1
    BY <1>5, <1>6, <1>9, <2>1, <2>2
  <2>3. CASE j \in 1..m
    BY <1>1, <1>5, <1>6, <2>1, <2>3 DEF URCsInv, InOrder, Rising
  <2> QED BY <1>7, <2>2, <2>3
<1>11. URCsOK'
  BY <1>3, <1>4, <1>5 DEF URCsInv, URCsOK
<1>12. Taken' = Taken
  <2>1. Taken' = 1..n \ (Range(b) \cup lost)
    BY <1>3, <1>4 DEF Taken
  <2>2. Taken = 1..(n - 1) \ (Range(a) \cup lost)
    BY <1>1 DEF Taken
  <2>3. \A x \in 1..n : x \in 1..(n - 1) \/ x = n
    BY <1>4
  <2>4. 1..(n - 1) \subseteq 1..n /\ n \notin 1..(n - 1)
    BY <1>4
  <2> QED BY <1>8, <2>1, <2>2, <2>3, <2>4
<1>13. PushedOut'
  BY <1>3, <1>12 DEF URCsInv, PushedOut
<1>14. Rising(delivered)' /\ Rising(urcs)' /\ Rising(arrived)'
  BY <1>3, <1>10 DEF URCsInv, InOrder, Rising
<1>15. Before(delivered, urcs)' /\ Before(delivered, arrived)' /\ Before(urcs, arrived)'
  BY <1>1, <1>3, <1>8, <1>9 DEF URCsInv, InOrder, Before
<1>16. \A id \in Range(delivered') \cup Range(urcs') \cup Range(arrived') \cup lost' : id < nextURC'
  <2> SUFFICES ASSUME NEW id \in Range(delivered) \cup Range(urcs) \cup Range(b) \cup lost
               PROVE  id < n + 1
    BY <1>3
  <2>1. id < n \/ id = n
    BY <1>8, <1>9
  <2>2. id \in Nat
    <3>1. id \in URCIds
      BY <1>5, RangeIs DEF URCsInv, URCsOK
    <3> QED BY <3>1, BoundsAssumption DEF URCIds
  <2> QED BY <1>4, <2>1, <2>2
<1>17. lost' \cap (Range(urcs') \cup Range(arrived')) = {}
  <2>1. n \notin lost
    BY <1>4, <1>9
  <2> QED BY <1>1, <1>3, <1>8, <2>1 DEF URCsInv, InOrder
<1>18. InOrder'
  BY <1>14, <1>15, <1>16, <1>17 DEF InOrder
<1> QED BY <1>11, <1>13, <1>18 DEF URCsInv

LEMMA InitURCs == Init => URCsInv
<1> SUFFICES ASSUME Init PROVE URCsInv
  OBVIOUS
<1>1. urcs = <<>> /\ delivered = <<>> /\ arrived = <<>> /\ lost = {} /\ nextURC = 1
  BY DEF Init
<1>2. Taken = {}
  BY <1>1 DEF Taken
<1> QED BY <1>1, <1>2, EmptyIs, BoundsAssumption
        DEF URCsInv, URCsOK, InOrder, PushedOut, Before

LEMMA NextURCs ==
  URCsInv /\ [Next]_vars => URCsInv'
<1> SUFFICES ASSUME URCsInv, [Next]_vars PROVE URCsInv'
  OBVIOUS
<1>1. UNCHANGED <<arrived, notifications>> => URCsInv'
  BY DEF URCsInv, URCsOK, InOrder, PushedOut, Taken, Rising, Before, notifications
<1>2. ASSUME NEW r \in Requests,
             SendSMS(r) \/ OtherRequest(r) \/ AcquireAT(r) \/ Write(r) \/ Record(r)
      PROVE  URCsInv'
  BY <1>1, <1>2 DEF SendSMS, OtherRequest, AcquireAT, Write, Record, line
<1>3. ASSUME NEW r \in Requests, ReadPlain(r) \/ TimeoutPlain(r) PROVE URCsInv'
  BY <1>3, StoreURCs DEF ReadPlain, TimeoutPlain
<1>4. ASSUME NEW r \in Requests,
             \/ Reopen(r) \/ ReadPrompt(r) \/ ReadPayload(r)
             \/ TimeoutPrompt(r) \/ TimeoutPayload(r)
      PROVE  URCsInv'
  BY <1>4, DiscardURCs DEF Reopen, ReadPrompt, ReadPayload, TimeoutPrompt, TimeoutPayload, GiveUp
<1>5. ASSUME Execute \/ Recite \/ Tick PROVE URCsInv'
  BY <1>1, <1>5 DEF Execute, Recite, Tick, line
<1>6. UNCHANGED vars => URCsInv'
  BY <1>1 DEF vars, line
<1> QED BY <1>2, <1>3, <1>4, <1>5, <1>6, DrainURCs, ArriveURCs DEF Next

-----------------------------------------------------------------------------
(***************************************************************************)
(* The rate window.  The sends after the one that started it are those it  *)
(* counts, so what came before them is as old as the window, and what came *)
(* RateMax sends earlier belongs to a window that was over by then.        *)
(***************************************************************************)
SendNos == 1..(2 * RateMax)

Windows ==
    /\ windowCount \in 0..RateMax
    /\ windowAge \in 0..Window
    /\ recent \in [SendNos -> 0..Window]
    /\ windowCount = 0 => windowAge = Window
    /\ \A i \in SendNos : windowCount # 0 /\ i >= windowCount => recent[i] >= windowAge
    /\ \A i \in SendNos : i >= windowCount + RateMax => recent[i] = Window

LEMMA InitWindows == Init => Windows
  BY BoundsAssumption DEF Init, Windows, SendNos

LEMMA SendWindows ==
  ASSUME Windows, NEW r \in Requests, SendSMS(r)
  PROVE  Windows'
<1>1. /\ RateMax \in Nat \ {0} /\ Window \in Nat \ {0}
      /\ windowCount \in 0..RateMax /\ windowAge \in 0..Window
      /\ recent \in [SendNos -> 0..Window]
  BY BoundsAssumption DEF Windows
<1>2. /\ SlotsTaken < RateMax /\ windowCount' = SlotsTaken + 1
      /\ windowAge' = IF windowAge >= Window THEN 0 ELSE windowAge
      /\ SlotsTaken = IF windowAge >= Window THEN 0 ELSE windowCount
      /\ recent' = [i \in SendNos |-> IF i = 1 THEN 0 ELSE recent[i - 1]]
  BY DEF SendSMS, Allowed, SlotsTaken, WindowOver, SendNos
<1>3. \A i \in SendNos : i # 1 => i - 1 \in SendNos /\ recent'[i] = recent[i - 1]
  BY <1>1, <1>2 DEF SendNos
<1>4. 1 \in SendNos /\ recent'[1] = 0
  BY <1>1, <1>2 DEF SendNos
<1>5. recent' \in [SendNos -> 0..Window]
  BY <1>1, <1>2, <1>3
<1>6. windowCount' \in 1..RateMax /\ windowAge' \in 0..Window
  BY <1>1, <1>2
<1>7. ASSUME NEW i \in SendNos, i >= windowCount' PROVE recent'[i] >= windowAge'
  <2>1. CASE windowAge >= Window
    BY <1>1, <1>2, <1>5, <2>1
  <2>2. CASE windowAge < Window
    <3>1. windowCount # 0 /\ windowCount' = windowCount + 1 /\ windowAge' = windowAge
      BY <1>1, <1>2, <2>2 DEF Windows
    <3>2. i # 1 /\ i - 1 >= windowCount
      BY <1>1, <1>7, <3>1 DEF SendNos
    <3> QED BY <1>3, <3>1, <3>2 DEF Windows
  <2> QED BY <1>1, <2>1, <2>2
<1>8. ASSUME NEW i \in SendNos, i >= windowCount' + RateMax PROVE recent'[i] = Window
  <2>1. i # 1
    BY <1>1, <1>6, <1>8
  <2>2. i - 1 \in SendNos /\ recent'[i] = recent[i - 1] /\ recent[i - 1] \in 0..Window
    BY <1>1, <1>3, <2>1
  <2>3. CASE windowAge < Window
    <3>1. i - 1 >= windowCount + RateMax
      BY <1>1, <1>2, <1>8, <2>3 DEF SendNos
    <3> QED BY <2>2, <3>1 DEF Windows
  <2>4. CASE windowAge >= Window
    <3>1. i - 1 >= RateMax /\ i - 1 >= windowCount
      BY <1>1, <1>2, <1>8, <2>4 DEF SendNos
    <3>2. CASE windowCount = 0
      <4>1. i - 1 >= windowCount + RateMax
        BY <1>1, <3>1, <3>2
      <4> QED BY <2>2, <4>1 DEF Windows
    <3>3. CASE windowCount # 0
      <4>1. recent[i - 1] >= windowAge
        BY <2>2, <3>1, <3>3 DEF Windows
      <4> QED BY <1>1, <2>2, <2>4, <4>1
    <3> QED BY <3>2, <3>3
  <2> QED BY <1>1, <2>3, <2>4
<1> QED BY <1>5, <1>6, <1>7, <1>8 DEF Windows

LEMMA TickWindows ==
  ASSUME Windows, Tick
  PROVE  Windows'
<1>1. /\ RateMax \in Nat \ {0} /\ Window \in Nat \ {0}
      /\ windowCount \in 0..RateMax /\ windowAge \in 0..Window
      /\ recent \in [SendNos -> 0..Window]
  BY BoundsAssumption DEF Windows
<1>2. /\ windowCount' = windowCount
      /\ windowAge' = IF windowAge >= Window THEN windowAge ELSE windowAge + 1
      /\ recent' = [i \in SendNos |-> IF recent[i] < Window THEN recent[i] + 1 ELSE Window]
  BY DEF Tick, WindowOver, SendNos
<1>3. \A i \in SendNos :
         /\ recent[i] \in 0..Window /\ recent'[i] \in 0..Window
         /\ recent'[i] = IF recent[i] < Window THEN recent[i] + 1 ELSE Window
  BY <1>1, <1>2
<1>4. recent' \in [SendNos -> 0..Window]
  BY <1>2, <1>3
<1>5. ASSUME NEW i \in SendNos, windowCount # 0, i >= windowCount PROVE recent'[i] >= windowAge'
  <2>1. recent[i] >= windowAge
    BY <1>5 DEF Windows
  <2> QED BY <1>1, <1>2, <1>3, <2>1
<1>6. ASSUME NEW i \in SendNos, i >= windowCount + RateMax PROVE recent'[i] = Window
  <2>1. recent[i] = Window
    BY <1>6 DEF Windows
  <2> QED BY <1>1, <1>3, <2>1
<1>7. windowAge' \in 0..Window /\ (windowCount = 0 => windowAge' = Window)
  BY <1>1, <1>2 DEF Windows
<1> QED BY <1>1, <1>2, <1>4, <1>5, <1>6, <1>7 DEF Windows

LEMMA NextWindows ==
  Windows /\ [Next]_vars => Windows'
<1> SUFFICES ASSUME Windows, [Next]_vars PROVE Windows'
  OBVIOUS
<1>1. UNCHANGED <<windowCount, windowAge, recent>> => Windows'
  BY DEF Windows
<1>2. ASSUME NEW r \in Requests,
             OtherRequest(r) \/ AcquireAT(r) \/ Write(r) \/ Record(r) \/ Reopen(r)
      PROVE  Windows'
  BY <1>1, <1>2 DEF OtherRequest, AcquireAT, Write, Record, Reopen, guard, history
<1>3. ASSUME NEW r \in Requests,
             \/ ReadPlain(r) \/ TimeoutPlain(r) \/ ReadPrompt(r) \/ ReadPayload(r)
             \/ TimeoutPrompt(r) \/ TimeoutPayload(r)
      PROVE  Windows'
  BY <1>1, <1>3 DEF ReadPlain, TimeoutPlain, ReadPrompt, ReadPayload, TimeoutPrompt,
                    TimeoutPayload, GiveUp, guard, history
<1>4. ASSUME DrainSMSNotifications \/ Execute \/ Recite \/ URCArrives PROVE Windows'
  BY <1>1, <1>4 DEF DrainSMSNotifications, Execute, Recite, URCArrives, guard, history
<1>5. UNCHANGED vars => Windows'
  BY <1>1 DEF vars, guard, history
<1> QED BY <1>2, <1>3, <1>4, <1>5, SendWindows, TickWindows DEF Next

\* The bound on the deadlines that pass.
LEMMA TimeoutsBounded ==
  /\ Init => timeouts \in 0..MaxTimeouts
  /\ timeouts \in 0..MaxTimeouts /\ [Next]_vars => timeouts' \in 0..MaxTimeouts
<1>1. Init => timeouts \in 0..MaxTimeouts
  BY BoundsAssumption DEF Init
<1>2. SUFFICES ASSUME timeouts \in 0..MaxTimeouts, [Next]_vars
               PROVE  timeouts' \in 0..MaxTimeouts
  BY <1>1
<1>3. (timeouts < MaxTimeouts /\ timeouts' = timeouts + 1) => timeouts' \in 0..MaxTimeouts
  BY <1>2, BoundsAssumption
<1>4. ASSUME NEW r \in Requests,
             \/ SendSMS(r) \/ OtherRequest(r) \/ AcquireAT(r) \/ Write(r) \/ Record(r)
             \/ Reopen(r) \/ ReadPlain(r) \/ ReadPrompt(r) \/ ReadPayload(r)
      PROVE  timeouts' = timeouts
  BY <1>4 DEF SendSMS, OtherRequest, AcquireAT, Write, Record, Reopen, ReadPlain,
              ReadPrompt, ReadPayload, history
<1>5. ASSUME NEW r \in Requests, TimeoutPlain(r) \/ TimeoutPrompt(r) \/ TimeoutPayload(r)
      PROVE  timeouts < MaxTimeouts /\ timeouts' = timeouts + 1
  BY <1>5 DEF TimeoutPlain, TimeoutPrompt, TimeoutPayload, GiveUp
<1>6. ASSUME DrainSMSNotifications \/ Execute \/ Recite \/ URCArrives \/ Tick
      PROVE  timeouts' = timeouts
  BY <1>6 DEF DrainSMSNotifications, Execute, Recite, URCArrives, Tick, history
<1>7. UNCHANGED vars => timeouts' = timeouts
  BY DEF vars, history
<1> QED BY <1>2, <1>3, <1>4, <1>5, <1>6, <1>7 DEF Next

-----------------------------------------------------------------------------
\* The types of the line, also once a text was taken for the modem's prompt

LineTyped == LineOK /\ idem \subseteq Keys

LEMMA ExecuteTyped ==
  ASSUME LineTyped, Execute
  PROVE  LineTyped'
<1> DEFINE head == Head(todo)
<1>1. /\ todo # <<>> /\ todo' = Tail(todo) /\ UNCHANGED <<idem, excusedKeys>>
      /\ TakeText(head) \/ Ignore(head) \/ AskForText(head) \/ Obey(head)
  BY DEF Execute, guard
<1>2. head \in Written /\ todo' \in Seq(Written)
  <2>1. PICK q \in Seq(Written) : q = todo
    BY DEF LineTyped, LineOK
  <2> QED BY <1>1, <2>1, TailIs
<1> HIDE DEF head
<1>3. \A kind \in Answers : Respond(head, kind) => answers' \subseteq Items
  BY <1>2 DEF Respond, LineTyped, LineOK, Items, Written
<1>4. answers' \subseteq Items
  BY <1>1, <1>3 DEF TakeText, Ignore, AskForText, Obey, Answers, LineTyped, LineOK
<1>5. format' \in {"text", "pdu"} /\ charset' \in {"gsm", "ucs2"}
  BY <1>1 DEF TakeText, Ignore, AskForText, Obey, modem, LineTyped, LineOK
<1>6. prompting' \in {prompting, TRUE, FALSE}
  BY <1>1, Zenon DEF TakeText, Ignore, AskForText, Obey, modem
<1>7. transmitted' \in [Keys -> 0..2]
  <2>1. \/ transmitted' = transmitted
        \/ transmitted' = [k \in Keys |-> IF k = head.key THEN SaturatedInc(transmitted[k])
                                          ELSE transmitted[k]]
    BY <1>1, Zenon DEF TakeText, Ignore, AskForText, Obey
  <2> QED BY <2>1 DEF LineTyped, LineOK, SaturatedInc
<1>8. prompting' \in BOOLEAN
  BY <1>6 DEF LineTyped, LineOK
<1> QED BY <1>1, <1>2, <1>4, <1>5, <1>7, <1>8 DEF LineTyped, LineOK

LEMMA NextTyped == Control /\ LineTyped /\ ForgedOK /\ [Next]_vars => LineTyped'
<1> SUFFICES ASSUME Control, LineTyped, ForgedOK, [Next]_vars PROVE LineTyped'
  OBVIOUS
<1>0. /\ todo \in Seq(Written) /\ answers \subseteq Items
      /\ excusedKeys \subseteq Keys /\ idem \subseteq Keys
  BY DEF LineTyped, LineOK
\* What the manager does leaves the modem alone.
<1>a. ASSUME UNCHANGED <<modem, transmitted>>, todo' \in Seq(Written), answers' \subseteq Items,
             excusedKeys' \subseteq Keys, idem' \subseteq Keys
      PROVE  LineTyped'
  BY <1>a DEF LineTyped, LineOK, modem
<1>b. MarkLate(todo) \in Seq(Written) /\ {} \subseteq Items
  <2>1. PICK q \in Seq(Written) : q = todo
    BY <1>0
  <2> QED BY <2>1, MarkLateIs
<1>1. ASSUME NEW r \in Requests, SendSMS(r) PROVE LineTyped'
  <2>1. /\ UNCHANGED <<modem, transmitted, todo, answers>>
        /\ \E expired \in SUBSET idem, more \in SUBSET Keys :
              idem' = idem \ expired /\ excusedKeys' = excusedKeys \cup expired \cup more
    BY <1>1 DEF SendSMS, line
  <2> QED BY <1>0, <1>a, <2>1
<1>2. ASSUME NEW r \in Requests, OtherRequest(r) \/ AcquireAT(r) PROVE LineTyped'
  BY <1>0, <1>a, <1>2 DEF OtherRequest, AcquireAT, guard, line, history
<1>3. ASSUME NEW r \in Requests, Write(r) PROVE LineTyped'
  <2>1. PICK w : w = [command |-> Command(r), late |-> FALSE, key |-> NoKey]
    OBVIOUS
  <2>2. w \in Written
    BY <1>3, <2>1, CommandIs DEF Write, Busy, Written
  <2>3. todo' = Append(todo, w) /\ UNCHANGED <<answers, modem, transmitted, excusedKeys, idem>>
    BY <1>3, <2>1 DEF Write, guard, history
  <2> QED BY <1>0, <1>a, <2>2, <2>3, AppendIs
<1>4. ASSUME NEW r \in Requests, ReadPlain(r) \/ TimeoutPlain(r) \/ ReadPayload(r)
      PROVE  LineTyped'
  <2>1. /\ \E ok \in BOOLEAN : Proceed(r, ok)
        /\ UNCHANGED <<modem, transmitted, excusedKeys, idem>>
    BY <1>4 DEF ReadPlain, TimeoutPlain, ReadPayload, Accepted, Has, guard, history
  <2>2. todo' = MarkLate(todo) /\ answers' = {}
    BY <2>1, ProceedIs
  <2> QED BY <1>0, <1>a, <1>b, <2>1, <2>2
<1>5. ASSUME NEW r \in Requests, Reopen(r) PROVE LineTyped'
  BY <1>0, <1>a, <1>5 DEF Reopen, guard, history
<1>6. ASSUME NEW r \in Requests, ReadPrompt(r) PROVE LineTyped'
  <2>1. /\ answers' = {} /\ UNCHANGED <<modem, transmitted, excusedKeys, idem>>
        /\ todo' = Append(todo, Text(r)) \/ todo' = MarkLate(todo)
    BY <1>6 DEF ReadPrompt, Text, guard, history
  <2>2. Text(r) \in Written
    BY DEF Text, Written, Commands, Control, LocalsOK
  <2> QED BY <1>0, <1>a, <1>b, <2>1, <2>2, AppendIs
<1>7. ASSUME NEW r \in Requests, TimeoutPrompt(r) \/ TimeoutPayload(r) PROVE LineTyped'
  <2>1. /\ todo' = MarkLate(todo) /\ answers' = {} /\ UNCHANGED <<modem, transmitted, idem>>
        /\ excusedKeys' \subseteq excusedKeys \cup Keys
    BY <1>7 DEF TimeoutPrompt, TimeoutPayload, GiveUp, guard
  <2> QED BY <1>0, <1>a, <1>b, <2>1
<1>8. ASSUME NEW r \in Requests, Record(r) PROVE LineTyped'
  <2>1. /\ pc[r] = "record" /\ idem' = idem \cup {key[r]}
        /\ UNCHANGED <<modem, transmitted, todo, answers, excusedKeys>>
    BY <1>8 DEF Record, line, history
  <2>2. key[r] \in Keys
    BY <2>1 DEF Control, LocalsOK
  <2> QED BY <1>0, <1>a, <2>1, <2>2
<1>9. CASE Recite
  <2>1. /\ todo # <<>> /\ UNCHANGED <<todo, modem, transmitted, excusedKeys, idem>>
        /\ \E kind \in Answers : Respond(Head(todo), kind)
    BY <1>9, ReciteIs DEF guard
  <2>2. Head(todo) \in Written
    BY <1>0, <2>1, TailIs
  <2>3. answers' \subseteq Items
    BY <1>0, <2>1, <2>2 DEF Respond, Items, Written
  <2> QED BY <1>0, <1>a, <2>1, <2>3
<1>10. CASE DrainSMSNotifications \/ URCArrives \/ Tick
  BY <1>0, <1>a, <1>10 DEF DrainSMSNotifications, URCArrives, Tick, guard, line, history
<1>11. CASE UNCHANGED vars
  BY <1>0, <1>a, <1>11 DEF vars, guard, line, history
<1> QED BY <1>1, <1>2, <1>3, <1>4, <1>5, <1>6, <1>7, <1>8, <1>9, <1>10, <1>11, ExecuteTyped
        DEF Next

-----------------------------------------------------------------------------
\* The theorems

SInv ==
    /\ Control
    /\ LineTyped /\ ForgedOK
    /\ "prompt" \notin Range(forged) => Line /\ Sends /\ Records
    /\ forged = <<>> => InStep /\ SetUp
    /\ URCsInv
    /\ Windows
    /\ timeouts \in 0..MaxTimeouts

LEMMA InvariantHolds == Spec => []SInv
<1>1. Init => SInv
  <2> SUFFICES ASSUME Init PROVE SInv
    OBVIOUS
  <2>1. ForgedOK
    BY BoundsAssumption, EmptySeq DEF Init, ForgedOK
  <2>2. LineTyped
    BY InitLine, InitSends DEF LineTyped, Line, Sends
  <2> QED BY <2>1, <2>2, InitControl, InitLine, InitSends, InitSetUp, InitURCs, InitWindows,
             TimeoutsBounded DEF SInv
<1>2. SInv /\ [Next]_vars => SInv'
  <2> SUFFICES ASSUME SInv, [Next]_vars PROVE SInv'
    OBVIOUS
  <2>1. Control' /\ LineTyped' /\ ForgedOK' /\ URCsInv' /\ Windows'
        /\ timeouts' \in 0..MaxTimeouts
    BY NextControl, NextTyped, NextForged, NextURCs, NextWindows, TimeoutsBounded DEF SInv
  <2>2. ASSUME "prompt" \notin Range(forged)' PROVE Line' /\ Sends' /\ Records'
    <3>1. Line /\ Sends /\ Records
      BY <2>2, NextForged DEF SInv
    <3> QED BY <2>2, <3>1, NextLine, NextSends DEF SInv, Sends
  <2>3. ASSUME forged' = <<>> PROVE InStep' /\ SetUp'
    <3>1. forged = <<>>
      BY <2>3, NextForged DEF SInv
    <3>2. Line /\ InStep /\ SetUp
      BY <3>1 DEF SInv, Range
    <3> QED BY <2>3, <3>2, NextSetUp DEF SInv
  <2> QED BY <2>1, <2>2, <2>3 DEF SInv
<1> QED BY <1>1, <1>2, PTL DEF Spec

(***************************************************************************)
(* The variables keep their types: a request is at one of the places of    *)
(* the code, no script runs past its end, the rate counts at most RateMax  *)
(* sends and the URC queue holds at most QueueMax notifications.           *)
(***************************************************************************)
THEOREM TypeCorrect == Spec => []TypeOK
<1>1. SInv => TypeOK
  <2> SUFFICES ASSUME SInv PROVE TypeOK
    OBVIOUS
  <2>1. LocalsOK /\ LineOK /\ URCsOK /\ Windows /\ ForgedOK
    BY DEF SInv, Control, LineTyped, URCsInv
  <2>2. idem \subseteq Keys /\ timeouts \in 0..MaxTimeouts
    BY DEF SInv, LineTyped
  <2> QED BY <2>1, <2>2 DEF TypeOK, LocalsOK, LineOK, ForgedOK, URCsOK, Windows, SendNos, Stages
<1> QED BY <1>1, InvariantHolds, PTL

(***************************************************************************)
(* usecase.SendSMS: a message sent with an idempotency key is transmitted  *)
(* at most once, unless two sends of the key overlapped, the modem's       *)
(* verdict came after the deadline, the stored result had expired, or a    *)
(* text from the modem read like its prompt.                               *)
(***************************************************************************)
THEOREM TransmitOnceCorrect == Spec => []TransmitOnce
<1>1. SInv => TransmitOnce
  BY DEF SInv, Sends, OneSend, TransmitOnce
<1> QED BY <1>1, InvariantHolds, PTL

(***************************************************************************)
(* usecase.SendSMS: a stored result stands for a message that the modem    *)
(* has transmitted, as long as no text from it read like its prompt.       *)
(***************************************************************************)
THEOREM RecordedWasSentCorrect == Spec => []RecordedWasSent
<1>1. SInv => RecordedWasSent
  BY DEF SInv, Records, RecordedWasSent
<1> QED BY <1>1, InvariantHolds, PTL

(***************************************************************************)
(* usecase.SendSMS: of any 2 * RateMax accepted sends in a row the first   *)
(* is as old as the window.                                                *)
(***************************************************************************)
THEOREM RateBoundCorrect == Spec => []RateBound
<1>1. SInv => RateBound
  <2> SUFFICES ASSUME SInv PROVE RateBound
    OBVIOUS
  <2>1. windowCount \in 0..RateMax /\ RateMax \in Nat \ {0}
    BY BoundsAssumption DEF SInv, Windows
  <2>2. 2 * RateMax \in SendNos /\ 2 * RateMax >= windowCount + RateMax
    BY <2>1 DEF SendNos
  <2> QED BY <2>2 DEF SInv, Windows, RateBound
<1> QED BY <1>1, InvariantHolds, PTL

(***************************************************************************)
(* repository.Client: as long as no exchange was given up and no text from *)
(* the modem read like an answer, no command is answered by what the modem *)
(* wrote for an earlier one.                                               *)
(***************************************************************************)
THEOREM OwnAnswersCorrect == Spec => []OwnAnswers
<1>1. SInv => OwnAnswers
  BY DEF SInv, InStep, OwnAnswers
<1> QED BY <1>1, InvariantHolds, PTL

(***************************************************************************)
(* repository.Client: the text of a message is written to a modem in the   *)
(* format and with the character set it was built for, as long as no       *)
(* exchange was given up and no text from the modem read like an answer.   *)
(***************************************************************************)
THEOREM SubmittedAsMeantCorrect == Spec => []SubmittedAsMeant
<1>1. SInv => SubmittedAsMeant
  <2> SUFFICES ASSUME SInv, NEW r \in Requests, pc[r] = "payload", timeouts = 0,
                      forged = <<>>
               PROVE  /\ format = IF op[r] = "sendMulti" THEN "pdu" ELSE "text"
                      /\ op[r] = "sendGSM" => charset = "gsm"
                      /\ op[r] = "sendUCS2" => charset = "ucs2"
    BY DEF SubmittedAsMeant
  <2>1. Command(r) = "submit"
    BY DEF SInv, Control
  <2>2. /\ op[r] \in SendOps /\ step[r] >= 4 /\ step[r] \in 1..5
        /\ step[r] = 4 => op[r] = "sendMulti"
    BY <2>1, SubmissionIsSend DEF SInv, Control, LocalsOK
  <2>3. SetUpOf(r)
    BY <2>2 DEF SInv, SetUp, Busy
  <2>4. format = Format(op[r])
    BY <2>2, <2>3 DEF SetUpOf
  <2>5. op[r] # "sendMulti" => IsCharset(op[r], charset)
    BY <2>2, <2>3 DEF SetUpOf
  <2> QED BY <2>4, <2>5 DEF Format, IsCharset
<1> QED BY <1>1, InvariantHolds, PTL

(***************************************************************************)
(* storeAndStripSMSURCs and SMSNotifications: notifications are handed out *)
(* once and in their order, and each one is on its way, handed out, pushed *)
(* out by QueueMax newer ones, or was read where none is queued.           *)
(***************************************************************************)
THEOREM URCsAccountedCorrect == Spec => []URCsAccounted
<1>1. SInv => URCsAccounted
  <2> SUFFICES ASSUME SInv PROVE URCsAccounted
    OBVIOUS
  <2>1. PICK d \in Seq(URCIds), u \in Seq(URCIds) : d = delivered /\ u = urcs
    BY DEF SInv, URCsInv, URCsOK
  <2>2. Rising(d) /\ Rising(u) /\ Before(d, u)
    BY <2>1 DEF SInv, URCsInv, InOrder
  <2>3. PICK q : q = d \o u
    OBVIOUS
  <2>4. q \in Seq(URCIds) /\ Rising(q) /\ Range(q) = Range(d) \cup Range(u)
    BY <2>2, <2>3, ConcatIs
  <2>5. \A i, j \in DOMAIN q : i < j => q[i] < q[j]
    BY <2>4 DEF Rising
  <2>6. \A id \in Taken \ Range(q) : Cardinality({other \in Taken : other > id}) >= QueueMax
    BY <2>1, <2>4 DEF SInv, URCsInv, PushedOut
  <2> QED BY <2>1, <2>3, <2>5, <2>6 DEF URCsAccounted, Taken
<1> QED BY <1>1, InvariantHolds, PTL

=============================================================================

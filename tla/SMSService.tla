----------------------------- MODULE SMSService -----------------------------
(***************************************************************************)
(* Short messages: the guard of usecase.SendSMS (idempotency keys and a    *)
(* rate limit), the command scripts of repository.Client that send, list,  *)
(* read and delete messages, the serial line under them with answers that  *)
(* may come after the deadline, and the queue of unsolicited notifications *)
(* (URCs) that arrive between the answers.                                 *)
(*                                                                         *)
(* The line is modelled by what the manager has written and the modem has  *)
(* not dealt with yet (todo) and what the modem has written and the        *)
(* manager has not used yet: its answers, of which an exchange tells only  *)
(* the kinds apart, and the notifications that have arrived, in their      *)
(* order.  An exchange uses all that has come.                             *)
(* The line itself never breaks here:                                      *)
(* lost and absent ports are ModemService's subject.                       *)
(***************************************************************************)
EXTENDS Naturals, Sequences, FiniteSets, Functions

CONSTANTS
    Requests,         \* the HTTP handler goroutines
    Keys,             \* idempotency keys
    Ops,              \* what requests ask for, a subset of AllOps
    SendKeys,         \* what a send carries: keys, and NoKey for none
    NoProc, NoKey,
    RateMax,          \* smsRateMax
    Window,           \* smsRateWindow, in ticks
    QueueMax,         \* capacity of the URC queue (128)
    Lookalikes,       \* answers that a text from the modem may read like
    MaxURCs,          \* bound: notifications the modem sends
    MaxTimeouts,      \* bound: deadlines that pass without an answer
    MaxLookalikes     \* bound: how often a text reads like an answer

SendOps == {"sendGSM", "sendUCS2", "sendMulti"}

AllOps == SendOps \cup {"list", "read", "delete", "query"}

Answers == {"ok", "error", "cms", "prompt"}

ASSUME RequestsAssumption ==
    /\ NoProc \notin Requests
    /\ NoKey \notin Keys
    /\ Ops \subseteq AllOps
    /\ SendKeys \subseteq Keys \cup {NoKey}
    /\ Lookalikes \subseteq Answers

ASSUME BoundsAssumption ==
    /\ RateMax \in Nat \ {0}
    /\ Window \in Nat \ {0}
    /\ QueueMax \in Nat \ {0}
    /\ MaxURCs \in Nat
    /\ MaxTimeouts \in Nat
    /\ MaxLookalikes \in Nat

(***************************************************************************)
(* The commands of an operation, in their order.  "ping" is EnsureConnected *)
(* and "submit" the interactive AT+CMGS; "query" is any command answered   *)
(* with a text (stored messages, names), the poller's included.  A         *)
(* multipart message is two submissions here.                              *)
(***************************************************************************)
Script(o) ==
    CASE o = "sendGSM" -> <<"ping", "cnmi", "text", "gsm", "submit">>
      [] o = "sendUCS2" -> <<"ping", "cnmi", "text", "ucs2", "submit">>
      [] o = "sendMulti" -> <<"ping", "cnmi", "pdu", "submit", "submit">>
      [] o = "list" -> <<"ping", "text", "gsm", "cnmi", "query">>
      [] o = "read" -> <<"ping", "text", "gsm", "cnmi", "query">>
      [] o = "delete" -> <<"ping", "delete">>
      [] o = "query" -> <<"query">>

\* Mutant: a rejected CMGF or CSCS does not end a send.
Checked_NoSetup(o, command) == command \in {"ping", "submit", "query", "delete"}

\* The commands whose failure ends the operation; the others are best effort.
Checked(o, command) ==
    /\ command # "cnmi"
    /\ command = "text" => o # "read"
    /\ command \in {"gsm", "ucs2"} => o \in SendOps

Commands == {"ping", "cnmi", "text", "pdu", "gsm", "ucs2", "submit", "query",
             "delete", "payload"}

VARIABLES
    pc, op, key,      \* each request: where it is, what it does, for which key
    step,             \* position in the script
    repinged,         \* has EnsureConnected reopened the port already?
    atMu,
    idem,             \* keys with a stored result
    windowCount,
    windowAge,        \* ticks since windowStart
    todo, answers,    \* the serial line, see above
    arrived,          \* the notifications on it
    format, charset,  \* CMGF and CSCS of the modem
    prompting,        \* is the modem waiting for the text of a message?
    urcs,             \* the URC queue
    nextURC,
    delivered, lost,  \* history: URCs handed out, and read without being queued
    timeouts,         \* history: exchanges that were given up
    forged,           \* history: answers that texts have read like
    transmitted,      \* history: how often each key was sent, up to 2
    excusedKeys,      \* history: keys with a named reason to be sent again
    recent            \* history: ages in ticks of the sends accepted last, up to Window

locals == <<pc, op, key, step, repinged>>
guard == <<idem, windowCount, windowAge>>
line == <<todo, answers, arrived>>
modem == <<format, charset, prompting>>
notifications == <<urcs, nextURC, delivered, lost>>
history == <<timeouts, forged, transmitted, excusedKeys, recent>>

vars == <<locals, atMu, guard, line, modem, notifications, history>>

URCIds == 1..MaxURCs

Items == [kind : Answers, late : BOOLEAN]

Written == [command : Commands, late : BOOLEAN, key : Keys \cup {NoKey}]

TypeOK ==
    /\ pc \in [Requests -> {"idle", "lock", "write", "read", "payload", "reopen",
                          "record"}]
    /\ op \in [Requests -> AllOps]
    /\ key \in [Requests -> Keys \cup {NoKey}]
    /\ step \in [Requests -> 1..5]
    /\ repinged \in [Requests -> BOOLEAN]
    /\ atMu \in Requests \cup {NoProc}
    /\ idem \subseteq Keys
    /\ windowCount \in 0..RateMax
    /\ windowAge \in 0..Window
    /\ todo \in Seq(Written)
    /\ answers \subseteq Items
    /\ arrived \in Seq(URCIds)
    /\ format \in {"text", "pdu"}
    /\ charset \in {"gsm", "ucs2"}
    /\ prompting \in BOOLEAN
    /\ urcs \in Seq(URCIds) /\ Len(urcs) <= QueueMax
    /\ nextURC \in 1..(MaxURCs + 1)
    /\ delivered \in Seq(URCIds)
    /\ lost \subseteq URCIds
    /\ timeouts \in 0..MaxTimeouts
    /\ forged \in Seq(Lookalikes) /\ Len(forged) <= MaxLookalikes
    /\ transmitted \in [Keys -> 0..2]
    /\ excusedKeys \subseteq Keys
    /\ recent \in [1..(2 * RateMax) -> 0..Window]

Init ==
    /\ pc = [r \in Requests |-> "idle"]
    /\ op = [r \in Requests |-> "query"]
    /\ key = [r \in Requests |-> NoKey]
    /\ step = [r \in Requests |-> 1]
    /\ repinged = [r \in Requests |-> FALSE]
    /\ atMu = NoProc
    /\ idem = {}
    /\ windowCount = 0 /\ windowAge = Window
    /\ todo = <<>> /\ answers = {} /\ arrived = <<>>
    /\ format = "pdu" /\ charset = "gsm"
    /\ prompting = FALSE
    /\ urcs = <<>> /\ nextURC = 1 /\ delivered = <<>> /\ lost = {}
    /\ timeouts = 0 /\ forged = <<>>
    /\ transmitted = [k \in Keys |-> 0]
    /\ excusedKeys = {}
    /\ recent = [i \in 1..(2 * RateMax) |-> Window]

-----------------------------------------------------------------------------
\* Helpers

Has(items, kind) == \E item \in items : item.kind = kind

\* What is still under way when an exchange ends can only disturb later ones.
MarkLate(items) == [i \in DOMAIN items |-> [items[i] EXCEPT !.late = TRUE]]

(***************************************************************************)
(* A full queue drops its oldest entry for each new one, so it is left     *)
(* with the newest of all.                                                 *)
(***************************************************************************)
Newest(q) == IF Len(q) > QueueMax THEN SubSeq(q, Len(q) - QueueMax + 1, Len(q)) ELSE q

\* storeAndStripSMSURCs
Store == urcs' = Newest(urcs \o arrived) /\ arrived' = <<>>

SaturatedInc(n) == IF n < 2 THEN n + 1 ELSE n

Command(r) == Script(op[r])[step[r]]

LastStep(r) == step[r] = Len(Script(op[r]))

Return(r) ==
    /\ pc' = [pc EXCEPT ![r] = "idle"]
    /\ op' = [op EXCEPT ![r] = "query"]
    /\ key' = [key EXCEPT ![r] = NoKey]
    /\ step' = [step EXCEPT ![r] = 1]
    /\ repinged' = [repinged EXCEPT ![r] = FALSE]

Goto(r, stage) == pc' = [pc EXCEPT ![r] = stage] /\ UNCHANGED <<op, key, step, repinged>>

-----------------------------------------------------------------------------
\* usecase.SendSMS up to the work queue, and the other requests

(***************************************************************************)
(* Results older than the TTL are purged (which ones is left open).  A key *)
(* with a stored result is answered from it and a send over the limit is   *)
(* refused: nothing happens.  Otherwise the send takes a slot of the       *)
(* window, which starts with its first send; the slot is not given back    *)
(* when the send fails.                                                    *)
(***************************************************************************)
WindowOver == windowAge >= Window

SlotsTaken == IF WindowOver THEN 0 ELSE windowCount

\* Mutant: the limit is compared after the slot was counted.
Allowed_OffByOne == SlotsTaken <= RateMax

Allowed == SlotsTaken < RateMax

SendSMS(r) ==
    \E o \in SendOps \cap Ops, k \in SendKeys, expired \in SUBSET idem :
        /\ pc[r] = "idle"
        /\ k \notin idem \ expired
        /\ Allowed
        /\ idem' = idem \ expired
        /\ pc' = [pc EXCEPT ![r] = "lock"]
        /\ op' = [op EXCEPT ![r] = o]
        /\ key' = [key EXCEPT ![r] = k]
        /\ windowCount' = SlotsTaken + 1
        /\ windowAge' = IF WindowOver THEN 0 ELSE windowAge
        /\ recent' = [i \in 1..(2 * RateMax) |-> IF i = 1 THEN 0 ELSE recent[i - 1]]
        /\ excusedKeys' = excusedKeys \cup expired
                \cup {x \in {k} \cap Keys : \E q \in Requests : key[q] = x}
        /\ UNCHANGED <<step, repinged, atMu, line, modem, notifications,
                       timeouts, forged, transmitted>>

\* ListSMS, ReadSMS, DeleteSMS and the AT work of others.
OtherRequest(r) ==
    \E o \in Ops \ SendOps :
        /\ pc[r] = "idle"
        /\ pc' = [pc EXCEPT ![r] = "lock"]
        /\ op' = [op EXCEPT ![r] = o]
        /\ UNCHANGED <<key, step, repinged, atMu, guard, line, modem,
                       notifications, history>>

AcquireAT(r) ==
    /\ pc[r] = "lock"
    /\ atMu = NoProc
    /\ atMu' = r
    /\ Goto(r, "write")
    /\ UNCHANGED <<guard, line, modem, notifications, history>>

-----------------------------------------------------------------------------
\* One exchange: sendRawLocked, and submitCMGS for the submissions

Write(r) ==
    /\ pc[r] = "write"
    /\ todo' = Append(todo, [command |-> Command(r), late |-> FALSE, key |-> NoKey])
    /\ Goto(r, "read")
    /\ UNCHANGED <<atMu, guard, answers, arrived, modem, notifications, history>>

(***************************************************************************)
(* The end of an exchange, whose response is all the input there is, and   *)
(* what the script does next: the next command, the end, or, after a       *)
(* failure, a second ping on the reopened port or an early return.         *)
(***************************************************************************)
Proceed(r, ok) ==
    LET passed == ok \/ ~Checked(op[r], Command(r))
        pings == ~passed /\ Command(r) = "ping" /\ ~repinged[r]
        records == passed /\ LastStep(r) /\ key[r] # NoKey
    IN  /\ todo' = MarkLate(todo)
        /\ answers' = {}
        /\ \/ /\ passed /\ ~LastStep(r)
              /\ pc' = [pc EXCEPT ![r] = "write"]
              /\ step' = [step EXCEPT ![r] = @ + 1]
              /\ UNCHANGED <<op, key, repinged, atMu>>
           \/ pings /\ Goto(r, "reopen") /\ UNCHANGED atMu
           \/ records /\ Goto(r, "record") /\ atMu' = NoProc
           \/ /\ ~passed \/ LastStep(r)
              /\ ~pings /\ ~records
              /\ Return(r) /\ atMu' = NoProc

Plain(r) == pc[r] = "read" /\ Command(r) # "submit"

Final(items) == Has(items, "ok") \/ Has(items, "error") \/ Has(items, "cms")

\* Mutant: whatever arrives first is taken for the answer.
Complete_AnyData(items) == items # {} \/ arrived # <<>>

Complete(items) == Final(items)

ReadPlain(r) ==
    /\ Plain(r)
    /\ Complete(answers)
    /\ Store
    /\ Proceed(r, Has(answers, "ok"))
    /\ UNCHANGED <<guard, modem, nextURC, delivered, lost, history>>

(***************************************************************************)
(* The 3 s deadline.  What has come so far is the response, without a      *)
(* final result; its URCs are kept.                                        *)
(***************************************************************************)
TimeoutPlain(r) ==
    /\ Plain(r)
    /\ ~Complete(answers)
    /\ timeouts < MaxTimeouts
    /\ timeouts' = timeouts + 1
    /\ Store
    /\ Proceed(r, FALSE)
    /\ UNCHANGED <<guard, modem, nextURC, delivered, lost, forged, transmitted,
                   excusedKeys, recent>>

Discard == lost' = lost \cup Range(arrived) /\ arrived' = <<>>

\* EnsureConnected opens the port once more, without what came meanwhile.
Reopen(r) ==
    /\ pc[r] = "reopen"
    /\ pc' = [pc EXCEPT ![r] = "write"]
    /\ repinged' = [repinged EXCEPT ![r] = TRUE]
    /\ answers' = {}
    /\ Discard
    /\ UNCHANGED <<op, key, step, atMu, guard, todo, modem, urcs, nextURC, delivered,
                   history>>

(***************************************************************************)
(* submitCMGS waits for the prompt, whatever else it reads, or for an SMS  *)
(* error, and then writes the text.  URCs read meanwhile are not queued.   *)
(***************************************************************************)
AtPrompt(r) == pc[r] = "read" /\ Command(r) = "submit"

ReadPrompt(r) ==
    /\ AtPrompt(r)
    /\ answers' = {}
    /\ Discard
    /\ \/ /\ Has(answers, "prompt")
          /\ Goto(r, "payload")
          /\ todo' = Append(todo, [command |-> "payload", late |-> FALSE,
                                   key |-> IF LastStep(r) THEN key[r] ELSE NoKey])
          /\ UNCHANGED atMu
       \/ /\ ~Has(answers, "prompt") /\ Has(answers, "cms")
          /\ Return(r)
          /\ todo' = MarkLate(todo)
          /\ atMu' = NoProc
    /\ UNCHANGED <<guard, modem, urcs, nextURC, delivered, history>>

\* Mutant: the result is recorded whatever the modem answered to the text.
Accepted_Any(items) == Final(items)

\* An SMS error prevails, then OK.
Accepted(items) == Has(items, "ok") /\ ~Has(items, "cms")

\* The modem's verdict.
ReadPayload(r) ==
    /\ pc[r] = "payload"
    /\ Final(answers)
    /\ Discard
    /\ Proceed(r, Accepted(answers))
    /\ UNCHANGED <<guard, modem, urcs, nextURC, delivered, history>>

(***************************************************************************)
(* The 10 s and 60 s deadlines of a submission: an error, whatever has     *)
(* come.  Nothing is written to take the modem out of its prompt.          *)
(***************************************************************************)
GiveUp(r) ==
    /\ timeouts < MaxTimeouts
    /\ timeouts' = timeouts + 1
    /\ atMu' = NoProc
    /\ Return(r)
    /\ todo' = MarkLate(todo)
    /\ answers' = {}
    /\ Discard
    /\ UNCHANGED <<guard, modem, urcs, nextURC, delivered, forged, transmitted, recent>>

TimeoutPrompt(r) ==
    /\ AtPrompt(r)
    /\ ~Has(answers, "prompt") /\ ~Has(answers, "cms")
    /\ GiveUp(r)
    /\ UNCHANGED excusedKeys

TimeoutPayload(r) ==
    /\ pc[r] = "payload"
    /\ ~Final(answers)
    /\ GiveUp(r)
    /\ excusedKeys' = excusedKeys \cup ({key[r]} \cap Keys)

\* Mutant: the result of a message in several parts is not recorded.
Record_SinglePart(r) ==
    /\ pc[r] = "record"
    /\ idem' = IF op[r] = "sendMulti" THEN idem ELSE idem \cup {key[r]}
    /\ Return(r)
    /\ UNCHANGED <<atMu, windowCount, windowAge, line, modem, notifications, history>>

\* The end of usecase.SendSMS, after the AT work has given the line back.
Record(r) ==
    /\ pc[r] = "record"
    /\ idem' = idem \cup {key[r]}
    /\ Return(r)
    /\ UNCHANGED <<atMu, windowCount, windowAge, line, modem, notifications, history>>

\* Mutant: the queue is copied and not emptied.
DrainSMSNotifications_Keeps ==
    /\ urcs # <<>>
    /\ delivered' = delivered \o urcs
    /\ UNCHANGED <<urcs, locals, atMu, guard, line, modem, nextURC, lost, history>>

\* SMSNotifications: the queue has its own lock and needs no atMu.
DrainSMSNotifications ==
    /\ urcs # <<>>
    /\ delivered' = delivered \o urcs
    /\ urcs' = <<>>
    /\ UNCHANGED <<locals, atMu, guard, line, modem, nextURC, lost, history>>

-----------------------------------------------------------------------------
\* The modem and the clock

(***************************************************************************)
(* The modem deals with its input in order.  While it waits for the text   *)
(* of a message, a command is taken for a part of the text and not         *)
(* answered; a text that comes when none is awaited is not answered either.*)
(***************************************************************************)
Respond(head, kind) == answers' = answers \cup {[kind |-> kind, late |-> head.late]}

TakeText(head) ==
    /\ prompting /\ head.command = "payload"
    /\ prompting' = FALSE
    /\ \/ /\ Respond(head, "ok")
          /\ transmitted' = [k \in Keys |-> IF k = head.key
                                            THEN SaturatedInc(transmitted[k])
                                            ELSE transmitted[k]]
       \/ Respond(head, "cms") /\ UNCHANGED transmitted
    /\ UNCHANGED <<format, charset>>

Ignore(head) ==
    /\ prompting <=> head.command # "payload"
    /\ UNCHANGED <<answers, modem, transmitted>>

AskForText(head) ==
    /\ ~prompting /\ head.command = "submit"
    /\ \/ Respond(head, "prompt") /\ prompting' = TRUE
       \/ Respond(head, "cms") /\ UNCHANGED prompting
    /\ UNCHANGED <<format, charset, transmitted>>

Obey(head) ==
    /\ ~prompting /\ head.command \notin {"submit", "payload"}
    /\ \/ /\ Respond(head, "ok")
          /\ format' = IF head.command \in {"text", "pdu"} THEN head.command ELSE format
          /\ charset' = IF head.command \in {"gsm", "ucs2"} THEN head.command ELSE charset
       \/ Respond(head, "error") /\ UNCHANGED <<format, charset>>
    /\ UNCHANGED <<prompting, transmitted>>

Execute ==
    /\ todo # <<>>
    /\ todo' = Tail(todo)
    /\ \/ TakeText(Head(todo)) \/ Ignore(Head(todo))
       \/ AskForText(Head(todo)) \/ Obey(Head(todo))
    /\ UNCHANGED <<locals, atMu, guard, arrived, notifications, timeouts, forged,
                   excusedKeys, recent>>

(***************************************************************************)
(* A piece of the text before the final result that contains what an       *)
(* exchange looks for: a stored message may say OK, ERROR or >.  The       *)
(* modem has the rest of its answer still to write, so an exchange that    *)
(* ends here leaves the rest, with the real result, to the next one.       *)
(***************************************************************************)
Recite ==
    /\ todo # <<>> /\ Head(todo).command = "query"
    /\ ~prompting
    /\ Len(forged) < MaxLookalikes
    /\ \E kind \in Lookalikes : Respond(Head(todo), kind) /\ forged' = Append(forged, kind)
    /\ UNCHANGED <<locals, atMu, guard, todo, arrived, modem, notifications, timeouts,
                   transmitted, excusedKeys, recent>>

URCArrives ==
    /\ nextURC <= MaxURCs
    /\ nextURC' = nextURC + 1
    /\ arrived' = Append(arrived, nextURC)
    /\ UNCHANGED <<locals, atMu, guard, todo, answers, modem, urcs, delivered, lost,
                   history>>

Tick ==
    /\ windowAge < Window \/ \E i \in 1..(2 * RateMax) : recent[i] < Window
    /\ windowAge' = IF WindowOver THEN windowAge ELSE windowAge + 1
    /\ recent' = [i \in 1..(2 * RateMax) |->
                      IF recent[i] < Window THEN recent[i] + 1 ELSE Window]
    /\ UNCHANGED <<locals, atMu, idem, windowCount, line, modem, notifications,
                   timeouts, forged, transmitted, excusedKeys>>

Next ==
    \/ \E r \in Requests :
          \/ SendSMS(r) \/ OtherRequest(r) \/ AcquireAT(r)
          \/ Write(r) \/ ReadPlain(r) \/ TimeoutPlain(r) \/ Reopen(r)
          \/ ReadPrompt(r) \/ TimeoutPrompt(r)
          \/ ReadPayload(r) \/ TimeoutPayload(r)
          \/ Record(r)
    \/ DrainSMSNotifications
    \/ Execute \/ Recite \/ URCArrives \/ Tick

Spec == Init /\ [][Next]_vars

-----------------------------------------------------------------------------
\* Properties

(***************************************************************************)
(* A message sent with a key is not transmitted twice.  The guard leaves    *)
(* three ways out, which excusedKeys names: two sends of the key overlap    *)
(* (the key is looked up before and stored after the AT work), the modem's  *)
(* verdict on the text came after the deadline, and the stored result has   *)
(* expired.  A fourth is that a text from the modem was taken for its       *)
(* prompt.                                                                  *)
(***************************************************************************)
TransmitOnce ==
    "prompt" \notin Range(forged) =>
        \A k \in Keys : transmitted[k] <= 1 \/ k \in excusedKeys

\* A stored result, which later sends with the key are answered with, stands
\* for a transmitted message, however late earlier answers were and whatever
\* final results texts have read like, as long as none read like a prompt.
RecordedWasSent == "prompt" \notin Range(forged) => \A k \in idem : transmitted[k] >= 1

(***************************************************************************)
(* What the code keeps of the rate limit.  The window starts with its first *)
(* send and does not slide, so a whole window can hold almost twice the     *)
(* limit, and no more: of any 2 * RateMax sends in a row the first is       *)
(* Window ticks old.  docs/sms.md:31 promises RateMax of them in a minute.  *)
(***************************************************************************)
RateBound == recent[2 * RateMax] = Window

(***************************************************************************)
(* A command never gets the answer of an earlier one, as long as none was   *)
(* given up and no text read like an answer: this is what not clearing the  *)
(* input buffer relies on.                                                  *)
(***************************************************************************)
OwnAnswers == timeouts = 0 /\ forged = <<>> => \A item \in answers : ~item.late

\* The text is written to a modem set up for the encoding it was built for,
\* whatever format and charset other operations have left, under the same
\* conditions.
SubmittedAsMeant ==
    \A r \in Requests :
        pc[r] = "payload" /\ timeouts = 0 /\ forged = <<>> =>
            /\ format = IF op[r] = "sendMulti" THEN "pdu" ELSE "text"
            /\ op[r] = "sendGSM" => charset = "gsm"
            /\ op[r] = "sendUCS2" => charset = "ucs2"

(***************************************************************************)
(* Notifications are handed out in the order they came and once, and each   *)
(* one is still on its way, handed out, pushed out by QueueMax newer ones,  *)
(* or was read in a place that does not queue it (a submission, or a port   *)
(* that was reopened).                                                     *)
(***************************************************************************)
URCsAccounted ==
    LET queued == delivered \o urcs
        unread == Range(arrived)
        taken == 1..(nextURC - 1) \ (unread \cup lost)
    IN  /\ \A i, j \in DOMAIN queued : i < j => queued[i] < queued[j]
        /\ \A id \in taken \ Range(queued) :
              Cardinality({other \in taken : other > id}) >= QueueMax

=============================================================================

------------------------------- MODULE SSEHub -------------------------------
(***************************************************************************)
(* The fan-out of the cached status to the browsers: handler.SSEHub, its   *)
(* Run goroutine, and one handleSSE goroutine per browser.                 *)
(*                                                                         *)
(* A FullStatus is a record of the fields compared by broadcast, sem, and  *)
(* of UpdatedAt, at, which broadcast ignores.  Every section that holds    *)
(* the hub's mutex is one step.  A subscriber channel has one slot.        *)
(***************************************************************************)
EXTENDS Naturals

CONSTANTS
    Clients,      \* the handleSSE goroutines
    Contents,     \* values of the compared fields of a status
    MaxUpdates,   \* bound on the updates of the cached status
    NoFrame

Status == [sem : Contents, at : 0..MaxUpdates]

ASSUME StatusAssumption ==
    /\ MaxUpdates \in Nat
    /\ NoFrame \notin Status

Frames == Status \cup {NoFrame}

VARIABLES
    cached,       \* what CachedStatus returns
    hub,          \* stage of Run
    sampled,      \* local status of broadcast
    sending,      \* channels broadcast has copied and not yet served
    lastStatus, last,             \* NoFrame when there is none
    clients,      \* the registered channels
    client,       \* stage of each handler
    slot,         \* content of each channel
    writing,      \* frame each handler is writing
    shown,        \* last frame written to each browser
    missed        \* history: browsers a frame was dropped for

vars == <<cached, hub, sampled, sending, lastStatus, last, clients, client,
          slot, writing, shown, missed>>

HubStages == {"idle", "compare", "commit", "send", "stopped", "panicked"}

ClientStages == {"new", "first", "write", "loop", "leaving", "gone"}

TypeOK ==
    /\ cached \in Status
    /\ hub \in HubStages
    /\ sampled \in Frames
    /\ sending \in SUBSET Clients
    /\ lastStatus \in Frames
    /\ last \in Frames
    /\ clients \in SUBSET Clients
    /\ client \in [Clients -> ClientStages]
    /\ slot \in [Clients -> Frames]
    /\ writing \in [Clients -> Frames]
    /\ shown \in [Clients -> Frames]
    /\ missed \in SUBSET Clients
    /\ clients = {c \in Clients : client[c] \notin {"new", "gone"}}
    /\ \A c \in Clients : (writing[c] # NoFrame) = (client[c] = "write")

Init ==
    /\ cached \in {s \in Status : s.at = 0}
    /\ hub = "idle"
    /\ sampled = NoFrame
    /\ sending = {}
    /\ lastStatus = NoFrame /\ last = NoFrame
    /\ clients = {}
    /\ client = [c \in Clients |-> "new"]
    /\ slot = [c \in Clients |-> NoFrame]
    /\ writing = [c \in Clients |-> NoFrame]
    /\ shown = [c \in Clients |-> NoFrame]
    /\ missed = {}

-----------------------------------------------------------------------------
\* The Run goroutine

\* The poller has stored a new status; UpdatedAt always moves.
Update(content) ==
    /\ cached.at < MaxUpdates
    /\ cached' = [sem |-> content, at |-> cached.at + 1]
    /\ UNCHANGED <<hub, sampled, sending, lastStatus, last, clients, client,
                   slot, writing, shown, missed>>

\* A tick, or the immediate first round: CachedStatus is read without h.mu.
Sample ==
    /\ hub = "idle"
    /\ sampled' = cached
    /\ hub' = "compare"
    /\ UNCHANGED <<cached, sending, lastStatus, last, clients, client, slot,
                   writing, shown, missed>>

Unchanged(s) == lastStatus # NoFrame /\ s.sem = lastStatus.sem

\* Nothing is sent when only UpdatedAt differs from the last frame.
Compare ==
    /\ hub = "compare"
    /\ hub' = IF Unchanged(sampled) THEN "idle" ELSE "commit"
    /\ sampled' = IF Unchanged(sampled) THEN NoFrame ELSE sampled
    /\ UNCHANGED <<cached, sending, lastStatus, last, clients, client, slot,
                   writing, shown, missed>>

\* Mutant: lastStatus is read again instead of the status that was marshaled.
Commit_Resample ==
    /\ hub = "commit"
    /\ lastStatus' = cached
    /\ last' = sampled
    /\ sending' = clients
    /\ hub' = "send"
    /\ UNCHANGED <<cached, sampled, clients, client, slot, writing,
                   shown, missed>>

\* last and the list of receivers change in one section of h.mu.
Commit ==
    /\ hub = "commit"
    /\ lastStatus' = sampled
    /\ last' = sampled
    /\ sending' = clients
    /\ hub' = "send"
    /\ UNCHANGED <<cached, sampled, clients, client, slot, writing,
                   shown, missed>>

\* Mutant: the send waits for room in the channel.
Send_Blocking(c) ==
    /\ hub = "send"
    /\ c \in sending
    /\ slot[c] = NoFrame
    /\ slot' = [slot EXCEPT ![c] = sampled]
    /\ sending' = sending \ {c}
    /\ UNCHANGED <<cached, hub, sampled, lastStatus, last, clients, client,
                   writing, shown, missed>>

(***************************************************************************)
(* The non-blocking send, outside h.mu: a full channel loses the frame, a  *)
(* closed one panics and takes the process down.                           *)
(***************************************************************************)
Send(c) ==
    /\ hub = "send"
    /\ c \in sending
    /\ IF client[c] = "gone"
         THEN hub' = "panicked" /\ UNCHANGED <<sending, slot, missed>>
         ELSE /\ sending' = sending \ {c}
              /\ IF slot[c] = NoFrame
                   THEN slot' = [slot EXCEPT ![c] = sampled] /\ UNCHANGED missed
                   ELSE missed' = missed \cup {c} /\ UNCHANGED slot
              /\ UNCHANGED hub
    /\ UNCHANGED <<cached, sampled, lastStatus, last, clients, client,
                   writing, shown>>

SendDone ==
    /\ hub = "send"
    /\ sending = {}
    /\ hub' = "idle"
    /\ sampled' = NoFrame
    /\ UNCHANGED <<cached, sending, lastStatus, last, clients, client, slot,
                   writing, shown, missed>>

\* ctx is cancelled at shutdown; it is looked at between two rounds.
Stop ==
    /\ hub = "idle"
    /\ hub' = "stopped"
    /\ UNCHANGED <<cached, sampled, sending, lastStatus, last, clients, client,
                   slot, writing, shown, missed>>

-----------------------------------------------------------------------------
\* The handleSSE goroutines

Running == hub # "panicked"

\* Mutant: the channel is registered without the frame the others already have.
Subscribe_Bare(c) ==
    /\ Running
    /\ client[c] = "new"
    /\ clients' = clients \cup {c}
    /\ client' = [client EXCEPT ![c] = "first"]
    /\ UNCHANGED <<cached, hub, sampled, sending, lastStatus, last, slot, writing,
                   shown, missed>>

Subscribe(c) ==
    /\ Running
    /\ client[c] = "new"
    /\ clients' = clients \cup {c}
    /\ slot' = [slot EXCEPT ![c] = last]
    /\ client' = [client EXCEPT ![c] = "first"]
    /\ UNCHANGED <<cached, hub, sampled, sending, lastStatus, last, writing,
                   shown, missed>>

(***************************************************************************)
(* The first frame is the one in the channel, or the status of the moment. *)
(***************************************************************************)
FirstFrame(c) ==
    /\ Running
    /\ client[c] = "first"
    /\ slot' = [slot EXCEPT ![c] = NoFrame]
    /\ writing' = [writing EXCEPT ![c] = IF slot[c] = NoFrame THEN cached
                                                              ELSE slot[c]]
    /\ client' = [client EXCEPT ![c] = "write"]
    /\ UNCHANGED <<cached, hub, sampled, sending, lastStatus, last, clients,
                   shown, missed>>

Receive(c) ==
    /\ Running
    /\ client[c] = "loop"
    /\ slot[c] # NoFrame
    /\ slot' = [slot EXCEPT ![c] = NoFrame]
    /\ writing' = [writing EXCEPT ![c] = slot[c]]
    /\ client' = [client EXCEPT ![c] = "write"]
    /\ UNCHANGED <<cached, hub, sampled, sending, lastStatus, last, clients,
                   shown, missed>>

\* writeFrame: it may take as long as the browser likes, and it may fail.
WriteFrame(c) ==
    /\ Running
    /\ client[c] = "write"
    /\ writing' = [writing EXCEPT ![c] = NoFrame]
    /\ \/ /\ shown' = [shown EXCEPT ![c] = writing[c]]
          /\ client' = [client EXCEPT ![c] = "loop"]
       \/ /\ client' = [client EXCEPT ![c] = "leaving"]
          /\ UNCHANGED shown
    /\ UNCHANGED <<cached, hub, sampled, sending, lastStatus, last, clients,
                   slot, missed>>

\* The browser is gone: the request's context ends.
Disconnect(c) ==
    /\ Running
    /\ client[c] = "loop"
    /\ client' = [client EXCEPT ![c] = "leaving"]
    /\ UNCHANGED <<cached, hub, sampled, sending, lastStatus, last, clients,
                   slot, writing, shown, missed>>

\* Mutant: the channel is closed but stays registered.
Unsubscribe_NoDelete(c) ==
    /\ Running
    /\ client[c] = "leaving"
    /\ client' = [client EXCEPT ![c] = "gone"]
    /\ slot' = [slot EXCEPT ![c] = NoFrame]
    /\ shown' = [shown EXCEPT ![c] = NoFrame]
    /\ UNCHANGED <<cached, hub, sampled, sending, lastStatus, last, clients,
                   writing, missed>>

\* unsub: out of clients and closed in one section of h.mu.
Unsubscribe(c) ==
    /\ Running
    /\ client[c] = "leaving"
    /\ clients' = clients \ {c}
    /\ client' = [client EXCEPT ![c] = "gone"]
    /\ slot' = [slot EXCEPT ![c] = NoFrame]
    /\ shown' = [shown EXCEPT ![c] = NoFrame]
    /\ UNCHANGED <<cached, hub, sampled, sending, lastStatus, last, writing,
                   missed>>

HandlerStep(c) ==
    \/ Subscribe(c)
    \/ FirstFrame(c)
    \/ Receive(c)
    \/ WriteFrame(c)
    \/ Disconnect(c)
    \/ Unsubscribe(c)

HubStep ==
    \/ Sample
    \/ Compare
    \/ Commit
    \/ \E c \in Clients : Send(c)
    \/ SendDone

Next ==
    \/ \E content \in Contents : Running /\ Update(content)
    \/ HubStep
    \/ Stop
    \/ \E c \in Clients : HandlerStep(c)

Spec == Init /\ [][Next]_vars

(***************************************************************************)
(* The ticker of Run keeps firing and a handler that waits for a frame     *)
(* takes it.  Nothing makes a browser connect, read what is written to it  *)
(* or leave, nor the process stop.                                         *)
(***************************************************************************)
Fairness ==
    /\ WF_vars(HubStep)
    /\ \A c \in Clients : WF_vars(FirstFrame(c)) /\ WF_vars(Receive(c))

FairSpec == Spec /\ Fairness

-----------------------------------------------------------------------------
\* Properties

(***************************************************************************)
(* The only frame a browser ever misses is one its full channel rejected.  *)
(* Whatever the order of subscriptions, sends and reads, the newest frame  *)
(* a registered client has, waiting in its channel, being written or       *)
(* shown, is the hub's last one unless the hub still has to serve it or    *)
(* has dropped a frame for it.                                             *)
(***************************************************************************)
Newest(c) ==
    IF slot[c] # NoFrame THEN slot[c]
    ELSE IF writing[c] # NoFrame THEN writing[c]
    ELSE shown[c]

MissedOnlyWhenFull ==
    \A c \in clients \ (sending \cup missed) :
        client[c] \in {"first", "write", "loop"} /\ last # NoFrame
            => Newest(c) = last

(***************************************************************************)
(* "Slow clients cannot stall others": whatever the handlers do, the hub   *)
(* finishes its round, until it stops or the process ends.                 *)
(***************************************************************************)
RoundsFinish == (hub = "send") ~> (hub \in {"idle", "panicked"})

(***************************************************************************)
(* When the status settles, the browser of a client that stays connected   *)
(* and for which no frame was dropped ends up showing it, although rounds  *)
(* in which only UpdatedAt differs send nothing.                           *)
(***************************************************************************)
Settled(content) == cached.sem = content /\ hub \notin {"stopped", "panicked"}

ShowsSettledStatus ==
    \A c \in Clients, content \in Contents :
        <>[](Settled(content) /\ client[c] = "loop" /\ c \notin missed)
            => <>[](shown[c] # NoFrame /\ shown[c].sem = content)

-----------------------------------------------------------------------------
\* A statement of the comments that the code breaks.

(***************************************************************************)
(* Comment on SSEHub: "Only the hub closes subscriber channels (after      *)
(* unsubscribe removes them)", so that a send never meets a closed one.    *)
(* unsub closes the channel while broadcast may still have it in its copy  *)
(* of the receivers.                                                       *)
(***************************************************************************)
NoSendOnClosedChannel == hub # "panicked"
=============================================================================

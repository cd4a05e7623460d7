---------------------------- MODULE SSEHubProofs ----------------------------
(***************************************************************************)
(* Proofs about SSEHub, for any browsers, statuses and number of updates.  *)
(***************************************************************************)
EXTENDS SSEHub, TLAPS

-----------------------------------------------------------------------------
(***************************************************************************)
(* Type correctness, with the bookkeeping of TypeOK: exactly the channels  *)
(* of live handlers are registered.                                        *)
(***************************************************************************)
LEMMA TypeInit == Init => TypeOK
  BY StatusAssumption DEF Init, TypeOK, Status, Frames, HubStages, ClientStages

LEMMA TypeNext == TypeOK /\ [Next]_vars => TypeOK'
<1> SUFFICES ASSUME TypeOK, [Next]_vars PROVE TypeOK'
  OBVIOUS
<1> USE DEF TypeOK, Frames, HubStages, ClientStages
<1>1. ASSUME NEW content \in Contents, Update(content) PROVE TypeOK'
  BY <1>1, StatusAssumption DEF Update, Status
<1>2. CASE Sample
  BY <1>2 DEF Sample
<1>3. CASE Compare
  BY <1>3 DEF Compare
<1>4. CASE Commit
  BY <1>4 DEF Commit
<1>5. ASSUME NEW c \in Clients, Send(c) PROVE TypeOK'
  BY <1>5 DEF Send
<1>6. CASE SendDone
  BY <1>6 DEF SendDone
<1>7. CASE Stop
  BY <1>7 DEF Stop
<1>8. ASSUME NEW c \in Clients, Subscribe(c) PROVE TypeOK'
  BY <1>8 DEF Subscribe
<1>9. ASSUME NEW c \in Clients, FirstFrame(c) PROVE TypeOK'
  BY <1>9, StatusAssumption DEF FirstFrame
<1>10. ASSUME NEW c \in Clients, Receive(c) PROVE TypeOK'
  BY <1>10 DEF Receive
<1>11. ASSUME NEW c \in Clients, WriteFrame(c) PROVE TypeOK'
  BY <1>11 DEF WriteFrame
<1>12. ASSUME NEW c \in Clients, Disconnect(c) PROVE TypeOK'
  BY <1>12 DEF Disconnect
<1>13. ASSUME NEW c \in Clients, Unsubscribe(c) PROVE TypeOK'
  BY <1>13 DEF Unsubscribe
<1>14. CASE UNCHANGED vars
  BY <1>14 DEF vars
<1> QED
  BY <1>1, <1>2, <1>3, <1>4, <1>5, <1>6, <1>7, <1>8, <1>9, <1>10, <1>11, <1>12,
     <1>13, <1>14 DEF Next, HubStep, HandlerStep

(***************************************************************************)
(* The types of every variable, and the registration of exactly the live   *)
(* handlers, hold throughout.                                              *)
(***************************************************************************)
THEOREM TypeCorrect == Spec => []TypeOK
  BY TypeInit, TypeNext, PTL DEF Spec

-----------------------------------------------------------------------------
(***************************************************************************)
(* The inductive strengthening of MissedOnlyWhenFull: the hub has a list   *)
(* of receivers only while it sends, and what it sends is its last frame;  *)
(* a handler that has written nothing shows nothing.                       *)
(***************************************************************************)
Round ==
    /\ hub \in {"compare", "commit", "send"} => sampled # NoFrame
    /\ hub = "send" => sampled = last
    /\ hub \notin {"send", "panicked"} => sending = {}

Fresh == \A c \in Clients : client[c] \in {"new", "first"} => shown[c] = NoFrame

Delivery == Round /\ Fresh /\ MissedOnlyWhenFull

DeliveryInv == TypeOK /\ Delivery

LEMMA DeliveryInit == Init => DeliveryInv
  BY TypeInit DEF Init, DeliveryInv, Delivery, Round, Fresh, MissedOnlyWhenFull

LEMMA DeliveryNext == DeliveryInv /\ [Next]_vars => DeliveryInv'
<1> SUFFICES ASSUME DeliveryInv, [Next]_vars PROVE Delivery'
  BY TypeNext DEF DeliveryInv
<1> USE DEF DeliveryInv, Delivery, TypeOK, Round, Fresh, MissedOnlyWhenFull, Newest
<1>1. ASSUME NEW content \in Contents, Update(content) PROVE Delivery'
  BY <1>1 DEF Update
<1>2. CASE Sample
  BY <1>2, StatusAssumption DEF Sample
<1>3. CASE Compare
  BY <1>3 DEF Compare
<1>4. CASE Commit
  BY <1>4 DEF Commit
<1>5. ASSUME NEW c \in Clients, Send(c) PROVE Delivery'
  BY <1>5 DEF Send
<1>6. CASE SendDone
  BY <1>6 DEF SendDone
<1>7. CASE Stop
  BY <1>7 DEF Stop
<1>8. ASSUME NEW c \in Clients, Subscribe(c) PROVE Delivery'
  BY <1>8 DEF Subscribe
<1>9. ASSUME NEW c \in Clients, FirstFrame(c) PROVE Delivery'
  BY <1>9 DEF FirstFrame
<1>10. ASSUME NEW c \in Clients, Receive(c) PROVE Delivery'
  BY <1>10 DEF Receive
<1>11. ASSUME NEW c \in Clients, WriteFrame(c) PROVE Delivery'
  BY <1>11 DEF WriteFrame
<1>12. ASSUME NEW c \in Clients, Disconnect(c) PROVE Delivery'
  BY <1>12 DEF Disconnect
<1>13. ASSUME NEW c \in Clients, Unsubscribe(c) PROVE Delivery'
  BY <1>13 DEF Unsubscribe
<1>14. CASE UNCHANGED vars
  BY <1>14 DEF vars
<1> QED
  BY <1>1, <1>2, <1>3, <1>4, <1>5, <1>6, <1>7, <1>8, <1>9, <1>10, <1>11, <1>12,
     <1>13, <1>14 DEF Next, HubStep, HandlerStep

(***************************************************************************)
(* A browser misses a frame only when its channel was full: for any number *)
(* of handlers and in every interleaving.                                  *)
(***************************************************************************)
THEOREM MissedOnlyWhenFullCorrect == Spec => []MissedOnlyWhenFull
<1>1. DeliveryInv => MissedOnlyWhenFull
  BY DEF DeliveryInv, Delivery
<1> QED
  BY <1>1, DeliveryInit, DeliveryNext, PTL DEF Spec
=============================================================================

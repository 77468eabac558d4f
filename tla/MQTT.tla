-------------------------------- MODULE MQTT --------------------------------
(***************************************************************************)
(* The broker and the clients' connections to it.  MQTTClient connects     *)
(* once, in its constructor, and asks for QoS 1 and a clean session: a     *)
(* message reaches every subscriber that is connected, in the order the    *)
(* broker got it, possibly more than once, unless the subscriber's queue   *)
(* at the broker is full.  MQTTClient::loop ignores what mosquitto_loop    *)
(* answers, so a lost connection is never opened again.                    *)
(***************************************************************************)
EXTENDS Trade

CONSTANTS
    Clients,
    Subscriptions,     \* Subscriptions[c]: the channels client c subscribes to
    Late,              \* clients that start after the others
    Flaky,             \* clients whose connection may fail
    Namesakes,         \* Namesakes[c]: clients of other programs that may have the id of c
    QueueLimit,        \* bound: messages the broker keeps for one client
    MaxRedeliveries    \* bound: messages delivered a second time

ASSUME NetAssumption ==
    /\ Namesakes \in [Clients -> SUBSET Clients]
    /\ MaxRedeliveries \in Nat

VARIABLES
    link,          \* link[c]: "joining", "up", "broken" (not noticed yet), "down"
    inbox,         \* inbox[c]: messages the broker has for client c, oldest first
    redelivered    \* messages delivered a second time so far

netVars == <<link, inbox, redelivered>>

NetInit ==
    /\ link = [c \in Clients |-> IF c \in Late THEN "joining" ELSE "up"]
    /\ inbox = [c \in Clients |-> <<>>]
    /\ redelivered = 0

Subscribes(c, m) == Channel(m) \in Subscriptions[c]

Started(c) == link[c] # "joining"

(* publish() reports success as long as the client believes it is connected.*)
Sends(c) == link[c] \in {"up", "broken"}

Route(boxes, m) ==
    [c \in Clients |->
        IF Subscribes(c, m) /\ link[c] = "up" /\ Len(boxes[c]) < QueueLimit
        THEN Append(boxes[c], m) ELSE boxes[c]]

Publish(c, boxes, m) ==
    inbox' = IF link[c] = "up" THEN Route(boxes, m) ELSE boxes

Taken(c) == [inbox EXCEPT ![c] = Tail(@)]

Post(c, m) ==
    /\ Publish(c, inbox, m)
    /\ UNCHANGED <<link, redelivered>>

(* on_message hands the oldest message to the client's handler, which may   *)
(* publish one of its own.                                                  *)
HasMail(c) == inbox[c] # <<>>
Mail(c) == Head(inbox[c])

Consume(c) ==
    /\ inbox' = Taken(c)
    /\ UNCHANGED <<link, redelivered>>

ConsumeAndPost(c, m) ==
    /\ Publish(c, Taken(c), m)
    /\ UNCHANGED <<link, redelivered>>

(* Faulty: the session outlives the connection.                             *)
DisconnectKeepsInbox(c) ==
    /\ link' = [link EXCEPT ![c] = "down"]
    /\ UNCHANGED <<inbox, redelivered>>

(* disconnect()                                                             *)
Disconnect(c) ==
    /\ link' = [link EXCEPT ![c] = "down"]
    /\ inbox' = [inbox EXCEPT ![c] = <<>>]
    /\ UNCHANGED redelivered

-----------------------------------------------------------------------------
Join(c) ==
    /\ link[c] = "joining"
    /\ link' = [link EXCEPT ![c] = "up"]
    /\ UNCHANGED <<inbox, redelivered>>

(* Ids are "store0" or "farm1" in every program.  A broker has one client   *)
(* of an id: it closes the connection of the one that was there before.     *)
TakeOver(c, d) ==
    /\ link[c] = "joining" /\ d \in Namesakes[c] /\ link[d] = "up"
    /\ link' = [link EXCEPT ![c] = "up", ![d] = "broken"]
    /\ inbox' = [inbox EXCEPT ![d] = <<>>]
    /\ UNCHANGED redelivered

(* mosquitto_connect failed: the client runs on without a connection.       *)
JoinFails(c) ==
    /\ c \in Flaky /\ link[c] = "joining"
    /\ link' = [link EXCEPT ![c] = "down"]
    /\ UNCHANGED <<inbox, redelivered>>

Break(c) ==
    /\ c \in Flaky /\ link[c] = "up"
    /\ link' = [link EXCEPT ![c] = "broken"]
    /\ inbox' = [inbox EXCEPT ![c] = <<>>]
    /\ UNCHANGED redelivered

NoticeBreak(c) ==
    /\ link[c] = "broken"
    /\ link' = [link EXCEPT ![c] = "down"]
    /\ UNCHANGED <<inbox, redelivered>>

(* QoS 1: the broker that misses an acknowledgement sends a message again,  *)
(* after what it has sent meanwhile.                                        *)
Redeliver(c) ==
    /\ HasMail(c) /\ Len(inbox[c]) < QueueLimit
    /\ redelivered < MaxRedeliveries
    /\ inbox' = [inbox EXCEPT ![c] = Append(@, Mail(c))]
    /\ redelivered' = redelivered + 1
    /\ UNCHANGED link

NetNext ==
    \E c \in Clients :
        \/ Join(c) \/ JoinFails(c) \/ Break(c) \/ NoticeBreak(c) \/ Redeliver(c)
        \/ \E d \in Namesakes[c] : TakeOver(c, d)

=============================================================================

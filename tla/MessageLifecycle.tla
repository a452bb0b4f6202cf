-------------------------- MODULE MessageLifecycle --------------------------
(***************************************************************************)
(* What the Inbox promises of a message, with no request, row lock or      *)
(* stale read in sight: a draft may be edited until it is discarded or     *)
(* queued, from then on its content is what will be sent, it is sent at    *)
(* most once, a received message never changes, no message moves to        *)
(* another conversation, and an external identifier names one message.     *)
(***************************************************************************)
CONSTANTS Messages, Conversations, ExternalIds, Bodies, None

VARIABLE message

States == {"absent", "draft", "discarded", "queued", "sent", "received"}

Message ==
    [state: States, body: Bodies,
     conversation: Conversations \union {None}, external: ExternalIds \union {None}]

Init ==
    message = [m \in Messages |->
        [state |-> "absent", body |-> {}, conversation |-> None, external |-> None]]

Become(m, from, to) ==
    /\ message[m].state = from
    /\ message' = [message EXCEPT ![m].state = to]

Draft(m, c, b) ==
    /\ message[m].state = "absent"
    /\ message' = [message EXCEPT ![m] =
          [state |-> "draft", body |-> b, conversation |-> c, external |-> None]]

Receive(m, c, x, b) ==
    /\ message[m].state = "absent"
    /\ x # None => \A n \in Messages : message[n].external # x
    /\ message' = [message EXCEPT ![m] =
          [state |-> "received", body |-> b, conversation |-> c, external |-> x]]

Edit(m, b) ==
    /\ message[m].state = "draft"
    /\ message' = [message EXCEPT ![m].body = b]

Discard(m) == Become(m, "draft", "discarded")
Queue(m) == Become(m, "draft", "queued")
Send(m) == Become(m, "queued", "sent")

Next ==
    \E m \in Messages :
        \/ \E c \in Conversations, b \in Bodies :
              \/ Draft(m, c, b)
              \/ \E x \in ExternalIds \union {None} : Receive(m, c, x, b)
        \/ \E b \in Bodies : Edit(m, b)
        \/ Discard(m)
        \/ Queue(m)
        \/ Send(m)

Spec == Init /\ [][Next]_message
=============================================================================

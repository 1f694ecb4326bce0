----------------------------- MODULE MessageStore -----------------------------
(***************************************************************************)
(* The server's store of MLS messages that members have not acknowledged   *)
(* yet (server_store/message_store.rs): the tables mls_messages and        *)
(* mls_message_receivers, and the SubscriptionManager, the task that hands *)
(* a message that was just stored to the members that are connected.       *)
(*                                                                         *)
(* This module holds the state of the store and the steps every user of it *)
(* shares; MessageDelivery (sessions and agents) and UserMls (the MLS      *)
(* state a user keeps on the server) add the tasks that read from it.      *)
(*                                                                         *)
(* load_all_for sorts by received_at, in seconds, which add_message reads  *)
(* before its INSERTs; rows of the same second come out in the order they  *)
(* were inserted.  So a message whose add_message began after another one  *)
(* was committed comes after it, and two that overlap come in either order *)
(* (the clock is taken never to go back).                                  *)
(***************************************************************************)
EXTENDS Naturals, Sequences, FiniteSets

CONSTANTS
    Messages,         \* messages, each with the id add_message gives it
    Receivers,        \* members: sessions, agents, users (SpkiHash)
    To,               \* [Messages -> receivers left by remove_receiver]
    Streams,          \* tasks that stream the messages of one receiver
    Owner,            \* [Streams -> that receiver]
    RequestCap,       \* capacity of the manager's channel (100)
    SubscriptionCap   \* capacity of a subscription's channel (100)

ASSUME StoreAssumption ==
    /\ IsFiniteSet(Messages) /\ IsFiniteSet(Streams)
    /\ To \in [Messages -> SUBSET Receivers]
    /\ Owner \in [Streams -> Receivers]
    /\ RequestCap \in Nat \ {0}
    /\ SubscriptionCap \in Nat \ {0}
    /\ {"none"} \cap (Messages \cup Streams) = {}

VARIABLES
    stored,      \* rows of mls_messages
    owed,        \* rows of mls_message_receivers: <<message, receiver>>
    adding,      \* [Messages -> where its add_message is]
    earlier,     \* [Messages -> the messages stored when it was stamped]
    requests,    \* channel of SubscriptionRequests to the manager
    handing,     \* Distribute request the manager works on
    subscribed,  \* [Receivers -> stream whose channel the manager holds]
    sub          \* [Streams -> the channel of its subscription]

storeVars == <<stored, owed, adding, earlier, requests, handing, subscribed, sub>>

None == "none"

Distribution(m) == [kind |-> "distribute", msg |-> m]
Subscription(s) == [kind |-> "subscribe", stream |-> s]
Requests == {Distribution(m) : m \in Messages} \cup {Subscription(s) : s \in Streams}

\* The manager is idle when no message is left to hand out.
Idle == [msg |-> None, left |-> {}]

NoSubscription == [open |-> FALSE, queue |-> <<>>]

StoreTypeOK ==
    /\ stored \subseteq Messages
    /\ owed \subseteq Messages \X Receivers
    /\ adding \in [Messages -> {"new", "begun", "committed", "done", "lost"}]
    /\ earlier \in [Messages -> SUBSET Messages]
    /\ requests \in Seq(Requests) /\ Len(requests) <= RequestCap
    /\ handing \in [msg : Messages \cup {None}, left : SUBSET Receivers]
    /\ subscribed \in [Receivers -> Streams \cup {None}]
    /\ sub \in [Streams -> [open : BOOLEAN, queue : Seq(Messages)]]
    /\ \A s \in Streams : Len(sub[s].queue) <= SubscriptionCap

StoreInit ==
    /\ stored = {}
    /\ owed = {}
    /\ adding = [m \in Messages |-> "new"]
    /\ earlier = [m \in Messages |-> {}]
    /\ requests = <<>>
    /\ handing = Idle
    /\ subscribed = [r \in Receivers |-> None]
    /\ sub = [s \in Streams |-> NoSubscription]

-----------------------------------------------------------------------------
(* add_message *)

Committed == {m \in Messages : adding[m] \in {"committed", "done"}}

\* A message arrives: the id and received_at are taken.
BeginAdd(m) ==
    /\ adding[m] = "new"
    /\ adding' = [adding EXCEPT ![m] = "begun"]
    /\ earlier' = [earlier EXCEPT ![m] = Committed]
    /\ UNCHANGED <<stored, owed, requests, handing, subscribed, sub>>

\* The INSERTs of the message and of its receivers, in one transaction.
CommitAdd(m) ==
    /\ adding[m] = "begun"
    /\ stored' = stored \cup {m}
    /\ owed' = owed \cup ({m} \X To[m])
    /\ adding' = [adding EXCEPT ![m] = "committed"]
    /\ UNCHANGED <<earlier, requests, handing, subscribed, sub>>

\* The database refuses the transaction: add_message returns the error.
FailAdd(m) ==
    /\ adding[m] = "begun"
    /\ adding' = [adding EXCEPT ![m] = "lost"]
    /\ UNCHANGED <<stored, owed, earlier, requests, handing, subscribed, sub>>

\* Afterwards the manager is asked to hand the message out.
Distribute(m) ==
    /\ adding[m] = "committed"
    /\ Len(requests) < RequestCap
    /\ requests' = Append(requests, Distribution(m))
    /\ adding' = [adding EXCEPT ![m] = "done"]
    /\ UNCHANGED <<stored, owed, earlier, handing, subscribed, sub>>

-----------------------------------------------------------------------------
(* load_all_for, subscribe, aknowledge_single_message, aknowledge_messages *)

OwedTo(r) == {m \in stored : <<m, r>> \in owed}

\* The orders in which load_all_for may return the messages of S.
Loads(S) ==
    {f \in [1 .. Cardinality(S) -> S] :
        /\ \A i, j \in DOMAIN f : i # j => f[i] # f[j]
        /\ \A i, j \in DOMAIN f : f[i] \in earlier[f[j]] => i < j}

\* subscribe: a fresh channel, whose sender goes to the manager's queue.
SendSubscription(s) ==
    /\ Len(requests) < RequestCap
    /\ requests' = Append(requests, Subscription(s))
    /\ sub' = [sub EXCEPT ![s] = [open |-> TRUE, queue |-> <<>>]]
    /\ UNCHANGED <<stored, owed, adding, earlier, handing, subscribed>>

\* The sender of the channel is dropped once the manager holds another one.
Fed(s) ==
    \/ subscribed[Owner[s]] = s
    \/ \E i \in DOMAIN requests : requests[i] = Subscription(s)

\* The task that streams has ended, and its receiver is dropped.
Dropped(s) == [sub EXCEPT ![s] = NoSubscription]

\* First DELETE: the receiver is no longer owed the message.
DropReceivers(M, r) == owed \ (M \X {r})

\* Second DELETE: a message that nobody is owed any more is removed.
DropMessages(M, rows) == {m \in stored : m \in M => \E r \in Receivers : <<m, r>> \in rows}

-----------------------------------------------------------------------------
(* The SubscriptionManager's task *)

TakeRequest ==
    /\ handing = Idle
    /\ requests # <<>>
    /\ requests' = Tail(requests)
    /\ LET q == Head(requests) IN
          \/ /\ q.kind = "subscribe"
             /\ subscribed' = [subscribed EXCEPT ![Owner[q.stream]] = q.stream]
             /\ UNCHANGED handing
          \/ /\ q.kind = "distribute"
             /\ handing' = IF To[q.msg] = {} THEN Idle
                                             ELSE [msg |-> q.msg, left |-> To[q.msg]]
             /\ UNCHANGED subscribed
    /\ UNCHANGED <<stored, owed, adding, earlier, sub>>

\* As if the channel had no bound.
CanAlwaysSend(r) == TRUE

\* A full channel makes the manager wait, unless its receiver is dropped.
CanSend(r) ==
    LET s == subscribed[r] IN
        IF s = None THEN TRUE
        ELSE sub[s].open => Len(sub[s].queue) < SubscriptionCap

\* As if a message that finds the channel full were dropped.
HandOverOrDrop(r) ==
    /\ r \in handing.left
    /\ handing' = IF handing.left = {r} THEN Idle
                                        ELSE [handing EXCEPT !.left = @ \ {r}]
    /\ LET s == subscribed[r] IN
          IF s # None /\ CanSend(r)
          THEN sub' = [sub EXCEPT ![s].queue = IF sub[s].open THEN Append(@, handing.msg) ELSE @]
          ELSE UNCHANGED sub
    /\ UNCHANGED <<stored, owed, adding, earlier, requests, subscribed>>

HandOver(r) ==
    /\ r \in handing.left
    /\ CanSend(r)
    /\ handing' = IF handing.left = {r} THEN Idle
                                        ELSE [handing EXCEPT !.left = @ \ {r}]
    /\ LET s == subscribed[r] IN
          \/ /\ s = None
             /\ UNCHANGED <<subscribed, sub>>
          \/ /\ s # None /\ ~sub[s].open
             /\ subscribed' = [subscribed EXCEPT ![r] = None]
             /\ UNCHANGED sub
          \/ /\ s # None /\ sub[s].open
             /\ sub' = [sub EXCEPT ![s].queue = Append(@, handing.msg)]
             /\ UNCHANGED subscribed
    /\ UNCHANGED <<stored, owed, adding, earlier, requests>>

\* The server stops at any point: only the tables survive.
StoreRestart ==
    /\ adding' = [m \in Messages |->
                     CASE adding[m] = "begun"     -> "lost"
                       [] adding[m] = "committed" -> "done"
                       [] OTHER                   -> adding[m]]
    /\ requests' = <<>>
    /\ handing' = Idle
    /\ subscribed' = [r \in Receivers |-> None]
    /\ sub' = [s \in Streams |-> NoSubscription]
    /\ UNCHANGED <<stored, owed, earlier>>

\* The steps of the store itself.
StoreStep ==
    \/ \E m \in Messages : BeginAdd(m) \/ CommitAdd(m) \/ FailAdd(m) \/ Distribute(m)
    \/ TakeRequest
    \/ \E r \in Receivers : HandOver(r)
=============================================================================

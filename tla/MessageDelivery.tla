---------------------------- MODULE MessageDelivery ----------------------------
(***************************************************************************)
(* Delivery of MLS messages to sessions and agents                         *)
(* (message_streaming/with_client.rs, with_agent.rs, client.rs, agent.rs): *)
(* a member opens a "message-receiving" session; the server spawns         *)
(* stream_mls_messages, which sends what the store holds for the member,   *)
(* then what the SubscriptionManager hands it, one message at a time, and  *)
(* acknowledges a message to the store when the member answers Ok.         *)
(*                                                                         *)
(* A stream stands for one connection of its owner: the stream task, the   *)
(* handle_connection loop that writes to the session, and the member's     *)
(* receive loop.  A member keeps what it handled (its MLS database), so a  *)
(* message it gets again is refused by OpenMLS.                            *)
(*                                                                         *)
(* Left out: the DashMap of channels behind send_message, try_send_message *)
(* and get_sender, which nothing calls; the status messages that share a   *)
(* client's channel (ConnectionStatus) except that they, too, make         *)
(* handle_connection notice a dead connection.                             *)
(***************************************************************************)
EXTENDS MessageStore

CONSTANTS
    MaxArrivals,   \* bound: messages and connections that arrive, together
    MaxRestarts    \* bound: how often the server is restarted

ASSUME DeliveryAssumption == MaxArrivals \in Nat /\ MaxRestarts \in Nat

VARIABLES
    at,        \* [Streams -> where stream_mls_messages_inner is]
    batch,     \* [Streams -> messages of load_all_for still to be sent]
    cur,       \* [Streams -> message that is being delivered]
    conn,      \* [Streams -> the member's connection]
    serving,   \* [Streams -> handle_connection still runs]
    line,      \* [Streams -> where cur is between server and member]
    handled,   \* [Receivers -> messages it has processed]
    since,     \* [Streams -> history: messages it loaded; once the manager holds
               \*  its subscription: those it did not load, handed out before]
    taken,     \* history: messages whose Distribute the manager has taken
    restarts

streamVars == <<at, batch, cur, conn, serving, line>>
vars == <<stored, owed, adding, earlier, requests, handing, subscribed, sub,
          at, batch, cur, conn, serving, line, handled, since, taken, restarts>>

TypeOK ==
    /\ StoreTypeOK
    /\ at \in [Streams -> {"off", "load", "subscribe", "next", "wait",
                           "acknowledge", "cleanup", "ended"}]
    /\ batch \in [Streams -> Seq(Messages)]
    /\ cur \in [Streams -> Messages \cup {None}]
    /\ conn \in [Streams -> {"none", "open", "closed"}]
    /\ serving \in [Streams -> BOOLEAN]
    /\ line \in [Streams -> {"none", "queued", "sent", "ok", "err"}]
    /\ handled \in [Receivers -> SUBSET Messages]
    /\ since \in [Streams -> SUBSET Messages]
    /\ taken \subseteq Messages
    /\ restarts \in 0 .. MaxRestarts
    /\ \A s \in Streams : at[s] \in {"wait", "acknowledge", "cleanup"} <=> cur[s] # None

Init ==
    /\ StoreInit
    /\ at = [s \in Streams |-> "off"]
    /\ batch = [s \in Streams |-> <<>>]
    /\ cur = [s \in Streams |-> None]
    /\ conn = [s \in Streams |-> "none"]
    /\ serving = [s \in Streams |-> FALSE]
    /\ line = [s \in Streams |-> "none"]
    /\ handled = [r \in Receivers |-> {}]
    /\ since = [s \in Streams |-> {}]
    /\ taken = {}
    /\ restarts = 0

MayArrive ==
    Cardinality({m \in Messages : adding[m] # "new"})
        + Cardinality({s \in Streams : at[s] # "off"}) < MaxArrivals

-----------------------------------------------------------------------------
(* The stream task *)

\* A member opens its receiving session (MessageSender::handle).
Connect(s) ==
    /\ at[s] = "off" /\ MayArrive
    /\ \A t \in Streams : Owner[t] = Owner[s] => conn[t] # "open"
    /\ at' = [at EXCEPT ![s] = "load"]
    /\ conn' = [conn EXCEPT ![s] = "open"]
    /\ serving' = [serving EXCEPT ![s] = TRUE]
    /\ UNCHANGED <<storeVars, batch, cur, line, handled, since, taken, restarts>>

Load(s) ==
    /\ at[s] = "load"
    /\ \E f \in Loads(OwedTo(Owner[s])) : batch' = [batch EXCEPT ![s] = f]
    /\ at' = [at EXCEPT ![s] = "subscribe"]
    /\ since' = [since EXCEPT ![s] = OwedTo(Owner[s])]
    /\ UNCHANGED <<storeVars, cur, conn, serving, line, handled, taken, restarts>>

Subscribe(s) ==
    /\ at[s] = "subscribe"
    /\ SendSubscription(s)
    /\ at' = [at EXCEPT ![s] = "next"]
    /\ UNCHANGED <<batch, cur, conn, serving, line, handled, since, taken, restarts>>

\* As if the task kept its subscription when it returns.
EndSubscribed(s) ==
    /\ at' = [at EXCEPT ![s] = "ended"]
    /\ batch' = [batch EXCEPT ![s] = <<>>]
    /\ cur' = [cur EXCEPT ![s] = None]
    /\ line' = [line EXCEPT ![s] = "none"]
    /\ UNCHANGED sub

\* The task returns: what it holds and its subscription are dropped.
End(s) ==
    /\ at' = [at EXCEPT ![s] = "ended"]
    /\ batch' = [batch EXCEPT ![s] = <<>>]
    /\ cur' = [cur EXCEPT ![s] = None]
    /\ line' = [line EXCEPT ![s] = "none"]
    /\ sub' = Dropped(s)

\* The next message goes into the channel of handle_connection, and the task
\* waits for its feedback.
Offer(s, m) ==
    /\ at[s] = "next" /\ serving[s]
    /\ at' = [at EXCEPT ![s] = "wait"]
    /\ cur' = [cur EXCEPT ![s] = m]
    /\ line' = [line EXCEPT ![s] = "queued"]
    /\ UNCHANGED <<stored, owed, adding, earlier, requests, handing, subscribed,
                   conn, serving, handled, since, taken, restarts>>

NextLoaded(s) ==
    /\ batch[s] # <<>>
    /\ Offer(s, Head(batch[s]))
    /\ batch' = [batch EXCEPT ![s] = Tail(@)]
    /\ UNCHANGED sub

NextLive(s) ==
    /\ batch[s] = <<>> /\ sub[s].queue # <<>>
    /\ Offer(s, Head(sub[s].queue))
    /\ sub' = [sub EXCEPT ![s].queue = Tail(@)]
    /\ UNCHANGED batch

\* handle_connection is gone: send drops the message and with it the feedback.
Undeliverable(s) ==
    /\ at[s] = "next" /\ ~serving[s]
    /\ batch[s] # <<>> \/ sub[s].queue # <<>>
    /\ End(s)
    /\ UNCHANGED <<stored, owed, adding, earlier, requests, handing, subscribed,
                   conn, serving, handled, since, taken, restarts>>

\* The subscription's sender is gone: recv returns None and the task ends.
Unfed(s) ==
    /\ at[s] = "next"
    /\ batch[s] = <<>> /\ sub[s].queue = <<>>
    /\ ~Fed(s)
    /\ End(s)
    /\ UNCHANGED <<stored, owed, adding, earlier, requests, handing, subscribed,
                   conn, serving, handled, since, taken, restarts>>

\* As if the answer were not looked at.
FeedbackUnread(s) ==
    /\ at[s] = "wait" /\ serving[s] /\ conn[s] = "open"
    /\ line[s] \in {"ok", "err"}
    /\ at' = [at EXCEPT ![s] = "acknowledge"]
    /\ line' = [line EXCEPT ![s] = "none"]
    /\ UNCHANGED <<storeVars, batch, cur, conn, serving, handled, since, taken, restarts>>

\* The feedback arrives: only an Ok is acknowledged to the store.
Feedback(s) ==
    /\ at[s] = "wait" /\ serving[s] /\ conn[s] = "open"
    /\ \/ /\ line[s] = "ok"
          /\ at' = [at EXCEPT ![s] = "acknowledge"]
          /\ line' = [line EXCEPT ![s] = "none"]
          /\ UNCHANGED <<batch, cur, sub>>
       \/ /\ line[s] = "err"
          /\ End(s)
    /\ UNCHANGED <<stored, owed, adding, earlier, requests, handing, subscribed,
                   conn, serving, handled, since, taken, restarts>>

\* aknowledge_single_message, first statement
Acknowledge(s) ==
    /\ at[s] = "acknowledge"
    /\ owed' = DropReceivers({cur[s]}, Owner[s])
    /\ at' = [at EXCEPT ![s] = "cleanup"]
    /\ UNCHANGED <<stored, adding, earlier, requests, handing, subscribed, sub,
                   batch, cur, conn, serving, line, handled, since, taken, restarts>>

\* aknowledge_single_message, second statement
Cleanup(s) ==
    /\ at[s] = "cleanup"
    /\ stored' = DropMessages({cur[s]}, owed)
    /\ at' = [at EXCEPT ![s] = "next"]
    /\ cur' = [cur EXCEPT ![s] = None]
    /\ UNCHANGED <<owed, adding, earlier, requests, handing, subscribed, sub,
                   batch, conn, serving, line, handled, since, taken, restarts>>

\* A statement fails: the task returns the error.
StatementFails(s) ==
    /\ at[s] \in {"load", "acknowledge", "cleanup"}
    /\ End(s)
    /\ UNCHANGED <<stored, owed, adding, earlier, requests, handing, subscribed,
                   conn, serving, handled, since, taken, restarts>>

-----------------------------------------------------------------------------
(* handle_connection, the member, and the connection between them *)

Write(s) ==
    /\ line[s] = "queued" /\ serving[s] /\ conn[s] = "open"
    /\ line' = [line EXCEPT ![s] = "sent"]
    /\ UNCHANGED <<storeVars, at, batch, cur, conn, serving, handled, since, taken, restarts>>

\* The member processes a message it has not processed before.
MemberHandles(s) ==
    /\ line[s] = "sent" /\ conn[s] = "open"
    /\ cur[s] \notin handled[Owner[s]]
    /\ handled' = [handled EXCEPT ![Owner[s]] = @ \cup {cur[s]}]
    /\ line' = [line EXCEPT ![s] = "ok"]
    /\ UNCHANGED <<storeVars, at, batch, cur, conn, serving, since, taken, restarts>>

\* The member answers with an error: a replay, or a message it cannot use.
MemberRefuses(s) ==
    /\ line[s] = "sent" /\ conn[s] = "open"
    /\ line' = [line EXCEPT ![s] = "err"]
    /\ UNCHANGED <<storeVars, at, batch, cur, conn, serving, handled, since, taken, restarts>>

\* The connection is lost, or the member stops; an answer on its way is lost.
Disconnect(s) ==
    /\ conn[s] = "open"
    /\ conn' = [conn EXCEPT ![s] = "closed"]
    /\ UNCHANGED <<storeVars, at, batch, cur, serving, line, handled, since, taken, restarts>>

\* handle_connection meets the dead connection when it writes or reads; it
\* returns, and a message that waits for its feedback never gets it.
ServingEnds(s) ==
    /\ serving[s] /\ conn[s] = "closed"
    /\ serving' = [serving EXCEPT ![s] = FALSE]
    /\ IF at[s] = "wait"
       THEN End(s)
       ELSE UNCHANGED <<at, batch, cur, line, sub>>
    /\ UNCHANGED <<stored, owed, adding, earlier, requests, handing, subscribed,
                   conn, handled, since, taken, restarts>>

-----------------------------------------------------------------------------
(* The store, with the history the properties need *)

Add(m) ==
    /\ adding[m] = "new" => MayArrive
    /\ BeginAdd(m) \/ CommitAdd(m) \/ FailAdd(m) \/ Distribute(m)
    /\ UNCHANGED <<streamVars, handled, since, taken, restarts>>

Manage ==
    /\ TakeRequest
    /\ LET q == Head(requests) IN
          \/ /\ q.kind = "subscribe"
             /\ since' = [since EXCEPT ![q.stream] = taken \ @]
             /\ UNCHANGED taken
          \/ /\ q.kind = "distribute"
             /\ taken' = taken \cup {q.msg}
             /\ UNCHANGED since
    /\ UNCHANGED <<streamVars, handled, restarts>>

ManageHandOver(r) ==
    /\ HandOver(r)
    /\ UNCHANGED <<streamVars, handled, since, taken, restarts>>

\* The server is restarted: every task and connection is gone.
Restart ==
    /\ restarts < MaxRestarts
    /\ restarts' = restarts + 1
    /\ StoreRestart
    /\ at' = [s \in Streams |-> IF at[s] = "off" THEN "off" ELSE "ended"]
    /\ batch' = [s \in Streams |-> <<>>]
    /\ cur' = [s \in Streams |-> None]
    /\ conn' = [s \in Streams |-> IF at[s] = "off" THEN "none" ELSE "closed"]
    /\ serving' = [s \in Streams |-> FALSE]
    /\ line' = [s \in Streams |-> "none"]
    /\ UNCHANGED <<handled, since, taken>>

StreamStep(s) ==
    \/ Load(s) \/ Subscribe(s) \/ NextLoaded(s) \/ NextLive(s) \/ Undeliverable(s) \/ Unfed(s)
    \/ Feedback(s) \/ Acknowledge(s) \/ Cleanup(s)

LineStep(s) ==
    \/ Write(s) \/ MemberHandles(s) \/ MemberRefuses(s)
    \/ at[s] = "wait" /\ ServingEnds(s)

ManagerStep == Manage \/ \E r \in Receivers : ManageHandOver(r)

Next ==
    \/ \E m \in Messages : Add(m)
    \/ ManagerStep
    \/ \E s \in Streams :
          \/ Connect(s) \/ StreamStep(s) \/ StatementFails(s)
          \/ LineStep(s) \/ Disconnect(s) \/ ServingEnds(s)
    \/ Restart

Spec == Init /\ [][Next]_vars

(***************************************************************************)
(* Fairness: a task that can run is polled, the database answers, and a    *)
(* member answers what it was sent or its connection is found dead (QUIC's *)
(* idle timeout).  Nothing makes a member connect or a message arrive.     *)
(***************************************************************************)
FairSpec ==
    /\ Spec
    /\ WF_vars(ManagerStep)
    /\ \A m \in Messages : WF_vars(Add(m) /\ adding[m] # "new")
    /\ \A s \in Streams : WF_vars(StreamStep(s)) /\ WF_vars(LineStep(s))

-----------------------------------------------------------------------------
(* Properties *)

\* A message is not lost on its way: whoever it was stored for has processed
\* it, or is still owed it and gets it from the next load_all_for, whatever
\* connections, acknowledgements or server restarts came between.
NothingLost ==
    \A m \in Committed : \A r \in To[m] :
        m \in handled[r] \/ (<<m, r>> \in owed /\ m \in stored)

\* On its way to the stream s: loaded, being delivered, handed over, or still
\* with the manager or with its add_message.
Underway(s, m) ==
    \/ m = cur[s]
    \/ \E i \in DOMAIN batch[s] : batch[s][i] = m
    \/ \E i \in DOMAIN sub[s].queue : sub[s].queue[i] = m
    \/ handing.msg = m /\ Owner[s] \in handing.left
    \/ \E i \in DOMAIN requests : requests[i] = Distribution(m)
    \/ adding[m] = "committed"

\* From the moment the manager holds a stream's subscription, no message
\* passes it by: what the member is owed is under way to it, except for the
\* messages that came after load_all_for and were handed out before the
\* subscription was registered, which wait for the next connection.
NothingPassesBy ==
    \A s \in Streams : \A m \in Messages :
        /\ at[s] \in {"next", "wait", "acknowledge", "cleanup"}
        /\ subscribed[Owner[s]] = s
        /\ <<m, Owner[s]>> \in owed
        => Underway(s, m) \/ m \in since[s]

\* A stored message is handed to the members that are connected: the manager
\* does not wait for ever, not even for a subscription that is full.
DistributionEnds ==
    \A m \in Messages :
        adding[m] = "committed" ~>
            \/ m \in taken /\ handing.msg # m
            \/ restarts > 0
=============================================================================

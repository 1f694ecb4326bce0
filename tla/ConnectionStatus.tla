---------------------------- MODULE ConnectionStatus ----------------------------
(***************************************************************************)
(* Who is connected, from the server's registry of connections to the list *)
(* a client displays.                                                      *)
(*                                                                         *)
(* The RPC server (svalin_rpc/src/rpc/server/mod.rs) serves every          *)
(* connection in a task, keeps the latest connection of every peer, hands  *)
(* out sessions over it (open_session_with, for the forward command), and  *)
(* broadcasts who comes and goes.  For every client that receives messages *)
(* stream_agent_online_status (message_streaming/with_client.rs) lists who *)
(* is there and then forwards the broadcast; the client applies what it    *)
(* gets to its state (message_streaming/client.rs, client/state.rs) and    *)
(* passes it on to the main view (svalin_iced/src/ui/mainview.rs).         *)
(*                                                                         *)
(* connection_data is one mutex.  Every critical section is one step,      *)
(* except that of open_session_with, which awaits a stream of the          *)
(* connection while it holds the mutex: opening is the session whose       *)
(* open_session_with holds it.                                             *)
(*                                                                         *)
(* ClientStateHandle is a task behind a queue that does one request at a   *)
(* time; the model takes a request from it in the step that would queue    *)
(* it.                                                                     *)
(***************************************************************************)
EXTENDS Naturals, Sequences, FiniteSets

CONSTANTS
    Peers,         \* certificates that connect
    Agents,        \* those of type Agent
    Conns,         \* connections that can ever be made (bound)
    PeerOf,        \* [Conns -> Peers]
    Clients,       \* clients that receive messages
    Forwards,      \* forwarded sessions that can ever be opened (bound)
    StreamLimit,   \* streams a connection may have open (QUIC)
    StatusCap,     \* capacity of client_status_broadcast (10)
    OutCap,        \* capacity of a client's message channel (10)
    UpdateCap,     \* capacity of update_broadcast (100)
    MaxArrivals    \* connections, forwards, clients and closings, taken together (bound)

ASSUME StatusAssumption ==
    /\ Agents \subseteq Peers
    /\ PeerOf \in [Conns -> Peers]
    /\ {StreamLimit, StatusCap, OutCap, UpdateCap, MaxArrivals} \subseteq Nat \ {0}
    /\ {"none"} \cap (Conns \cup Forwards) = {}

VARIABLES
    conn,      \* [Conns -> the QUIC connection]
    task,      \* [Conns -> serve_connection_inner]
    onclose,   \* [Conns -> update_connection_data_on_close]
    latest,    \* latest_connections
    newest,    \* [Peers -> history: connection that was registered last]
    opening,   \* forward whose open_session_with holds connection_data
    forward,   \* [Forwards -> open_session_with and the session it returns]
    closing,   \* RpcServer::close
    status,    \* [Clients -> stream_agent_online_status]
    listed,    \* [Clients -> agents of its first list still to be sent]
    recv,      \* [Clients -> its receiver of client_status_broadcast]
    out,       \* [Clients -> channel to handle_connection]
    serving,   \* [Clients -> handle_connection runs and the client reads]
    online,    \* [Clients -> agents_online of its ClientState]
    updates,   \* [Clients -> the main view's receiver of update_broadcast]
    shown      \* [Clients -> agents the main view shows online]

registryVars == <<conn, task, onclose, latest, newest, opening, forward, closing>>
clientVars == <<out, serving, online, updates, shown>>
vars == <<conn, task, onclose, latest, newest, opening, forward, closing,
          status, listed, recv, out, serving, online, updates, shown>>

None == "none"
Events == [peer : Peers, online : BOOLEAN]
\* A receiver of a broadcast: subscribed or not, what it holds, whether it has
\* been overtaken.
NoReceiver == [on |-> FALSE, queue |-> <<>>, lagged |-> FALSE]
Receivers(cap) ==
    [on : BOOLEAN, queue : UNION {[1 .. n -> Events] : n \in 0 .. cap}, lagged : BOOLEAN]

\* The type of every variable; a receiver of a broadcast never holds more than
\* the channel's capacity, and a client's channel no more than its own.
TypeOK ==
    /\ conn \in [Conns -> {"none", "open", "closed"}]
    /\ task \in [Conns -> {"off", "register", "serve", "done"}]
    /\ onclose \in [Conns -> {"off", "waiting", "done"}]
    /\ latest \in [Peers -> Conns \cup {None}]
    /\ newest \in [Peers -> Conns \cup {None}]
    /\ opening \in Forwards \cup {None}
    /\ forward \in [Forwards -> [at : {"off", "opening", "open", "ended", "failed"},
                                 via : Conns \cup {None}]]
    /\ closing \in {"no", "waiting", "closed"}
    /\ status \in [Clients -> {"off", "subscribed", "streaming", "ended"}]
    /\ listed \in [Clients -> SUBSET Agents]
    /\ recv \in [Clients -> Receivers(StatusCap)]
    /\ out \in [Clients -> Seq(Events)]
    /\ \A w \in Clients : Len(out[w]) <= OutCap
    /\ serving \in [Clients -> BOOLEAN]
    /\ online \in [Clients -> SUBSET Agents]
    /\ updates \in [Clients -> Receivers(UpdateCap)]
    /\ shown \in [Clients -> SUBSET Agents]

Init ==
    /\ conn = [c \in Conns |-> "none"]
    /\ task = [c \in Conns |-> "off"]
    /\ onclose = [c \in Conns |-> "off"]
    /\ latest = [p \in Peers |-> None]
    /\ newest = [p \in Peers |-> None]
    /\ opening = None
    /\ forward = [f \in Forwards |-> [at |-> "off", via |-> None]]
    /\ closing = "no"
    /\ status = [w \in Clients |-> "off"]
    /\ listed = [w \in Clients |-> {}]
    /\ recv = [w \in Clients |-> NoReceiver]
    /\ out = [w \in Clients |-> <<>>]
    /\ serving = [w \in Clients |-> FALSE]
    /\ online = [w \in Clients |-> {}]
    /\ updates = [w \in Clients |-> NoReceiver]
    /\ shown = [w \in Clients |-> {}]

-----------------------------------------------------------------------------
(* tokio's broadcast channel, and the effect of status events *)

\* As if the channel had no bound.
BroadcastUnbounded(rs, e, cap) ==
    [w \in Clients |-> IF rs[w].on THEN [rs[w] EXCEPT !.queue = Append(@, e)] ELSE rs[w]]

\* A receiver that is full loses its oldest event, and is told so.
Broadcast(rs, e, cap) ==
    [w \in Clients |->
        IF ~rs[w].on THEN rs[w]
        ELSE IF Len(rs[w].queue) < cap
             THEN [rs[w] EXCEPT !.queue = Append(@, e)]
             ELSE [rs[w] EXCEPT !.queue = Append(Tail(@), e), !.lagged = TRUE]]

\* ClientState::update with one event
Update(S, e) == IF e.online THEN S \cup {e.peer} ELSE S \ {e.peer}

\* What becomes of S by the events of a queue: for every agent the last counts.
Final(S, q) ==
    {a \in Agents :
        LET about == {i \in DOMAIN q : q[i].peer = a} IN
            IF about = {} THEN a \in S
            ELSE \E i \in about : q[i].online /\ \A j \in about : j <= i}

-----------------------------------------------------------------------------
(* Connections of peers *)

Free == opening = None

\* Bound: what has come to the server so far.
MayArrive ==
    MaxArrivals > Cardinality({c \in Conns : conn[c] # "none"})
                + Cardinality({f \in Forwards : forward[f].at # "off"})
                + Cardinality({w \in Clients : status[w] # "off"})
                + (IF closing = "no" THEN 0 ELSE 1)

\* A peer connects; the server's loop starts a task for the connection.
Arrive(c) ==
    /\ MayArrive /\ conn[c] = "none" /\ closing = "no"
    /\ conn' = [conn EXCEPT ![c] = "open"]
    /\ task' = [task EXCEPT ![c] = "register"]
    /\ UNCHANGED <<onclose, latest, newest, opening, forward, closing, status, listed, recv,
                   clientVars>>

\* It notes the connection down, tells the clients and starts the task that
\* waits for its end.
Register(c) ==
    /\ task[c] = "register" /\ Free
    /\ latest' = [latest EXCEPT ![PeerOf[c]] = c]
    /\ newest' = [newest EXCEPT ![PeerOf[c]] = c]
    /\ recv' = Broadcast(recv, [peer |-> PeerOf[c], online |-> TRUE], StatusCap)
    /\ onclose' = [onclose EXCEPT ![c] = "waiting"]
    /\ task' = [task EXCEPT ![c] = "serve"]
    /\ UNCHANGED <<conn, opening, forward, closing, status, listed, clientVars>>

\* The peer leaves, or is lost.
Disconnect(c) ==
    /\ conn[c] = "open"
    /\ conn' = [conn EXCEPT ![c] = "closed"]
    /\ UNCHANGED <<task, onclose, latest, newest, opening, forward, closing, status, listed,
                   recv, clientVars>>

\* As if the connection that ends were not compared with the latest one.
OnCloseOfAny(c) ==
    /\ onclose[c] = "waiting" /\ conn[c] = "closed" /\ Free
    /\ onclose' = [onclose EXCEPT ![c] = "done"]
    /\ latest' = [latest EXCEPT ![PeerOf[c]] = None]
    /\ recv' = Broadcast(recv, [peer |-> PeerOf[c], online |-> FALSE], StatusCap)
    /\ UNCHANGED <<conn, task, newest, opening, forward, closing, status, listed, clientVars>>

\* A connection that is still the latest one of its peer is removed, and the
\* clients are told.
OnClose(c) ==
    /\ onclose[c] = "waiting" /\ conn[c] = "closed" /\ Free
    /\ onclose' = [onclose EXCEPT ![c] = "done"]
    /\ \/ /\ latest[PeerOf[c]] = c
          /\ latest' = [latest EXCEPT ![PeerOf[c]] = None]
          /\ recv' = Broadcast(recv, [peer |-> PeerOf[c], online |-> FALSE], StatusCap)
       \/ /\ latest[PeerOf[c]] # c
          /\ UNCHANGED <<latest, recv>>
    /\ UNCHANGED <<conn, task, newest, opening, forward, closing, status, listed, clientVars>>

\* accept_raw_session fails, and so do the sessions the peer had opened.
ServeEnds(c) ==
    /\ task[c] = "serve" /\ conn[c] = "closed"
    /\ task' = [task EXCEPT ![c] = "done"]
    /\ UNCHANGED <<conn, onclose, latest, newest, opening, forward, closing, status, listed,
                   recv, clientVars>>

\* The loop is cancelled and the peer has no session open.  It may have one for
\* ever: the handlers that stream messages do not look at their token.
ServeCancelled(c) ==
    /\ task[c] = "serve" /\ closing # "no"
    /\ task' = [task EXCEPT ![c] = "done"]
    /\ UNCHANGED <<conn, onclose, latest, newest, opening, forward, closing, status, listed,
                   recv, clientVars>>

-----------------------------------------------------------------------------
(* open_session_with and the sessions it opens *)

forwardFrame == <<conn, task, onclose, latest, newest, closing, status, listed, recv, clientVars>>

Streams(c) == Cardinality({f \in Forwards : forward[f].at = "open" /\ forward[f].via = c})

\* The forward command looks the target up.
Forward(f, p) ==
    /\ MayArrive /\ forward[f].at = "off" /\ Free
    /\ \/ /\ latest[p] = None
          /\ forward' = [forward EXCEPT ![f].at = "failed"]
          /\ UNCHANGED opening
       \/ /\ latest[p] # None
          /\ forward' = [forward EXCEPT ![f] = [at |-> "opening", via |-> latest[p]]]
          /\ opening' = f
    /\ UNCHANGED forwardFrame

\* The connection has a stream to spare.
Opened(f) ==
    /\ opening = f /\ conn[forward[f].via] = "open"
    /\ Streams(forward[f].via) < StreamLimit
    /\ forward' = [forward EXCEPT ![f].at = "open"]
    /\ opening' = None
    /\ UNCHANGED forwardFrame

\* As if the mutex were not released on the way out.
OpenFailsLocked(f) ==
    /\ opening = f /\ conn[forward[f].via] = "closed"
    /\ forward[f].at # "failed"
    /\ forward' = [forward EXCEPT ![f].at = "failed"]
    /\ UNCHANGED <<opening, forwardFrame>>

\* The connection has ended.
OpenFails(f) ==
    /\ opening = f /\ conn[forward[f].via] = "closed"
    /\ forward' = [forward EXCEPT ![f].at = "failed"]
    /\ opening' = None
    /\ UNCHANGED forwardFrame

\* The forwarded session ends, on either side.
SessionEnds(f) ==
    /\ forward[f].at = "open"
    /\ forward' = [forward EXCEPT ![f].at = "ended"]
    /\ UNCHANGED <<opening, forwardFrame>>

-----------------------------------------------------------------------------
(* RpcServer::close *)

\* Every task the server tracks has ended.
TasksDone ==
    \A c \in Conns : task[c] \in {"off", "done"} /\ onclose[c] \in {"off", "done"}

CloseBegins ==
    /\ MayArrive /\ closing = "no"
    /\ closing' = "waiting"
    /\ UNCHANGED <<conn, task, onclose, latest, newest, opening, forward, status, listed, recv,
                   clientVars>>

\* As if the server waited for its tasks without a time limit.
EndpointClosesAfter ==
    /\ closing = "waiting" /\ TasksDone
    /\ closing' = "closed"
    /\ UNCHANGED <<conn, task, onclose, latest, newest, opening, forward, status, listed, recv,
                   clientVars>>

\* The tasks have ended or the time is up: the endpoint closes, and with it
\* every connection.
EndpointCloses ==
    /\ closing = "waiting"
    /\ closing' = "closed"
    /\ conn' = [c \in Conns |-> IF conn[c] = "open" THEN "closed" ELSE conn[c]]
    /\ serving' = [w \in Clients |-> FALSE]
    /\ out' = [w \in Clients |-> <<>>]
    /\ UNCHANGED <<task, onclose, latest, newest, opening, forward, status, listed, recv,
                   online, updates, shown>>

-----------------------------------------------------------------------------
(* stream_agent_online_status *)

\* A client opens its receiving session; the task subscribes.
Watch(w) ==
    /\ MayArrive /\ status[w] = "off" /\ closing = "no"
    /\ status' = [status EXCEPT ![w] = "subscribed"]
    /\ recv' = [recv EXCEPT ![w] = [NoReceiver EXCEPT !.on = TRUE]]
    /\ serving' = [serving EXCEPT ![w] = TRUE]
    /\ UNCHANGED <<registryVars, listed, out, online, updates, shown>>

Registered == {a \in Agents : latest[a] # None}

\* get_current_connected_clients
List(w) ==
    /\ status[w] = "subscribed" /\ Free
    /\ status' = [status EXCEPT ![w] = "streaming"]
    /\ listed' = [listed EXCEPT ![w] = Registered]
    /\ UNCHANGED <<registryVars, recv, clientVars>>

\* sender.send: the task waits while the channel is full; once handle_connection
\* is gone the event is dropped and the task goes on.
Send(w, e) ==
    /\ serving[w] => Len(out[w]) < OutCap
    /\ out' = IF serving[w] THEN [out EXCEPT ![w] = Append(@, e)] ELSE out

SendListed(w) ==
    /\ status[w] = "streaming"
    /\ \E a \in listed[w] :
          /\ Send(w, [peer |-> a, online |-> TRUE])
          /\ listed' = [listed EXCEPT ![w] = @ \ {a}]
    /\ UNCHANGED <<registryVars, status, recv, serving, online, updates, shown>>

\* As if an event that finds the channel full were dropped.
ForwardStatusOrDrop(w) ==
    /\ status[w] = "streaming" /\ listed[w] = {} /\ ~recv[w].lagged
    /\ recv[w].queue # <<>>
    /\ LET e == Head(recv[w].queue) IN
          out' = IF e.peer \in Agents /\ serving[w] /\ Len(out[w]) < OutCap
                 THEN [out EXCEPT ![w] = Append(@, e)] ELSE out
    /\ recv' = [recv EXCEPT ![w].queue = Tail(@)]
    /\ UNCHANGED <<registryVars, status, listed, serving, online, updates, shown>>

\* The next event of the broadcast; those of users are skipped.
ForwardStatus(w) ==
    /\ status[w] = "streaming" /\ listed[w] = {} /\ ~recv[w].lagged
    /\ recv[w].queue # <<>>
    /\ LET e == Head(recv[w].queue) IN
          \/ e.peer \in Agents /\ Send(w, e)
          \/ e.peer \notin Agents /\ UNCHANGED out
    /\ recv' = [recv EXCEPT ![w].queue = Tail(@)]
    /\ UNCHANGED <<registryVars, status, listed, serving, online, updates, shown>>

\* A receiver that was overtaken gets an error, and the task ends.
Overtaken(w) ==
    /\ status[w] = "streaming" /\ listed[w] = {} /\ recv[w].lagged
    /\ status' = [status EXCEPT ![w] = "ended"]
    /\ recv' = [recv EXCEPT ![w] = NoReceiver]
    /\ UNCHANGED <<registryVars, listed, clientVars>>

-----------------------------------------------------------------------------
(* The client *)

\* handle_connection writes an event, the client's receiver passes it to the
\* ClientStateHandle, which broadcasts it and updates its state.
Handle(w) ==
    /\ serving[w] /\ out[w] # <<>>
    /\ out' = [out EXCEPT ![w] = Tail(@)]
    /\ updates' = [updates EXCEPT ![w] = Broadcast(updates, Head(out[w]), UpdateCap)[w]]
    /\ online' = [online EXCEPT ![w] = Update(@, Head(out[w]))]
    /\ UNCHANGED <<registryVars, status, listed, recv, serving, shown>>

\* The main view subscribes: it gets the state and, from there on, the updates.
Subscribe(w) ==
    /\ ~updates[w].on /\ ~updates[w].lagged
    /\ updates' = [updates EXCEPT ![w].on = TRUE]
    /\ shown' = [shown EXCEPT ![w] = online[w]]
    /\ UNCHANGED <<registryVars, status, listed, recv, out, serving, online>>

UpdateView(w) ==
    /\ updates[w].on /\ ~updates[w].lagged /\ updates[w].queue # <<>>
    /\ shown' = [shown EXCEPT ![w] = Update(@, Head(updates[w].queue))]
    /\ updates' = [updates EXCEPT ![w].queue = Tail(@)]
    /\ UNCHANGED <<registryVars, status, listed, recv, out, serving, online>>

\* Its stream of updates ends with an error and is not started again.
ViewOvertaken(w) ==
    /\ updates[w].on /\ updates[w].lagged
    /\ updates' = [updates EXCEPT ![w] = [NoReceiver EXCEPT !.lagged = TRUE]]
    /\ UNCHANGED <<registryVars, status, listed, recv, out, serving, online, shown>>

\* The client's connection is lost.
Lost(w) ==
    /\ serving[w]
    /\ serving' = [serving EXCEPT ![w] = FALSE]
    /\ out' = [out EXCEPT ![w] = <<>>]
    /\ UNCHANGED <<registryVars, status, listed, recv, online, updates, shown>>

-----------------------------------------------------------------------------
ConnStep(c) == Register(c) \/ OnClose(c) \/ ServeEnds(c)
ForwardStep(f) == Opened(f) \/ OpenFails(f) \/ SessionEnds(f)
StatusStep(w) == List(w) \/ SendListed(w) \/ ForwardStatus(w) \/ Overtaken(w)
ClientStep(w) == Handle(w) \/ UpdateView(w) \/ ViewOvertaken(w)

Next ==
    \/ \E c \in Conns : Arrive(c) \/ Disconnect(c) \/ ServeCancelled(c) \/ ConnStep(c)
    \/ \E f \in Forwards : (\E p \in Peers : Forward(f, p)) \/ ForwardStep(f)
    \/ CloseBegins \/ EndpointCloses
    \/ \E w \in Clients : Watch(w) \/ Subscribe(w) \/ Lost(w) \/ StatusStep(w) \/ ClientStep(w)

Spec == Init /\ [][Next]_vars

(***************************************************************************)
(* Fairness: tokio polls every task that can run, the client reads what it *)
(* is sent, a forwarded session ends some day, and the timeout of close    *)
(* elapses.  Nothing makes a peer connect or leave.  opening passes from   *)
(* one forward to the next only by the steps of forwards, which are        *)
(* bounded, so weak fairness is enough for those that wait for the mutex.  *)
(***************************************************************************)
FairSpec ==
    /\ Spec
    /\ \A c \in Conns : WF_vars(ConnStep(c))
    /\ \A f \in Forwards : WF_vars(ForwardStep(f))
    /\ WF_vars(EndpointCloses)
    /\ \A w \in Clients : WF_vars(StatusStep(w)) /\ WF_vars(ClientStep(w))

-----------------------------------------------------------------------------
(* Properties *)

\* The end of a connection never takes away a later one of the same peer: as
\* long as the connection that was registered last is open, it is the one
\* that sessions are opened over.
LatestIsNewest ==
    \A p \in Peers : newest[p] # None /\ conn[newest[p]] = "open" => latest[p] = newest[p]

\* The main view follows the registry: what it shows, changed by all that is
\* still on its way to it through four queues, is what the server holds,
\* unless one of the two receivers was overtaken or the client is gone.
DisplayAgrees ==
    \A w \in Clients :
        /\ status[w] = "streaming" /\ ~recv[w].lagged /\ serving[w]
        /\ updates[w].on /\ ~updates[w].lagged
        => Final(Final(shown[w], updates[w].queue \o out[w]) \cup listed[w], recv[w].queue)
               = Registered

\* Whatever the connections did, in the end the main view shows who is there
\* (with the same exceptions): nobody waits for ever, though everybody waits
\* for the mutex that open_session_with holds while it waits for a peer.
DisplaySettles ==
    \A w \in Clients :
        <>[](\/ status[w] \in {"off", "ended"} \/ ~serving[w]
             \/ ~updates[w].on
             \/ shown[w] = Registered)

\* close closes the endpoint and ends every task of the server, also those
\* that wait for the end of a connection whose peer stays.
CloseEnds == closing = "waiting" ~> closing = "closed" /\ TasksDone
=============================================================================

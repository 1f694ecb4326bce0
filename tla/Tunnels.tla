-------------------------------- MODULE Tunnels --------------------------------
(***************************************************************************)
(* The client's tunnels (client/tunnel_manager.rs, tunnel_manager/tcp.rs,  *)
(* tcp/dispatcher.rs).  A tunnel is a task that accepts connections on a   *)
(* local port, one task per accepted connection (a stream), a task that    *)
(* waits for the first one's result, and an entry in the manager's list.   *)
(* They are held together by the watch channel of the tunnel: its sender   *)
(* is in the list's entry, and the other tasks have receivers.             *)
(*                                                                         *)
(* A receiver is reduced to whether a value was sent since it last looked. *)
(* Left out: the bytes copied; the session to the agent (see Sessions),    *)
(* which may answer late or fail at any time.                              *)
(***************************************************************************)
EXTENDS Integers, FiniteSets

CONSTANTS
    TunnelIds,      \* tunnels that are ever opened
    LocalPort,      \* [TunnelIds -> port]
    Streams         \* connections that are ever made to a local port

VARIABLES
    manager,    \* the client, and with it the TunnelManager, is there
    listed,     \* active_tunnels
    active,     \* [TunnelIds -> value of the tunnel's watch channel]
    listener,   \* [TunnelIds -> the accepting task: "off", "run" or "ended"]
    unseen,     \* [TunnelIds -> a value was sent since the accepting task looked]
    waiter,     \* tunnels whose result is still waited for
    stream      \* [Streams -> its tunnel, where it is, its receiver's unseen]

vars == <<manager, listed, active, listener, unseen, waiter, stream>>

NoStream == [tunnel |-> "none", at |-> "none", unseen |-> FALSE]

TypeOK ==
    /\ manager \in BOOLEAN
    /\ listed \subseteq TunnelIds /\ waiter \subseteq listed
    /\ active \in [TunnelIds -> BOOLEAN] /\ unseen \in [TunnelIds -> BOOLEAN]
    /\ listener \in [TunnelIds -> {"off", "run", "ended"}]
    /\ \A x \in Streams : \/ stream[x] = NoStream
                          \/ /\ stream[x].tunnel \in TunnelIds
                             /\ stream[x].at \in {"opening", "copy", "ended", "panicked"}
    \* A port is bound once.
    /\ \A t, u \in TunnelIds : t # u /\ LocalPort[t] = LocalPort[u]
                               => ~(listener[t] = "run" /\ listener[u] = "run")

Init ==
    /\ manager = TRUE /\ listed = {} /\ waiter = {}
    /\ active = [t \in TunnelIds |-> TRUE]
    /\ unseen = [t \in TunnelIds |-> FALSE]
    /\ listener = [t \in TunnelIds |-> "off"]
    /\ stream = [x \in Streams |-> NoStream]

-----------------------------------------------------------------------------
StreamsOf(t) == {x \in Streams : stream[x].tunnel = t /\ stream[x].at \in {"opening", "copy"}}

\* watch::Sender::send: without a receiver the value stays what it was.
Send(tunnels, value) ==
    LET reached == {t \in tunnels : listener[t] = "run" \/ StreamsOf(t) # {}}
    IN /\ active' = [t \in TunnelIds |-> IF t \in reached THEN value ELSE active[t]]
       /\ unseen' = [t \in TunnelIds |-> unseen[t] \/ t \in reached]
       /\ stream' = [x \in Streams |->
                       [stream[x] EXCEPT !.unseen = @ \/ stream[x].tunnel \in reached]]

OpenAnyPort(t) ==
    /\ manager /\ listener[t] = "off"
    /\ listener' = [listener EXCEPT ![t] = "run"]
    /\ listed' = listed \cup {t} /\ waiter' = waiter \cup {t}
    /\ UNCHANGED <<manager, active, unseen, stream>>

\* TunnelManager::open; a port that is in use is a BindError.
Open(t) ==
    /\ manager /\ listener[t] = "off"
    /\ \A u \in TunnelIds : LocalPort[u] = LocalPort[t] => listener[u] # "run"
    /\ listener' = [listener EXCEPT ![t] = "run"]
    /\ listed' = listed \cup {t} /\ waiter' = waiter \cup {t}
    /\ UNCHANGED <<manager, active, unseen, stream>>

CloseToggles(t) ==
    /\ t \in listed
    /\ Send({t}, ~active[t])
    /\ UNCHANGED <<manager, listed, listener, waiter>>

\* close_tunnel: the entry stays until the tunnel's task has ended.
CloseTunnel(t) ==
    /\ t \in listed
    /\ Send({t}, FALSE)
    /\ UNCHANGED <<manager, listed, listener, waiter>>

\* The client is dropped: the waiting tasks are aborted, and every entry of the
\* list is dropped and says so.
DropManager ==
    /\ manager
    /\ manager' = FALSE /\ listed' = {} /\ waiter' = {}
    /\ Send(listed, FALSE)
    /\ UNCHANGED listener

-----------------------------------------------------------------------------
(* TcpTunnelConfig::run, the accepting task.                               *)

\* A connection is accepted; after a close it is dropped and the task ends.
\* The stream's receiver is a clone of the task's.
Accept(t, x) ==
    /\ listener[t] = "run" /\ stream[x] = NoStream
    /\ IF active[t]
         THEN /\ stream' = [stream EXCEPT ![x] = [tunnel |-> t, at |-> "opening",
                                                  unseen |-> unseen[t]]]
              /\ UNCHANGED listener
         ELSE listener' = [listener EXCEPT ![t] = "ended"] /\ UNCHANGED stream
    /\ UNCHANGED <<manager, listed, active, unseen, waiter>>

\* accept fails: the task ends, with or without telling the error.
AcceptFails(t) ==
    /\ listener[t] = "run"
    /\ listener' = [listener EXCEPT ![t] = "ended"]
    /\ UNCHANGED <<manager, listed, active, unseen, waiter, stream>>

ActiveChanged(t) ==
    /\ listener[t] = "run" /\ unseen[t]
    /\ unseen' = [unseen EXCEPT ![t] = FALSE]
    /\ listener' = [listener EXCEPT ![t] = IF active[t] THEN "run" ELSE "ended"]
    /\ UNCHANGED <<manager, listed, active, waiter, stream>>

RemoveSilently(t) ==
    /\ t \in waiter /\ listener[t] = "ended"
    /\ waiter' = waiter \ {t} /\ listed' = listed \ {t}
    /\ UNCHANGED <<manager, active, unseen, listener, stream>>

\* await_result is answered once the task has ended: the entry is removed, and
\* dropping it says so to the streams that still run.
RemoveTunnel(t) ==
    /\ t \in waiter /\ listener[t] = "ended"
    /\ waiter' = waiter \ {t} /\ listed' = listed \ {t}
    /\ Send({t}, FALSE)
    /\ UNCHANGED <<manager, listener>>

-----------------------------------------------------------------------------
(* TcpForwardDispatcher::dispatch, one per stream.                         *)

\* The agent is connected to its end; until then the channel is not looked at.
AnswerOk(x) ==
    /\ stream[x].at = "opening"
    /\ stream' = [stream EXCEPT ![x].at = "copy"]
    /\ UNCHANGED <<manager, listed, active, listener, unseen, waiter>>

\* An error in answer or session, or both ends of the copy are closed.
StreamEnds(x) ==
    /\ stream[x].at \in {"opening", "copy"}
    /\ stream' = [stream EXCEPT ![x].at = "ended"]
    /\ UNCHANGED <<manager, listed, active, listener, unseen, waiter>>

\* A change to true is a todo!().
StreamChanged(x) ==
    /\ stream[x].at = "copy" /\ stream[x].unseen
    /\ stream' = [stream EXCEPT ![x].at = IF active[stream[x].tunnel] THEN "panicked" ELSE "ended"]
    /\ UNCHANGED <<manager, listed, active, listener, unseen, waiter>>

-----------------------------------------------------------------------------
Next ==
    \/ \E t \in TunnelIds :
          \/ Open(t) \/ CloseTunnel(t) \/ AcceptFails(t) \/ ActiveChanged(t) \/ RemoveTunnel(t)
          \/ \E x \in Streams : Accept(t, x)
    \/ \E x \in Streams : AnswerOk(x) \/ StreamEnds(x) \/ StreamChanged(x)
    \/ DropManager

\* The session that is being opened comes to an answer.
Opened(x) == stream[x].at = "opening" /\ (AnswerOk(x) \/ StreamEnds(x))

\* The tasks run on, and a session that is being opened is answered or fails:
\* the agent's connect has a time limit of its system.  Nobody has to close a
\* tunnel, and a copy may go on for ever.
Fairness ==
    /\ \A t \in TunnelIds : WF_vars(ActiveChanged(t)) /\ WF_vars(RemoveTunnel(t))
    /\ \A x \in Streams : /\ WF_vars(Opened(x))
                          /\ WF_vars(StreamChanged(x))

Spec == Init /\ [][Next]_vars /\ Fairness

-----------------------------------------------------------------------------
\* What runs can be closed: a port that is still open or a stream that is still
\* copied belongs to a tunnel the user sees in the list, or has been told to end.
NoOrphans ==
    \A t \in TunnelIds :
        (listener[t] = "run" \/ StreamsOf(t) # {}) => t \in listed \/ ~active[t]

\* The todo!() of the dispatcher is never reached: no stream sees a change of a
\* tunnel that is still active.
NeverPanics == \A x \in Streams : stream[x].at # "panicked"

\* A port or stream that is still open can be closed or was told to end, and the
\* todo!() of the dispatcher is never reached.
TunnelsAreKnown == NoOrphans /\ NeverPanics

\* A tunnel that is told to end, by the user, by an error of its port or because
\* the client goes, frees its port, leaves the list and ends all its streams,
\* also those whose session is only being opened.
TunnelsEnd ==
    \A t \in TunnelIds :
        /\ ~active[t] ~> listener[t] = "ended"
        /\ listener[t] = "ended" ~> t \notin listed /\ StreamsOf(t) = {}
================================================================================

------------------------------- MODULE Processes -------------------------------
(***************************************************************************)
(* The exchanges that must come to an end, each with its own instance: the *)
(* initialisation of a server (ServerSetup), RPC sessions and logins       *)
(* (Sessions), tunnels (Tunnels), a remote terminal (Terminal) and one     *)
(* client that adds agents (TrustSync).  They share no variable: which of  *)
(* them a behaviour is about is chosen in its initial state, and the       *)
(* others stay in a state in which no fair step is enabled.                *)
(***************************************************************************)
EXTENDS ServerSetup

CONSTANTS
    MaxLogins,                                          \* of Sessions
    TunnelIds, LocalPort, Streams,                      \* of Tunnels
    LengthBytes, Sizes, PipeCap, MaxInputs, MaxOutputs, \* of Terminal
    Server, TrustClients, Agents, BroadcastCap, MaxRestarts     \* of TrustSync

VARIABLES
    part,       \* what this behaviour is about
    \* Sessions
    rpc, todo, side, toRead, broken, logins, proven, stored, profile, profileDir, sessionFaults,
    \* Tunnels
    manager, listed, active, listener, unseen, waiter, stream,
    \* Terminal
    window, shellTask, writing, pipe, got, torn, misread, sent, received, cancelled, shell,
    \* TrustSync
    chain, panicked, db, curSeq, adding, reply, receiver, wire, status, file, rows, cur,
    session, pend, add, nodeStops, restarts

Rpc == INSTANCE Sessions WITH session <- rpc, status <- side

Tunnel == INSTANCE Tunnels

Pty == INSTANCE Terminal WITH client <- window, agent <- shellTask

Trust == INSTANCE TrustSync
    WITH Clients <- TrustClients, Started <- TrustClients, handler <- adding, stops <- nodeStops

ASSUME SessionsAssumption == MaxLogins \in Nat \ {0}

ASSUME TerminalAssumption == Pty!LengthsFit

ASSUME TunnelsAssumption == "none" \notin TunnelIds

ASSUME TrustAssumption ==
    /\ Server \notin TrustClients \cup Agents /\ TrustClients \cap Agents = {}
    /\ BroadcastCap \in Nat \ {0} /\ MaxRestarts \in Nat

rpcVars == <<rpc, todo, side, toRead, broken, logins, proven, stored, profile, profileDir,
             sessionFaults>>
tunnelVars == <<manager, listed, active, listener, unseen, waiter, stream>>
ptyVars == <<window, shellTask, writing, pipe, got, torn, misread, sent, received, cancelled,
             shell>>
trustVars == <<chain, panicked, db, curSeq, adding, reply, receiver, wire, status, file, rows,
               cur, session, pend, add, nodeStops, restarts>>

processesVars == <<part, vars, rpcVars, tunnelVars, ptyVars, trustVars>>

\* A terminal that was closed.
PtyOff ==
    /\ window = "ended" /\ shellTask = "ended" /\ shell = "alive"
    /\ LET Nothing == [s \in Pty!Sides |-> <<>>]
           No == [s \in Pty!Sides |-> FALSE]
       IN /\ writing = Nothing /\ sent = Nothing /\ received = Nothing
          /\ pipe = Nothing /\ got = Nothing
          /\ torn = No /\ misread = No /\ cancelled = No

ProcessesInit ==
    /\ part \in {"setup", "sessions", "tunnels", "terminal", "trust"}
    /\ Init /\ Rpc!Init /\ Tunnel!Init /\ Trust!Init
    /\ IF part = "terminal" THEN Pty!Init ELSE PtyOff

ProcessesNext ==
    /\ UNCHANGED part
    /\ \/ /\ part = "setup" /\ Next
          /\ UNCHANGED <<rpcVars, tunnelVars, ptyVars, trustVars>>
       \/ /\ part = "sessions" /\ Rpc!Next
          /\ UNCHANGED <<vars, tunnelVars, ptyVars, trustVars>>
       \/ /\ part = "tunnels" /\ Tunnel!Next
          /\ UNCHANGED <<vars, rpcVars, ptyVars, trustVars>>
       \/ /\ part = "terminal" /\ Pty!Next
          /\ UNCHANGED <<vars, rpcVars, tunnelVars, trustVars>>
       \/ /\ part = "trust" /\ Trust!Next
          /\ UNCHANGED <<vars, rpcVars, tunnelVars, ptyVars>>

\* The Fairness of each module, for the behaviours that are about it.  (In the
\* others no such step is enabled; saying so spares TLC from finding it out.)
SetupFairness ==
    /\ WF_vars(part = "setup" /\ ServerStep)
    /\ \A c \in Clients : /\ WF_vars(part = "setup" /\ HandlerStep(c))
                          /\ WF_vars(part = "setup" /\ ClientStep(c))
                          /\ SF_vars(part = "setup" /\ LockChannel(c))

SessionsFairness ==
    /\ WF_rpcVars(part = "sessions" /\ Rpc!LoginStep)
    /\ \A x \in Rpc!Sides : WF_rpcVars(part = "sessions" /\ Rpc!SideStep(x))

TunnelsFairness ==
    /\ \A t \in TunnelIds : /\ WF_tunnelVars(part = "tunnels" /\ Tunnel!ActiveChanged(t))
                            /\ WF_tunnelVars(part = "tunnels" /\ Tunnel!RemoveTunnel(t))
    /\ \A x \in Streams : /\ WF_tunnelVars(part = "tunnels" /\ Tunnel!Opened(x))
                          /\ WF_tunnelVars(part = "tunnels" /\ Tunnel!StreamChanged(x))

TerminalFairness ==
    \A s \in Pty!Sides : /\ WF_ptyVars(part = "terminal" /\ Pty!Step(s))
                         /\ WF_ptyVars(part = "terminal" /\ Pty!SeeCancelled(s))

TrustFairness ==
    /\ \A c \in TrustClients : /\ WF_trustVars(part = "trust" /\ Trust!ServerStep(c))
                               /\ WF_trustVars(part = "trust" /\ Trust!AddStep(c))
    /\ \A n \in Trust!Nodes : /\ WF_trustVars(part = "trust" /\ Trust!FeedStep(n))
                              /\ WF_trustVars(part = "trust" /\ Trust!FollowStep(n))

ProcessesSpec ==
    /\ ProcessesInit
    /\ [][ProcessesNext]_processesVars
    /\ SetupFairness /\ SessionsFairness /\ TunnelsFairness /\ TerminalFairness /\ TrustFairness

-----------------------------------------------------------------------------
\* Types of all five parts, with one listener per port and the capacity of streams.
ProcessesTypeOK ==
    /\ TypeOK
    /\ part = "sessions" => Rpc!TypeOK
    /\ part = "tunnels" => Tunnel!TypeOK
    /\ part = "terminal" => Pty!TypeOK
    /\ part = "trust" => Trust!TypeOK

\* The two sides of every session fit: they name the same objects in the same order,
\* nothing the program asks for is declined, and the profile a login leaves on disk is
\* of a session the server knows.
SessionsFit ==
    part = "sessions" => Rpc!ReadsMatch /\ Rpc!UsesAreServed /\ Rpc!ProfileIsUsable

\* A session enters the server's table only after password and TOTP.
SessionsAreProven == Rpc!SessionsAreProven

\* A port or stream that is still open can be closed or was told to end, and the
\* todo!() of the tunnel's dispatcher is never reached.
TunnelsAreKnown == part = "tunnels" => Tunnel!TunnelsAreKnown

\* A terminal reads what the other side wrote unless select! tore a read.
ReadsWhatWasWritten == part = "terminal" => Pty!ReadsWhatWasWritten

\* Nobody waits for ever: an initialisation ends, and who was told Ok finds the server
\* ready; no two sides of a session wait for each other; a tunnel that is told to end
\* frees its port and streams; the loops of a terminal end together and when cancelled,
\* unless both wait for room to write; an agent is added or the add fails; and a node
\* that starts gets ready or gives up.
EverythingEnds ==
    /\ ToldBecomesReady /\ InitEnds
    /\ Rpc!SessionsEnd
    /\ Tunnel!TunnelsEnd
    /\ Pty!BothEnd /\ Pty!CancelEnds
    /\ Trust!AddEnds /\ Trust!StartEnds
================================================================================

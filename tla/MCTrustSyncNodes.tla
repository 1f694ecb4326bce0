---------------------------- MODULE MCTrustSyncNodes ----------------------------
(***************************************************************************)
(* TrustSync with either two clients that run, or one client and one agent *)
(* of which one node stops once: the nodes in idle are never started.      *)
(***************************************************************************)
EXTENDS TrustSync

VARIABLE idle

\* Client sessions are interchangeable, and so are agents.
Symmetry == Permutations(Clients) \cup Permutations(Agents)

NodesInit ==
    /\ Init
    /\ idle \in {Agents} \cup {{c, a} : c \in Clients, a \in Agents}

NodesNext ==
    /\ Next
    /\ \A n \in idle : status'[n] \notin {"syncing", "ready", "offline"}
    /\ idle = Agents => stops' = 0
    /\ UNCHANGED idle

NodesSpec == NodesInit /\ [][NodesNext]_<<vars, idle>>
=================================================================================

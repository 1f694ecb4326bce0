---------------------------- MODULE MCTrustSync ----------------------------
(* Instances of TrustSync for TLC. *)
EXTENDS TrustSync

\* Client sessions are interchangeable, and so are agents.
Symmetry == Permutations(Clients) \cup Permutations(Agents)

\* A bound: a stop of a node or a restart of the server.
OneFault == stops + restarts <= 1

=============================================================================

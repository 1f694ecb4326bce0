------------------------------ MODULE TrustLog ------------------------------
(***************************************************************************)
(* What trust-store replication promises: there is one append-only history *)
(* of added certificates, and every node durably knows a prefix of it that *)
(* only ever grows, whatever connections break and whoever is restarted.   *)
(* TrustSync implements this specification.                                *)
(***************************************************************************)
EXTENDS SecureChain

CONSTANTS
    Node,  \* the clients and agents
    Cert   \* the certificates that a block may add

VARIABLES
    log,     \* the history the server's table holds
    durable  \* [Node -> history a node would load if it were started now]

\* The chain of the initialisation; a node that never joined knows nothing.
Init ==
    /\ \E server \in Cert : log = <<server>>
    /\ durable \in [Node -> {NoBlock, log}]

\* The log is extended by a certificate that is not in it.
Extend ==
    /\ \E cert \in Cert \ ResultingState(log) : log' = Append(log, cert)
    /\ UNCHANGED durable

\* A node learns more of the log.
Learn(n) ==
    /\ \E k \in Len(durable[n]) + 1 .. Len(log) :
          durable' = [durable EXCEPT ![n] = SubSeq(log, 1, k)]
    /\ IsPrefix(durable[n], log)
    /\ UNCHANGED log

Next == Extend \/ \E n \in Node : Learn(n)

Spec == Init /\ [][Next]_<<log, durable>>

=============================================================================

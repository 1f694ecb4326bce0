----------------------------- MODULE Certificates -----------------------------
(***************************************************************************)
(* Certificates and the clocks they are judged by.  A client makes session *)
(* and agent certificates with the root user's key and its own clock; the  *)
(* server and the other nodes judge them by theirs: the server when it     *)
(* stores a session (login.rs) or a block of the trust store               *)
(* (secure_chain.rs, trust_store.rs), the nodes when they follow the trust *)
(* store, and everyone through a TrustStoreVerifier or by verifying a      *)
(* chain the server put together (chain_loader.rs, certificate_chain.rs).  *)
(*                                                                         *)
(* A certificate is the record of what from_der reads.  The signature is   *)
(* its issuer field: it verifies with the key of exactly that issuer.  All *)
(* certificates are issued by the root user: no code issues one for a      *)
(* second user.  Clocks count seconds, never run backwards and are at most *)
(* MaxSkew apart.  How blocks travel and what is lost on the way is        *)
(* TrustSync's matter: here a node's copy is a prefix of the server's.     *)
(***************************************************************************)
EXTENDS Integers, Sequences

CONSTANTS
    Nodes,              \* clients; the one that initialised the server among them
    SpkiHashes,         \* keys that certificates can be made for
    ValidityDuration,   \* [certificate types -> seconds]
    MaxParents,         \* bound: certificates above the leaf of a chain
    MaxTime,            \* bound of the clocks
    MaxSkew             \* seconds that two clocks can be apart

\* Sessions run out before agents, and agents before the root user.
DurationsOrdered ==
    /\ ValidityDuration \in [{"Root", "Server", "Agent", "UserSession"} -> Nat \ {0}]
    /\ ValidityDuration["UserSession"] < ValidityDuration["Agent"]
    /\ ValidityDuration["Agent"] < ValidityDuration["Root"]
    /\ ValidityDuration["Server"] = ValidityDuration["Root"]

ChainsBounded == MaxParents \in Nat \ {0}

\* The bounds of the clocks are numbers, and the clocks can differ by the bound.
ClocksBounded == {MaxTime, MaxSkew} \subseteq Nat /\ MaxSkew <= MaxTime

Server == "server"
Machines == Nodes \cup {Server}

None == [state |-> "none"]

VARIABLES
    clock,      \* [Machines -> seconds]
    root,       \* the root certificate
    blocks,     \* the server's trust store: blocks [cert, time], in order
    sessions,   \* the server's session store
    seen,       \* [Nodes -> number of blocks in the node's trust store]
    following,  \* [Nodes -> the node's update_trust_store task is running]
    work,       \* [Nodes -> the certificate the node is making or sending]
    outcome     \* [Nodes -> how the node's last piece of work ended]

vars == <<clock, root, blocks, sessions, seen, following, work, outcome>>

Cert(spki, type, before, after) ==
    [spki |-> spki, type |-> type, issuer |-> "root", before |-> before, after |-> after]

(***************************************************************************)
(* Certificates.                                                           *)
(***************************************************************************)
\* Faulty variant: sessions belong to users, and the root user is none.
MayBeParentOfUsersOnly(parent, child) ==
    \/ parent = "Root" /\ child \in {"Server", "User", "Agent"}
    \/ parent = "User" /\ child \in {"User", "Agent", "UserSession"}

\* CertificateType::may_be_parent_of.
MayBeParentOf(parent, child) ==
    \/ parent = "Root" /\ child \in {"Server", "User", "Agent", "UserSession"}
    \/ parent = "User" /\ child \in {"User", "Agent", "UserSession"}

\* UnverifiedCertificate::from_der: the exact duration of the type, and only
\* root certificates are signed by themselves.
FromDer(cert) ==
    /\ cert.after - cert.before = ValidityDuration[cert.type]
    /\ cert.issuer = cert.spki => cert.type = "Root"

\* check_validity_at: both ends belong to the validity.
ValidAt(cert, time) == cert.before <= time /\ time <= cert.after

\* verify_signature: the issuer's own validity is not looked at.
VerifySignature(cert, issuer, time) ==
    /\ MayBeParentOf(issuer.type, cert.type)
    /\ cert.issuer = issuer.spki
    /\ ValidAt(cert, time)

(***************************************************************************)
(* The trust store.                                                        *)
(***************************************************************************)
\* The certificates of a trust store with these blocks.
Certificates(bs) == {root} \cup { bs[i].cert : i \in 1 .. Len(bs) }

\* TrustStore::get, as the set of the one certificate or of none.
Get(bs, spki) == { c \in Certificates(bs) : c.spki = spki }

\* State::check of Transaction::Add, signed by the root user.
StateCheck(bs, time, cert) ==
    /\ Get(bs, cert.spki) = {}
    /\ cert.issuer = root.spki
    /\ VerifySignature(cert, root, time)

\* Faulty variant: a block from the future is let in.
CheckAnyTime(bs, block, now) ==
    /\ block.sequence = Len(bs) + 1
    /\ bs # << >> => bs[Len(bs)].time <= block.time
    /\ StateCheck(bs, block.time, block.cert)

\* Chain::check by a machine whose clock shows now.
Check(bs, block, now) ==
    /\ block.sequence = Len(bs) + 1
    /\ bs # << >> => bs[Len(bs)].time <= block.time
    /\ block.time <= now
    /\ StateCheck(bs, block.time, block.cert)

\* CertificateChainBuilder::push_parent accepts parent as the next of chain.
MayPushParent(chain, parent) ==
    LET last == chain[Len(chain)]
    IN  /\ last.type # "Root"
        /\ last.issuer = parent.spki
        /\ \A i \in 1 .. Len(chain) : chain[i].spki # parent.spki

\* complete_certificate_chain: the chain from the leaf to a root certificate, each
\* parent pushed onto what is below it, or << >> when an issuer is unknown or comes
\* again.  (There is one at most: a trust store has one certificate for a key.)
CompleteChain(bs, leaf) ==
    LET Complete(chain) ==
            /\ \A i \in 1 .. Len(chain) - 1 : MayPushParent(SubSeq(chain, 1, i), chain[i + 1])
            /\ chain[Len(chain)].type = "Root"
        chains == { <<leaf>> \o parents :
                      parents \in UNION { [1 .. n -> Certificates(bs)] : n \in 0 .. MaxParents } }
    IN  IF \E chain \in chains : Complete(chain)
        THEN CHOOSE chain \in chains : Complete(chain)
        ELSE << >>

\* UnverifiedCertificateChain::verify against the verifier's own root
\* certificate, whose validity is not looked at.
VerifyChain(chain, time) ==
    /\ chain # << >>
    /\ chain[Len(chain)] = root
    /\ \A i \in 1 .. Len(chain) - 1 : VerifySignature(chain[i], chain[i + 1], time)

\* ChainLoader::load_certificate_chain and verify: what a node that asks the
\* server for the chain of a certificate decides at time.
ChainAccepts(cert, time) ==
    /\ cert \in sessions \cup Certificates(blocks)
    /\ VerifyChain(CompleteChain(blocks, cert), time)

\* TrustStoreVerifier::verify_spki_hash.
VerifySpkiHash(bs, spki, time) == { c \in Get(bs, spki) : ValidAt(c, time) }

\* Faulty variant: a session needs a valid issuer only.
TrustStoreAcceptsAnySession(bs, cert, time) ==
    IF cert.type = "UserSession"
    THEN VerifySpkiHash(bs, cert.issuer, time) # {}
    ELSE cert \in VerifySpkiHash(bs, cert.spki, time)

\* TrustStoreVerifier::verify_known_certificate.
TrustStoreAccepts(bs, cert, time) ==
    IF cert.type = "UserSession"
    THEN \E issuer \in VerifySpkiHash(bs, cert.issuer, time) :
             VerifySignature(cert, issuer, time)
    ELSE cert \in VerifySpkiHash(bs, cert.spki, time)

-----------------------------------------------------------------------------
\* Types; at most one certificate for a key, and no two clocks too far apart.
TypeOK ==
    /\ clock \in [Machines -> 0 .. MaxTime]
    /\ \A m, n \in Machines : clock[m] <= clock[n] + MaxSkew
    /\ \A c, d \in sessions \cup Certificates(blocks) : c.spki = d.spki => c = d
    /\ \A c \in sessions \cup Certificates(blocks) : FromDer(c)
    /\ \A n \in Nodes : seen[n] \in 0 .. Len(blocks) /\ following[n] \in BOOLEAN
    /\ \A n \in Nodes : work[n].state \in {"none", "making", "made", "packaged"}
    /\ outcome \in [Nodes -> {"none", "ok", "parse", "package", "refused", "behind"}]

\* Init::dispatch made the root and the server's certificate by the clock of one
\* node; the server took both over without looking at its own (TrustStore::import).
Init ==
    /\ clock \in [Machines -> 0 .. MaxSkew]
    /\ root = Cert("root", "Root", 0, ValidityDuration["Root"])
    /\ blocks = <<[cert |-> Cert("server", "Server", 0, ValidityDuration["Server"]),
                   time |-> 0]>>
    /\ sessions = {}
    /\ seen = [n \in Nodes |-> 1]
    /\ following = [n \in Nodes |-> TRUE]
    /\ work = [n \in Nodes |-> None]
    /\ outcome = [n \in Nodes |-> "none"]

\* A second passes on machine m.
Tick(m) ==
    /\ clock[m] < MaxTime
    /\ \A n \in Machines : clock[m] < clock[n] + MaxSkew
    /\ clock' = [clock EXCEPT ![m] = @ + 1]
    /\ UNCHANGED <<root, blocks, sessions, seen, following, work, outcome>>

\* The keys that have been taken.
Taken == { c.spki : c \in sessions \cup Certificates(blocks) }
         \cup { work[n].spki : n \in { k \in Nodes : work[k] # None } }

\* KeyPair::generate gives a new one; which one makes no difference.
NewKey == CHOOSE spki \in SpkiHashes : spki \notin Taken

\* create_certificate_for_key reads the clock for not_before: a session at login
\* (Login::dispatch) or an agent that joins (handle_agent_enroll).
StartCertificate(n, type) ==
    /\ work[n] = None
    /\ SpkiHashes \ Taken # {}
    /\ work' = [work EXCEPT ![n] = [state |-> "making", type |-> type, spki |-> NewKey,
                                    before |-> clock[n]]]
    /\ outcome' = [outcome EXCEPT ![n] = "none"]
    /\ UNCHANGED <<clock, root, blocks, sessions, seen, following>>

\* Node n's piece of work is over.
End(n, how) ==
    /\ work' = [work EXCEPT ![n] = None]
    /\ outcome' = [outcome EXCEPT ![n] = how]

\* Faulty variant: the certificate is used without being parsed.
FinishUnparsed(n) ==
    /\ work[n].state = "making"
    /\ work' = [work EXCEPT ![n] =
                    [state |-> "made", spki |-> work[n].spki,
                     cert |-> Cert(work[n].spki, work[n].type, work[n].before,
                                   clock[n] + ValidityDuration[work[n].type])]]
    /\ UNCHANGED <<clock, root, blocks, sessions, seen, following, outcome>>

\* It reads the clock again for not_after and parses what it signed.
FinishCertificate(n) ==
    /\ work[n].state = "making"
    /\ LET cert == Cert(work[n].spki, work[n].type, work[n].before,
                        clock[n] + ValidityDuration[work[n].type])
       IN  IF FromDer(cert)
           THEN /\ work' = [work EXCEPT ![n] =
                                [state |-> "made", spki |-> cert.spki, cert |-> cert]]
                /\ UNCHANGED outcome
           ELSE End(n, "parse")
    /\ UNCHANGED <<clock, root, blocks, sessions, seen, following>>

\* LoginHandler::handle: the issuer must be the user, whose certificate is the root
\* here, and the chain must verify; then the session is stored.
Login(n) ==
    /\ work[n].state = "made" /\ work[n].cert.type = "UserSession"
    /\ IF /\ MayPushParent(<<work[n].cert>>, root)
          /\ VerifyChain(CompleteChain(blocks, work[n].cert), clock[Server])
       THEN sessions' = sessions \cup {work[n].cert} /\ End(n, "ok")
       ELSE End(n, "refused") /\ UNCHANGED sessions
    /\ UNCHANGED <<clock, root, blocks, seen, following>>

\* Chain::package by the client, whose trust store may be behind.
Package(n) ==
    /\ work[n].state = "made" /\ work[n].cert.type = "Agent"
    /\ IF StateCheck(SubSeq(blocks, 1, seen[n]), clock[n], work[n].cert)
       THEN /\ work' = [work EXCEPT ![n] =
                            [state |-> "packaged", spki |-> work[n].spki,
                             cert |-> work[n].cert, time |-> clock[n],
                             sequence |-> seen[n] + 1]]
            /\ UNCHANGED outcome
       ELSE End(n, "package")
    /\ UNCHANGED <<clock, root, blocks, sessions, seen, following>>

\* The server checks the block; the client applies it when the answer is Ok.
Upload(n) ==
    /\ work[n].state = "packaged"
    /\ IF Check(blocks, work[n], clock[Server])
       THEN /\ blocks' = Append(blocks, [cert |-> work[n].cert, time |-> work[n].time])
            /\ seen' = [seen EXCEPT ![n] = work[n].sequence]
            /\ End(n, "ok")
       ELSE End(n, "refused") /\ UNCHANGED <<blocks, seen>>
    /\ UNCHANGED <<clock, root, sessions, following>>

\* UpdateTrustStore: a node that follows checks the next block by its own clock
\* and stops following when it refuses one.
Follow(n) ==
    /\ following[n] /\ seen[n] < Len(blocks)
    /\ LET next == blocks[seen[n] + 1]
           block == [sequence |-> seen[n] + 1, time |-> next.time, cert |-> next.cert]
       IN  IF Check(SubSeq(blocks, 1, seen[n]), block, clock[n])
           THEN seen' = [seen EXCEPT ![n] = @ + 1] /\ UNCHANGED <<following, outcome>>
           ELSE /\ following' = [following EXCEPT ![n] = FALSE]
                /\ outcome' = [outcome EXCEPT ![n] = "behind"]
                /\ UNCHANGED seen
    /\ UNCHANGED <<clock, root, blocks, sessions, work>>

\* The program is started again, and with it the task; what it was doing is lost.
Restart(n) ==
    /\ ~following[n]
    /\ following' = [following EXCEPT ![n] = TRUE]
    /\ End(n, "none")
    /\ UNCHANGED <<clock, root, blocks, sessions, seen>>

Next ==
    \/ \E m \in Machines : Tick(m)
    \/ \E n \in Nodes :
          \/ \E type \in {"Agent", "UserSession"} : StartCertificate(n, type)
          \/ FinishCertificate(n) \/ Login(n) \/ Package(n) \/ Upload(n)
          \/ Follow(n) \/ Restart(n)

Spec == Init /\ [][Next]_vars

-----------------------------------------------------------------------------
\* From the moment the server stored a session or a block until the certificate
\* expires, the server's verifier accepts it, by whatever clocks it was made: the
\* test of the block's time against the future and of the certificate against the
\* block's time together keep out what has not begun.  (A session also needs a
\* root certificate that has not expired.  The server's own certificate came with
\* the first block, which nobody compares with a clock.)
AcceptedUntilExpiry ==
    \A cert \in sessions \cup { blocks[i].cert : i \in 2 .. Len(blocks) } :
        /\ clock[Server] <= cert.after
        /\ cert.type = "UserSession" => clock[Server] <= root.after
        => TrustStoreAccepts(blocks, cert, clock[Server])

\* The two ways to judge a certificate the server knows agree at every time: the
\* TrustStoreVerifier, and a verified chain to the root.  They differ only for
\* sessions outside the root's validity, which only the TrustStoreVerifier tests.
VerifiersAgree ==
    \A cert \in sessions \cup Certificates(blocks), time \in 0 .. MaxTime :
        cert # root =>
            ( TrustStoreAccepts(blocks, cert, time)
              <=> /\ ChainAccepts(cert, time)
                  /\ cert.type = "UserSession" => ValidAt(root, time) )

\* What a client or a node is refused is the fault of clocks, of a certificate that
\* ran out on its way or of another client's block, never of the certificate: a
\* certificate is not made only when a second passed between the two readings of the
\* clock; a session is refused only by a clock that is behind its maker's or past its
\* end; a block only when it was overtaken, lies in the server's future or before the
\* last block; and a node stops following only at a block in its future.
RefusedForAReason ==
    [][ \A n \in Nodes : outcome'[n] # outcome[n] =>
          /\ outcome'[n] = "parse" => clock[n] > work[n].before
          /\ outcome'[n] = "package" => clock[n] > work[n].cert.after
          /\ outcome'[n] = "behind" => blocks[seen[n] + 1].time > clock[n]
          /\ outcome'[n] = "refused" /\ work[n].state = "made" =>
                ~ValidAt(work[n].cert, clock[Server])
          /\ outcome'[n] = "refused" /\ work[n].state = "packaged" =>
                \/ Len(blocks) >= work[n].sequence
                \/ work[n].time > clock[Server]
                \/ work[n].time < blocks[Len(blocks)].time ]_vars
==============================================================================

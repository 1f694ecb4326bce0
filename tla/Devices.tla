-------------------------------- MODULE Devices --------------------------------
(***************************************************************************)
(* What is kept about a device and on it: its groups (MlsGroups), the      *)
(* storage below them (MlsStorage), the reports and meta data a client     *)
(* keeps (ClientStore), the installed agent (AgentInstall) and the         *)
(* certificates of agents and sessions (Certificates), each with its own   *)
(* instance.  The five share no variable: which of them a behaviour is     *)
(* about is chosen in its initial state.                                   *)
(***************************************************************************)
EXTENDS MlsGroups

CONSTANTS
    GroupIds, DataTypes, KeyTables, Keys, ProposalRefs, Values, MaxCalls,   \* of MlsStorage
    ChannelCap, MaxItems, MaxStamp, MaxMains, MaxCrashes,       \* of ClientStore, AgentInstall
    Slots, Requests, MaxManual,                                 \* of AgentInstall
    Nodes, SpkiHashes, ValidityDuration, MaxParents, MaxTime, MaxSkew   \* of Certificates

VARIABLES
    part,                           \* what this behaviour is about
    \* MlsStorage
    rows, memory, repeated, calls,
    \* ClientStore
    log, next, sending, channel, row, shown, main, mains, crashes, entered, excused,
    \* AgentInstall
    disk, unit, loaded, service, installer, request, lock, removal, manual, agentCrashes, raced,
    \* Certificates
    clock, rootCert, blocks, sessions, seen, following, work, outcome

Storage == INSTANCE MlsStorage

Kept == INSTANCE ClientStore

Install == INSTANCE AgentInstall WITH crashes <- agentCrashes

Pki == INSTANCE Certificates WITH root <- rootCert

ASSUME StorageAssumption ==
    /\ DataTypes \subseteq DOMAIN Storage!ToStr /\ KeyTables \subseteq Storage!AllKeyTables
    /\ MaxCalls \in Nat

ASSUME KeptAssumption == Kept!Bounded

ASSUME InstallAssumption == Install!InstallAssumption

ASSUME CertificatesAssumption == Pki!DurationsOrdered /\ Pki!ChainsBounded /\ Pki!ClocksBounded

storageVars == <<rows, memory, repeated, calls>>
storeVars == <<log, next, sending, channel, row, shown, main, mains, crashes, entered, excused>>
installVars == <<disk, unit, loaded, service, installer, request, lock, removal, manual,
                 agentCrashes, raced>>
certificateVars == <<clock, rootCert, blocks, sessions, seen, following, work, outcome>>

devicesVars == <<part, vars, storageVars, storeVars, installVars, certificateVars>>

DevicesInit ==
    /\ part \in {"groups", "storage", "store", "install", "certificates"}
    /\ Init /\ Storage!Init /\ Kept!Init
    /\ Install!Init /\ (part # "install" => service.at = "off")
    /\ Pki!Init /\ (part # "certificates" => \A m \in Pki!Machines : clock[m] = 0)

DevicesNext ==
    /\ UNCHANGED part
    /\ \/ part = "groups" /\ Next
          /\ operations' + faults' <= MaxOperations   \* bound: a fault instead of an operation
          /\ UNCHANGED <<storageVars, storeVars, installVars, certificateVars>>
       \/ part = "storage" /\ Storage!Next
          /\ UNCHANGED <<vars, storeVars, installVars, certificateVars>>
       \/ part = "store" /\ Kept!Next
          /\ UNCHANGED <<vars, storageVars, installVars, certificateVars>>
       \/ part = "install" /\ Install!Next
          /\ UNCHANGED <<vars, storageVars, storeVars, certificateVars>>
       \/ part = "certificates" /\ Pki!Next
          /\ UNCHANGED <<vars, storageVars, storeVars, installVars>>

DevicesSpec == DevicesInit /\ [][DevicesNext]_devicesVars

-----------------------------------------------------------------------------
\* Types of all five parts, with the capacity of the client's channel, the primary
\* keys of the storage, one update at a time and one certificate for a key.
DevicesTypeOK ==
    /\ TypeOK
    /\ part = "storage" => Storage!TypeOK
    /\ part = "store" => Kept!TypeOK
    /\ part = "install" => Install!TypeOK
    /\ part = "certificates" => Pki!TypeOK

\* The SQLite storage and OpenMLS's storage in memory give the same answer to
\* every read, except for an item that was written again while it existed.
BackendsAgree == part = "storage" => Storage!BackendsAgree

\* What a client shows about a device is what it was last told, at rest and again
\* after a restart, with the exceptions that QuietShowsLatest and RowIsShown name; and
\* the database never goes back behind its first update.
ShowsWhatItWasTold ==
    part = "store" => Kept!QuietShowsLatest /\ Kept!RowIsShown /\ Kept!RowNotBeforeFirst

\* The executable of a running agent and the one systemd would start next are whole,
\* whatever crashes, as long as installers and starting agents do not overlap and
\* none is cut off with the unit file written and not loaded.
InstalledIsWhole == part = "install" => Install!InstalledIsWhole

\* What the server stored it accepts until it expires, by whatever clock it was made,
\* and the trust-store verifier and a verified chain judge it alike at every time.
StoredIsAccepted ==
    part = "certificates" => Pki!AcceptedUntilExpiry /\ Pki!VerifiersAgree

\* Only clocks, expiry and other blocks make a node, a login or a block fail.
RefusedForAReason == Pki!RefusedForAReason
================================================================================

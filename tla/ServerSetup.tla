----------------------------- MODULE ServerSetup ------------------------------
(***************************************************************************)
(* Start and initialisation of the server (server.rs,                      *)
(* shared/commands/init.rs, public_server_status.rs, first_connect.rs).    *)
(* A server without base_config.json runs an init server, on which the     *)
(* first client stores itself as root user and hands over credential and   *)
(* trust store; they are written to two files after the init server is     *)
(* closed.                                                                 *)
(*                                                                         *)
(* What belongs to a client's initialisation (user row, credential, trust  *)
(* store) is named by the client.  The init handler holds the mutex of its *)
(* channel from its first line to its last.  Left out: the key material,   *)
(* the clean shutdown.                                                     *)
(***************************************************************************)
EXTENDS Integers, FiniteSets

CONSTANTS
    Clients,
    MaxStops,       \* bound: how often the server is killed
    MaxBreaks       \* bound: how often a connection breaks

NoClient == "none"

ASSUME SetupAssumption ==
    NoClient \notin Clients /\ MaxStops \in Nat /\ MaxBreaks \in Nat

VARIABLES
    server,     \* where Server::start is
    usersRow,   \* the root user in the users table
    configFile, \* base_config.json
    trustFile,  \* trust_store.json
    success,    \* the ServerInitSuccess in memory
    hasChannel, \* the InitHandler's mutex holds its channel
    holder,     \* the session that holds the mutex
    handler,    \* [Clients -> where its InitHandler::handle is]
    client,     \* [Clients -> where it is]
    told,       \* history: clients that have read Ok
    stops, breaks

vars == <<server, usersRow, configFile, trustFile, success, hasChannel, holder, handler,
          client, told, stops, breaks>>
files == <<configFile, trustFile>>

TypeOK ==
    /\ server \in {"down", "init", "close", "config", "trust", "ready"}
    /\ {usersRow, configFile, trustFile, success, holder} \subseteq Clients \cup {NoClient}
    /\ hasChannel \in BOOLEAN
    /\ handler \in [Clients -> {"none", "lock", "request", "add", "answer", "confirm"}]
    /\ client \in [Clients -> {"idle", "init", "key", "send", "wait", "told", "login"}]
    /\ told \subseteq Clients
    /\ stops \in 0 .. MaxStops /\ breaks \in 0 .. MaxBreaks
    /\ \A c \in Clients : handler[c] \in {"request", "add", "answer", "confirm"} <=> holder = c

\* A server that has been started for the first time.
Init ==
    /\ server = "init" /\ hasChannel = TRUE
    /\ usersRow = NoClient /\ configFile = NoClient /\ trustFile = NoClient
    /\ success = NoClient /\ holder = NoClient
    /\ handler = [c \in Clients |-> "none"]
    /\ client = [c \in Clients |-> "idle"]
    /\ told = {} /\ stops = 0 /\ breaks = 0

-----------------------------------------------------------------------------
(* Server::start.                                                          *)

\* get_base_config reads both files; a configuration without a trust store is
\* an error, and start returns it.
StartReady ==
    /\ server = "down" /\ configFile # NoClient /\ trustFile # NoClient
    /\ server' = "ready"
    /\ UNCHANGED <<usersRow, files, success, hasChannel, holder, handler, client, told, stops,
                   breaks>>

StartInit ==
    /\ server = "down" /\ configFile = NoClient
    /\ server' = "init" /\ hasChannel' = TRUE
    /\ UNCHANGED <<usersRow, files, success, holder, handler, client, told, stops, breaks>>

CloseListenerOnly ==
    /\ server = "close"
    /\ server' = "config"
    /\ handler' = [c \in Clients |-> "none"]
    /\ UNCHANGED <<usersRow, files, success, hasChannel, holder, client, told, stops, breaks>>

\* init_server has the channel's value: rpc.close ends every connection.
CloseInitServer ==
    /\ server = "close"
    /\ server' = "config"
    /\ handler' = [c \in Clients |-> "none"]
    /\ client' = [c \in Clients |-> IF client[c] \in {"told", "login"} THEN client[c] ELSE "idle"]
    /\ UNCHANGED <<usersRow, files, success, hasChannel, holder, told, stops, breaks>>

SaveConfigAlone ==
    /\ server = "config"
    /\ configFile' = success
    /\ server' = "ready"
    /\ UNCHANGED <<usersRow, trustFile, success, hasChannel, holder, handler, client, told,
                   stops, breaks>>

\* save_base_config: the configuration first.
SaveConfig ==
    /\ server = "config"
    /\ configFile' = success
    /\ server' = "trust"
    /\ UNCHANGED <<usersRow, trustFile, success, hasChannel, holder, handler, client, told,
                   stops, breaks>>

SaveTrustStore ==
    /\ server = "trust"
    /\ trustFile' = success
    /\ server' = "ready"
    /\ UNCHANGED <<usersRow, configFile, success, hasChannel, holder, handler, client, told,
                   stops, breaks>>

-----------------------------------------------------------------------------
(* InitHandler::handle.                                                    *)

\* The handler ends: its session is closed, its client's dispatch fails.
HandlerFails(c) ==
    /\ handler' = [handler EXCEPT ![c] = "none"]
    /\ client' = [client EXCEPT ![c] = IF @ = "told" THEN @ ELSE "idle"]

LockUnheld(c) ==
    /\ handler[c] = "lock"
    /\ handler' = [handler EXCEPT ![c] = "request"]
    /\ client' = [client EXCEPT ![c] = "send"]
    /\ holder' = c
    /\ UNCHANGED <<server, usersRow, files, success, hasChannel, told, stops, breaks>>

\* The handler has the mutex; without a channel the server is initialized.
LockChannel(c) ==
    /\ handler[c] = "lock" /\ holder = NoClient
    /\ IF hasChannel
         THEN /\ holder' = c
              /\ handler' = [handler EXCEPT ![c] = "request"]
              /\ client' = [client EXCEPT ![c] = "send"]
         ELSE HandlerFails(c) /\ UNCHANGED holder
    /\ UNCHANGED <<server, usersRow, files, success, hasChannel, told, stops, breaks>>

AddAnyUser(c) ==
    /\ handler[c] = "add"
    /\ usersRow' = c
    /\ handler' = [handler EXCEPT ![c] = "answer"]
    /\ UNCHANGED <<server, files, success, hasChannel, holder, client, told, stops, breaks>>

AddUserBeforeChecks(c) ==
    /\ handler[c] = "add"
    /\ usersRow' = IF usersRow = NoClient THEN c ELSE usersRow
    /\ \/ usersRow = NoClient /\ handler' = [handler EXCEPT ![c] = "answer"]
          /\ UNCHANGED <<holder, client>>
       \/ HandlerFails(c) /\ holder' = NoClient
    /\ UNCHANGED <<server, files, success, hasChannel, told, stops, breaks>>

\* add_root_user: refused when there is any user.
AddRootUser(c) ==
    /\ handler[c] = "add"
    /\ IF usersRow = NoClient
         THEN /\ usersRow' = c
              /\ handler' = [handler EXCEPT ![c] = "answer"]
              /\ UNCHANGED <<holder, client>>
         ELSE HandlerFails(c) /\ holder' = NoClient /\ UNCHANGED usersRow
    /\ UNCHANGED <<server, files, success, hasChannel, told, stops, breaks>>

\* The channel is taken and Ok written.
AnswerOk(c) ==
    /\ handler[c] = "answer"
    /\ hasChannel' = FALSE
    /\ handler' = [handler EXCEPT ![c] = "confirm"]
    /\ UNCHANGED <<server, usersRow, files, success, holder, client, told, stops, breaks>>

\* The client has confirmed, or is gone: either way the server goes on.
SendSuccess(c) ==
    /\ handler[c] = "confirm" /\ client[c] # "wait"
    /\ success' = c /\ server' = "close"
    /\ holder' = NoClient
    /\ handler' = [handler EXCEPT ![c] = "none"]
    /\ UNCHANGED <<usersRow, files, hasChannel, client, told, stops, breaks>>

-----------------------------------------------------------------------------
(* The client: first_connect, Init::dispatch, Init::init.                  *)

\* get_public_status decides between the two screens.
FirstConnect(c) ==
    /\ client[c] = "idle" /\ server \in {"init", "ready"}
    /\ client' = [client EXCEPT ![c] = IF server = "init" THEN "init" ELSE "login"]
    /\ UNCHANGED <<server, usersRow, files, success, hasChannel, holder, handler, told, stops,
                   breaks>>

DispatchInit(c) ==
    /\ client[c] = "init" /\ server = "init" /\ handler[c] = "none"
    /\ client' = [client EXCEPT ![c] = "key"]
    /\ handler' = [handler EXCEPT ![c] = "lock"]
    /\ UNCHANGED <<server, usersRow, files, success, hasChannel, holder, told, stops, breaks>>

SendRequest(c) ==
    /\ client[c] = "send" /\ handler[c] = "request"
    /\ client' = [client EXCEPT ![c] = "wait"]
    /\ handler' = [handler EXCEPT ![c] = "add"]
    /\ UNCHANGED <<server, usersRow, files, success, hasChannel, holder, told, stops, breaks>>

ReadOk(c) ==
    /\ client[c] = "wait" /\ handler[c] = "confirm"
    /\ client' = [client EXCEPT ![c] = "told"]
    /\ told' = told \cup {c}
    /\ UNCHANGED <<server, usersRow, files, success, hasChannel, holder, handler, stops, breaks>>

\* After its wait of a second the client connects once, with the trust store it
\* has just created as verifier; a server that is not up yet is an error.
ConnectAgain(c) ==
    /\ client[c] = "told"
    /\ \/ server = "ready" /\ client' = [client EXCEPT ![c] = "login"]
       \/ server # "ready" /\ client' = [client EXCEPT ![c] = "idle"]
    /\ UNCHANGED <<server, usersRow, files, success, hasChannel, holder, handler, told, stops,
                   breaks>>

-----------------------------------------------------------------------------
(* Faults.                                                                 *)

\* A connection to the init server breaks: a handler that waits for an object
\* fails, one that waits for the confirmation goes on.
BreakConnection(c) ==
    /\ client[c] \in {"key", "send", "wait"}
    /\ breaks < MaxBreaks /\ breaks' = breaks + 1
    /\ client' = [client EXCEPT ![c] = "idle"]
    /\ IF handler[c] \in {"add", "answer", "confirm"} THEN UNCHANGED <<handler, holder>>
       ELSE /\ handler' = [handler EXCEPT ![c] = "none"]
            /\ holder' = IF holder = c THEN NoClient ELSE holder
    /\ UNCHANGED <<server, usersRow, files, success, hasChannel, told, stops>>

\* The Ok cannot be written: the channel has been taken by then and is dropped,
\* init_server fails and with it start.
AnswerFails(c) ==
    /\ handler[c] = "answer" /\ client[c] # "wait"
    /\ hasChannel' = FALSE /\ server' = "down" /\ holder' = NoClient
    /\ handler' = [x \in Clients |-> "none"]
    /\ client' = [x \in Clients |-> IF client[x] \in {"told", "login"} THEN client[x] ELSE "idle"]
    /\ UNCHANGED <<usersRow, files, success, told, stops, breaks>>

\* The process is killed: what is not in the database or a file is gone.
Stop ==
    /\ server # "down"
    /\ stops < MaxStops /\ stops' = stops + 1
    /\ server' = "down" /\ success' = NoClient /\ hasChannel' = FALSE /\ holder' = NoClient
    /\ handler' = [c \in Clients |-> "none"]
    /\ client' = [c \in Clients |-> IF client[c] = "told" THEN "told" ELSE "idle"]
    /\ UNCHANGED <<usersRow, files, told, breaks>>

-----------------------------------------------------------------------------
ServerStep == StartReady \/ StartInit \/ CloseInitServer \/ SaveConfig \/ SaveTrustStore
HandlerStep(c) ==
    LockChannel(c) \/ AddRootUser(c) \/ AnswerOk(c) \/ SendSuccess(c) \/ AnswerFails(c)
ClientStep(c) == SendRequest(c) \/ ReadOk(c) \/ ConnectAgain(c)

Next ==
    \/ ServerStep \/ Stop
    \/ \E c \in Clients :
          \/ HandlerStep(c) \/ ClientStep(c)
          \/ FirstConnect(c) \/ DispatchInit(c) \/ BreakConnection(c)

\* The server's tasks and a dispatch that has begun go on; tokio's mutex serves
\* those who wait for it in turn.  Whether a user opens a connection or starts
\* an initialisation is up to them.
Fairness ==
    /\ WF_vars(ServerStep)
    /\ \A c \in Clients : /\ WF_vars(HandlerStep(c)) /\ WF_vars(ClientStep(c))
                          /\ SF_vars(LockChannel(c))

Spec == Init /\ [][Next]_vars /\ Fairness

-----------------------------------------------------------------------------
\* Users table, configuration and trust store always come from one and the same
\* initialisation, however many clients try and wherever the server is stopped;
\* and whoever was told Ok is the one.
OneInitialisation ==
    /\ configFile # NoClient => configFile = usersRow
    /\ trustFile # NoClient => trustFile = configFile
    /\ \A c \in told : usersRow = c

\* An init server that nobody can initialise any more, because the root user
\* exists already, comes only from an initialisation that was cut off.
LockedOutOnlyWhenInterrupted ==
    (server = "init" /\ hasChannel /\ holder = NoClient /\ usersRow # NoClient)
    => stops + breaks > 0

\* A client that was told Ok gets a running server that is its own, unless the
\* server is killed in between.
ToldBecomesReady ==
    \A c \in Clients : c \in told ~> (server = "ready" /\ trustFile = c) \/ stops > 0

\* A dispatched initialisation ends, for everyone who is waiting for the mutex.
InitEnds == \A c \in Clients : client[c] \in {"key", "send", "wait"} ~>
                               client[c] \in {"idle", "told", "login"}

\* The server belongs to one client, and only an interruption leaves it to none.
InitialisedByOne == OneInitialisation /\ LockedOutOnlyWhenInterrupted
================================================================================

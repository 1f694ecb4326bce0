------------------------------- MODULE Sessions -------------------------------
(***************************************************************************)
(* The sessions of the RPC layer and the commands that run in them         *)
(* (svalin_rpc/src/rpc, svalin_rpc/src/commands, svalin/src/permissions,   *)
(* svalin/src/shared/commands, client/first_connect.rs, client/profile.rs).*)
(*                                                                         *)
(* A session is a pair of byte streams.  The dispatcher and the handler of *)
(* a command are two sequential programs that write and read objects on    *)
(* it; the encoding names no types, so both must agree on what comes next. *)
(* A side is its script: the steps it still has to take.  What a header    *)
(* asks for decides how the handler's script goes on.  Commands that other *)
(* modules model (messages, trust store, joining, the user's MLS state)    *)
(* have their frame here and no body.                                      *)
(*                                                                         *)
(* A forwarded session is relayed by the server to an agent; the relay     *)
(* copies bytes in order, and its failure is one way for a session to      *)
(* break.  One session runs at a time: what sessions share are the user's  *)
(* profile on disk and the server's table of sessions, and both outlive    *)
(* them.                                                                   *)
(***************************************************************************)
EXTENDS Integers, Sequences, FiniteSets

CONSTANTS
    MaxLogins,      \* bound: how many logins follow each other
    MaxBreaks       \* bound: how often a session breaks or a client is killed

Sides == {"dispatcher", "handler"}
Other(x) == IF x = "dispatcher" THEN "handler" ELSE "dispatcher"

-----------------------------------------------------------------------------
(* Peers and permissions.                                                  *)

Peers == {"Anonymous", "RootSession", "UserSession", "User", "Agent", "Server"}

May(peer, permission) ==
    CASE peer = "User" -> permission = "UserOrSession"
      [] peer = "RootSession" ->
             permission \in {"RootOnly", "AuthenticatedOnly", "ViewPublicInformation",
                             "UserOrSession", "SessionOnly"}
      [] peer = "UserSession" ->
             permission \in {"AuthenticatedOnly", "ViewPublicInformation", "UserOrSession",
                             "SessionOnly"}
      [] peer = "Agent" ->
             permission \in {"AuthenticatedOnly", "ViewPublicInformation", "AgentOnly"}
      [] peer = "Server" -> permission = "AuthenticatedOnly"
      [] peer = "Anonymous" -> permission \in {"ViewPublicInformation", "AnonymousOnly"}

ServerCommands ==
    {"ping", "public_status", "login", "get_user_credential", "load_certificate_chain",
     "request_join", "accept_join", "forward", "get_key_packages", "update_user_mls",
     "agent_messages", "client_messages", "agent_sender", "client_sender", "update_trust_store"}
EndToEndCommands ==
    {"ping", "realtime_status", "tcp_forward", "update_agent", "request_system_report"}
PublicCommands == {"e2e"}
AgentCommands == {"deauthenticate"}
Commands == ServerCommands \cup EndToEndCommands \cup PublicCommands \cup AgentCommands

Collections ==
    [server |-> ServerCommands, agent |-> AgentCommands, public |-> PublicCommands,
     endToEnd |-> EndToEndCommands]

ReportAsAgentOnly(command) ==
    CASE command \in {"ping", "public_status"} -> "ViewPublicInformation"
      [] command \in {"load_certificate_chain", "deauthenticate", "get_key_packages",
                      "update_trust_store"} -> "AuthenticatedOnly"
      [] command \in {"forward", "accept_join", "realtime_status", "tcp_forward"} -> "RootOnly"
      [] command \in {"e2e", "login", "request_join"} -> "AnonymousOnly"
      [] command \in {"update_user_mls", "client_messages", "client_sender"} -> "UserOrSession"
      [] command \in {"agent_messages", "agent_sender", "request_system_report"} -> "AgentOnly"
      [] command \in {"get_user_credential", "update_agent"} -> "SessionOnly"

PermissionOf(command) ==
    CASE command \in {"ping", "public_status"} -> "ViewPublicInformation"
      [] command \in {"load_certificate_chain", "deauthenticate", "get_key_packages",
                      "update_trust_store"} -> "AuthenticatedOnly"
      [] command \in {"forward", "accept_join", "realtime_status", "tcp_forward"} -> "RootOnly"
      [] command \in {"e2e", "login", "request_join"} -> "AnonymousOnly"
      [] command \in {"update_user_mls", "client_messages", "client_sender"} -> "UserOrSession"
      [] command \in {"agent_messages", "agent_sender"} -> "AgentOnly"
      [] command \in {"get_user_credential", "update_agent", "request_system_report"} ->
             "SessionOnly"

Served(collection, command, peer) ==
    command \in Collections[collection] /\ May(peer, PermissionOf(command))

-----------------------------------------------------------------------------
(* Scripts.                                                                *)

Step(op, type) == <<[op |-> op, type |-> type]>>
Write(type) == Step("write", type)
Read(type) == Step("read", type)
\* A result is written, and an error ends the writer; its reader stops at one.
Answer(type) == Step("answer", type)
Await(type) == Step("await", type)
\* A local step that may fail: a signature, a lookup, a query.
Check == Step("check", "none")
StoreSession == Step("store", "none")
\* The session is handed to the handlers of a collection.
Handle(collection) == Step("handle", collection)

\* Session::dispatch, before the dispatcher proper.
Frame(command) == Step("header", command) \o Write("Request") \o Await("Response")

\* A TLS handshake; each side verifies the certificate of the other.
TlsClient == Write("ClientHello") \o Read("ServerFinished") \o Check \o Write("ClientFinished")
TlsServer == Read("ClientHello") \o Write("ServerFinished") \o Read("ClientFinished") \o Check

ExchangeTempCredentials == Write("TempCertificate") \o Read("TempCertificate") \o Check
ClientPreshared == ExchangeTempCredentials \o TlsClient
ServerPreshared == ExchangeTempCredentials \o TlsServer

AucPaceClient ==
    Write("Nonce") \o Read("Nonce") \o Read("ClientInfo") \o Write("Nonce") \o Read("Nonce")
    \o Write("PublicKey") \o Read("PublicKey") \o Write("Authenticator") \o Await("AuthResult")
    \o ClientPreshared
AucPaceServer ==
    Write("Nonce") \o Read("Nonce") \o Write("ClientInfo") \o Write("Nonce") \o Read("Nonce")
    \o Write("PublicKey") \o Read("PublicKey") \o Read("Authenticator") \o Answer("AuthResult")
    \o ServerPreshared

\* Login: nonces and TLS, augmentation, CPace, TOTP, approval.
LoginTlsHandler == Write("Nonce") \o Read("Nonce") \o TlsServer
LoginAugmentHandlerEager ==
    Write("Nonce") \o Read("StrongUsername") \o Read("Nonce") \o Write("StrongClientInfo")
LoginAugmentHandler ==
    Write("Nonce") \o Read("Nonce") \o Read("StrongUsername") \o Write("StrongClientInfo")
LoginCpaceHandler ==
    Write("PublicKey") \o Read("PublicKey") \o Read("Authenticator") \o Answer("AuthResult")
LoginTotpHandler == ServerPreshared \o Check \o Read("Totp") \o Answer("TotpSuccess")
LoginApproveHandlerWaiting ==
    Read("Certificate") \o Write("LoginApproval") \o StoreSession \o Answer("SessionResult")
LoginApproveHandler ==
    Write("LoginApproval") \o Read("Certificate") \o StoreSession \o Answer("SessionResult")
LoginHandler ==
    LoginTlsHandler \o LoginAugmentHandler \o LoginCpaceHandler \o LoginTotpHandler
    \o LoginApproveHandler

LoginTls == Write("Nonce") \o Read("Nonce") \o TlsClient
LoginAugment ==
    Write("Nonce") \o Read("Nonce") \o Write("StrongUsername") \o Read("StrongClientInfo")
LoginCpace ==
    Write("PublicKey") \o Read("PublicKey") \o Write("Authenticator") \o Await("AuthResult")
LoginTotp == ClientPreshared \o Write("Totp") \o Await("TotpSuccess")
LoginApprove ==
    Read("LoginApproval") \o Check \o Write("Certificate") \o Await("SessionResult") \o Check
\* Client::add_profile.
AddProfileAlone == Step("list_profiles", "none") \o Step("save_profile", "none")
AddProfile ==
    Step("list_profiles", "none") \o Step("save_profile", "none") \o Step("save_trust", "none")
Login == LoginTls \o LoginAugment \o LoginCpace \o LoginTotp \o LoginApprove \o AddProfile

PingHandler == Read("Ping") \o Write("Ping")
Ping == Write("Ping") \o Read("Ping")
PublicStatusHandler == Write("PublicStatus")
GetPublicStatus == Read("PublicStatus")
GetKeyPackagesHandler == Write("KeyPackages")
GetKeyPackages == Read("KeyPackages") \o Check
GetUserCredentialHandler == Check \o Write("UserCredential")
GetUserCredential == Read("UserCredential")
\* The chain or the lack of one; either way the other side confirms.
LoadCertificateChainHandler == Write("ChainResult") \o Read("Unit")
ChainRequest == Read("ChainResult") \o Write("Unit") \o Check
RequestSystemReportHandler == Write("Unit")
RequestSystemReport == Read("Unit")
UpdateAgentHandler == Answer("UpdateResult")
UpdateAgent == Await("UpdateResult")
RealtimeStatusHandler == Step("stream", "RealtimeStatus")
SubscribeRealtimeStatus == Step("drain", "RealtimeStatus")
TcpForwardHandler == Answer("TcpResult") \o Step("copy", "none")
TcpForward == Await("TcpResult") \o Step("copy", "none")

\* Between the agent that waits with a join code and the client that accepts it
\* the server relays the exchange of AucPaceTransport: it stands for the body of
\* accept_join.

\* The forwarding handler opens a session with the agent and takes away its own
\* identity there; from then on the agent's public handlers are at the far end.
ForwardHandler == Answer("ForwardResult") \o Handle("public")
DeauthenticateHandler == Handle("public")
E2EHandler == TlsServer \o Handle("endToEnd")
ForwardConnection == Frame("forward") \o Await("ForwardResult") \o Frame("e2e") \o TlsClient

HandlerOf(command) ==
    CASE command = "ping" -> PingHandler
      [] command = "public_status" -> PublicStatusHandler
      [] command = "login" -> LoginHandler
      [] command = "get_user_credential" -> GetUserCredentialHandler
      [] command = "load_certificate_chain" -> LoadCertificateChainHandler
      [] command = "get_key_packages" -> GetKeyPackagesHandler
      [] command = "accept_join" -> AucPaceServer
      [] command = "realtime_status" -> RealtimeStatusHandler
      [] command = "tcp_forward" -> TcpForwardHandler
      [] command = "update_agent" -> UpdateAgentHandler
      [] command = "request_system_report" -> RequestSystemReportHandler
      [] command = "forward" -> ForwardHandler
      [] command = "e2e" -> E2EHandler
      [] command = "deauthenticate" -> DeauthenticateHandler
      [] OTHER -> <<>>

DispatcherOf(command) ==
    CASE command = "ping" -> Ping
      [] command = "public_status" -> GetPublicStatus
      [] command = "login" -> Login
      [] command = "get_user_credential" -> GetUserCredential
      [] command = "load_certificate_chain" -> ChainRequest
      [] command = "get_key_packages" -> GetKeyPackages
      [] command = "accept_join" -> AucPaceClient
      [] command = "realtime_status" -> SubscribeRealtimeStatus
      [] command = "tcp_forward" -> TcpForward
      [] command = "update_agent" -> UpdateAgent
      [] command = "request_system_report" -> RequestSystemReport
      [] OTHER -> <<>>

-----------------------------------------------------------------------------
VARIABLES
    session,    \* the command, its peer, whether it is forwarded, the user's input
    todo,       \* [Sides -> the steps it still has to take]
    status,     \* [Sides -> "idle", "run", "done" or "failed"]
    toRead,     \* [Sides -> the objects sent to it and not read yet]
    broken,     \* the session's connection is lost
    logins,     \* number of the last login
    proven,     \* history: what the handler has found right in this session
    stored,     \* the server's table of sessions, by the login that created them
    profile,    \* the profile on disk: profile.json and trust_store.json
    profileDir, \* the names list_profiles finds
    sessionFaults

vars == <<session, todo, status, toRead, broken, logins, proven, stored, profile, profileDir,
          sessionFaults>>
onDisk == <<stored, profile, profileDir>>

NoLogin == 0
\* What steps are about and what objects hold.
Names ==
    Commands \cup DOMAIN Collections \cup
    {"none", "Ok", "Err", "Header", "Request", "Response", "ClientHello", "ServerFinished",
     "ClientFinished", "TempCertificate", "Nonce", "ClientInfo", "PublicKey", "Authenticator", "AuthResult",
     "StrongUsername", "StrongClientInfo", "Totp", "TotpSuccess", "LoginApproval", "Certificate",
     "SessionResult", "Ping", "PublicStatus", "KeyPackages", "UserCredential", "ChainResult",
     "Unit", "UpdateResult", "RealtimeStatus", "TcpResult", "ForwardResult"}
ScriptSteps ==
    [op : {"write", "read", "answer", "await", "check", "handle", "header", "request", "command",
           "store", "list_profiles", "save_profile", "save_trust", "stream", "drain", "copy"},
     type : Names]

TypeOK ==
    /\ session.command \in Commands /\ session.peer \in Peers /\ session.forwarded \in BOOLEAN
    /\ \A x \in Sides : \A i \in DOMAIN todo[x] : todo[x][i] \in ScriptSteps
    /\ status \in [Sides -> {"idle", "run", "done", "failed"}]
    /\ \A x \in Sides : status[x] # "run" => todo[x] = <<>>
    /\ broken \in BOOLEAN /\ logins \in 0 .. MaxLogins /\ sessionFaults \in 0 .. MaxBreaks
    /\ proven \subseteq {"AuthResult", "TotpSuccess"}
    /\ stored \subseteq 1 .. logins
    /\ profile \in [credential : 0 .. logins, trust : 0 .. logins]
    /\ profileDir \subseteq [name : {"profile"}, separator : {":", "+"}]
    \* What was sent is kept only for a side that may still read it.
    /\ \A x \in Sides : status[x] \in {"done", "failed"} => toRead[x] = <<>>

Init ==
    /\ session = [command |-> "ping", peer |-> "Anonymous", forwarded |-> FALSE,
                  password |-> TRUE, totp |-> TRUE]
    /\ todo = [x \in Sides |-> <<>>]
    /\ status = [x \in Sides |-> "idle"]
    /\ toRead = [x \in Sides |-> <<>>]
    /\ broken = FALSE /\ logins = 0 /\ proven = {}
    /\ stored = {} /\ profile = [credential |-> NoLogin, trust |-> NoLogin] /\ profileDir = {}
    /\ sessionFaults = 0

-----------------------------------------------------------------------------
Running(x) == status[x] = "run"
Ended(x) == status[x] \in {"done", "failed"}
Doing(x, op) == Running(x) /\ todo[x] # <<>> /\ todo[x][1].op = op
Expected(x) == todo[x][1].type

GoOn(x, script) ==
    todo' = [todo EXCEPT ![x] = script \o Tail(@)] /\ UNCHANGED status

\* A side that ends drops its half of the session.
End(x, how) ==
    /\ status' = [status EXCEPT ![x] = how]
    /\ todo' = [todo EXCEPT ![x] = <<>>]
Dropped(x) == [toRead EXCEPT ![x] = <<>>]

\* Connection::dispatch on one side, ServeableConnection::serve on the other.
\* Bound: only logins follow each other, for they leave something behind.
Dispatch(command, peer, forwarded, password, totp) ==
    /\ \/ \A x \in Sides : status[x] = "idle"
       \/ command = "login" /\ logins \in 1 .. MaxLogins - 1 /\ \A x \in Sides : Ended(x)
    /\ command # "login" => password /\ totp
    /\ session' = [command |-> command, peer |-> peer, forwarded |-> forwarded,
                   password |-> password, totp |-> totp]
    /\ logins' = IF command = "login" THEN logins + 1 ELSE logins
    /\ todo' = [x \in Sides |->
                  IF x = "handler"
                  THEN Handle(IF command = "deauthenticate" THEN "agent" ELSE "server")
                  ELSE (IF forwarded THEN ForwardConnection ELSE <<>>)
                       \o Frame(command) \o DispatcherOf(command)]
    /\ status' = [x \in Sides |-> "run"]
    /\ toRead' = [x \in Sides |-> <<>>]
    /\ broken' = FALSE /\ proven' = {}
    /\ UNCHANGED <<onDisk, sessionFaults>>

Object(type, value) == [type |-> type, value |-> value]
Deliver(x, object) ==
    toRead' = IF Running(Other(x)) THEN [toRead EXCEPT ![Other(x)] = Append(@, object)]
              ELSE toRead

WriteObject(x) ==
    /\ ~broken
    /\ \/ Doing(x, "write") /\ Deliver(x, Object(Expected(x), "Ok"))
       \/ Doing(x, "header") /\ Deliver(x, Object("Header", Expected(x)))
    /\ GoOn(x, <<>>)
    /\ UNCHANGED <<session, broken, logins, proven, onDisk, sessionFaults>>

TotpUnchecked(type) ==
    CASE type = "AuthResult" -> {session.password}
      [] type = "TotpSuccess" -> {TRUE}
      [] type = "ForwardResult" -> {FALSE, Served("agent", "deauthenticate", "Server")}
      [] type = "SessionResult" -> {logins \in stored}
      [] OTHER -> BOOLEAN

\* What a handler may find: what the user typed, whether the target is connected
\* and lets the server deauthenticate, whether the session could be stored.
Outcomes(type) ==
    CASE type = "AuthResult" -> {session.password}
      [] type = "TotpSuccess" -> {session.totp}
      [] type = "ForwardResult" -> {FALSE, Served("agent", "deauthenticate", "Server")}
      [] type = "SessionResult" -> {logins \in stored}
      [] OTHER -> BOOLEAN

WriteAnswer(x) ==
    /\ Doing(x, "answer") /\ ~broken
    /\ \E ok \in Outcomes(Expected(x)) :
          /\ proven' = IF \/ Expected(x) = "AuthResult" /\ session.password
                          \/ Expected(x) = "TotpSuccess" /\ session.totp
                       THEN proven \cup {Expected(x)} ELSE proven
          /\ IF ok THEN Deliver(x, Object(Expected(x), "Ok")) /\ GoOn(x, <<>>)
             ELSE /\ toRead' = [[toRead EXCEPT ![x] = <<>>] EXCEPT ![Other(x)] =
                                  IF Running(Other(x)) THEN Append(@, Object(Expected(x), "Err"))
                                  ELSE @]
                  /\ End(x, "failed")
    /\ UNCHANGED <<session, broken, logins, onDisk, sessionFaults>>

ReadObject(x) ==
    /\ Doing(x, "read") \/ Doing(x, "await")
    /\ toRead[x] # <<>>
    /\ IF Doing(x, "await") /\ toRead[x][1].value = "Err"
         THEN End(x, "failed") /\ toRead' = Dropped(x)
         ELSE GoOn(x, <<>>) /\ toRead' = [toRead EXCEPT ![x] = Tail(@)]
    /\ UNCHANGED <<session, broken, logins, proven, onDisk, sessionFaults>>

\* Session::handle: an unknown command is declined, its request stays unread.
ReadHeader(x) ==
    /\ Doing(x, "handle") /\ toRead[x] # <<>>
    /\ LET command == toRead[x][1].value IN
       IF command \in Collections[Expected(x)]
       THEN /\ todo' = [todo EXCEPT ![x] =
                          <<[op |-> "request", type |-> Expected(x)],
                            [op |-> "command", type |-> command]>> \o Tail(@)]
            /\ toRead' = [toRead EXCEPT ![x] = Tail(@)]
            /\ UNCHANGED status
       ELSE /\ End(x, "failed")
            /\ toRead' = [y \in Sides |->
                            IF y # x /\ Running(y) /\ ~broken
                            THEN Append(toRead[y], Object("Response", "Err")) ELSE <<>>]
    /\ UNCHANGED <<session, broken, logins, proven, onDisk, sessionFaults>>

\* The peer of a session: the connection's, nobody after a deauthentication, the
\* certificate of the TLS client end to end.
PeerIn(collection) ==
    CASE collection = "public" -> "Anonymous"
      [] collection \in {"server", "agent", "endToEnd"} -> session.peer

\* handle_with_permission: the request is read before the permission is checked.
ReadRequest(x) ==
    /\ Doing(x, "request") /\ toRead[x] # <<>> /\ ~broken
    /\ LET command == todo[x][2].type
           ok == May(PeerIn(Expected(x)), PermissionOf(command))
           answer == Object("Response", IF ok THEN "Ok" ELSE "Err")
           unread == [toRead EXCEPT ![x] = IF ok THEN Tail(@) ELSE <<>>]
       IN /\ toRead' = IF Running(Other(x))
                       THEN [unread EXCEPT ![Other(x)] = Append(@, answer)] ELSE unread
          /\ IF ok THEN /\ todo' = [todo EXCEPT ![x] = HandlerOf(command) \o Tail(Tail(@))]
                        /\ UNCHANGED status
             ELSE End(x, "failed")
    /\ UNCHANGED <<session, broken, logins, proven, onDisk, sessionFaults>>

\* There is nothing to read and never will be, or nobody to write to.
SessionLost(x) ==
    /\ broken \/ Ended(Other(x))
    /\ \/ \E op \in {"read", "await", "handle", "request", "drain"} :
             Doing(x, op) /\ (toRead[x] = <<>> \/ (op = "request" /\ broken))
       \/ \E op \in {"write", "header", "answer", "stream"} : Doing(x, op)
    /\ End(x, "failed") /\ toRead' = Dropped(x)
    /\ UNCHANGED <<session, broken, logins, proven, onDisk, sessionFaults>>

CheckStep(x) ==
    /\ Doing(x, "check")
    /\ \/ GoOn(x, <<>>) /\ UNCHANGED toRead
       \/ End(x, "failed") /\ toRead' = Dropped(x)
    /\ UNCHANGED <<session, broken, logins, proven, onDisk, sessionFaults>>

FinishUnread(x) ==
    /\ Running(x) /\ todo[x] = <<>>
    /\ End(x, "done")
    /\ UNCHANGED <<session, toRead, broken, logins, proven, onDisk, sessionFaults>>

Finish(x) ==
    /\ Running(x) /\ todo[x] = <<>>
    /\ End(x, "done") /\ toRead' = Dropped(x)
    /\ UNCHANGED <<session, broken, logins, proven, onDisk, sessionFaults>>

-----------------------------------------------------------------------------
(* Steps of the login.                                                     *)

\* SessionStore::add_session, after the checks of the certificate's chain; a
\* failure of either is answered.
AddSession ==
    /\ Doing("handler", "store")
    /\ stored' \in {stored, stored \cup {logins}}
    /\ GoOn("handler", <<>>)
    /\ UNCHANGED <<session, toRead, broken, logins, proven, profile, profileDir, sessionFaults>>

\* The name has the port's colon, the directory a plus in its place.
ProfileName == [name |-> "profile", separator |-> ":"]
ProfileDir(profileName) == [profileName EXCEPT !.separator = "+"]

ListProfiles ==
    /\ Doing("dispatcher", "list_profiles")
    /\ IF ProfileName \in profileDir
         THEN End("dispatcher", "failed") /\ toRead' = Dropped("dispatcher")
         ELSE GoOn("dispatcher", <<>>) /\ UNCHANGED toRead
    /\ UNCHANGED <<session, broken, logins, proven, onDisk, sessionFaults>>

SaveProfile ==
    /\ Doing("dispatcher", "save_profile")
    /\ profileDir' = profileDir \cup {ProfileDir(ProfileName)}
    /\ profile' = [profile EXCEPT !.credential = logins]
    /\ GoOn("dispatcher", <<>>)
    /\ UNCHANGED <<session, toRead, broken, logins, proven, stored, sessionFaults>>

SaveTrustStore ==
    /\ Doing("dispatcher", "save_trust")
    /\ profile' = [profile EXCEPT !.trust = logins]
    /\ GoOn("dispatcher", <<>>)
    /\ UNCHANGED <<session, toRead, broken, logins, proven, stored, profileDir, sessionFaults>>

RemoveProfile ==
    /\ \A x \in Sides : ~Running(x)
    /\ profileDir # {}
    /\ profileDir' = {} /\ profile' = [credential |-> NoLogin, trust |-> NoLogin]
    /\ UNCHANGED <<session, todo, status, toRead, broken, logins, proven, stored, sessionFaults>>

-----------------------------------------------------------------------------
(* Endless commands.                                                       *)

\* A status every two seconds; one that is not read yet is enough for the model.
StreamStatus(x) ==
    /\ Doing(x, "stream") /\ ~broken /\ Running(Other(x)) /\ toRead[Other(x)] = <<>>
    /\ Deliver(x, Object("RealtimeStatus", "Ok"))
    /\ UNCHANGED <<session, todo, status, broken, logins, proven, onDisk, sessionFaults>>

DrainStatus(x) ==
    /\ Doing(x, "drain") /\ toRead[x] # <<>>
    /\ toRead' = [toRead EXCEPT ![x] = Tail(@)]
    /\ UNCHANGED <<session, todo, status, broken, logins, proven, onDisk, sessionFaults>>

\* Copying ends when the other side has ended or the connection is lost: the
\* local end of the tunnel closes once it is told so.
CopyEnds(x) ==
    /\ Doing(x, "copy") /\ (broken \/ Ended(Other(x)))
    /\ GoOn(x, <<>>)
    /\ UNCHANGED <<session, toRead, broken, logins, proven, onDisk, sessionFaults>>

\* A stream is cancelled, a tunnel or its local end is closed.
Cancel(x) ==
    /\ Doing(x, "stream") \/ Doing(x, "drain") \/ Doing(x, "copy")
    /\ GoOn(x, <<>>)
    /\ UNCHANGED <<session, toRead, broken, logins, proven, onDisk, sessionFaults>>

-----------------------------------------------------------------------------
(* Faults.                                                                 *)

\* The connection or the relay fails: of what is on its way only a part arrives.
Break ==
    /\ ~broken /\ \E x \in Sides : Running(x)
    /\ sessionFaults < MaxBreaks /\ sessionFaults' = sessionFaults + 1
    /\ broken' = TRUE
    /\ \E n \in 0 .. Len(toRead["handler"]), k \in 0 .. Len(toRead["dispatcher"]) :
          toRead' = [x \in Sides |-> SubSeq(toRead[x], 1, IF x = "handler" THEN n ELSE k)]
    /\ UNCHANGED <<session, todo, status, logins, proven, onDisk>>

\* The client is killed: it stops wherever it is.
KillClient ==
    /\ Running("dispatcher") /\ session.command = "login"
    /\ sessionFaults < MaxBreaks /\ sessionFaults' = sessionFaults + 1
    /\ End("dispatcher", "failed") /\ toRead' = Dropped("dispatcher")
    /\ UNCHANGED <<session, broken, logins, proven, onDisk>>

-----------------------------------------------------------------------------
LoginStep == AddSession \/ ListProfiles \/ SaveProfile \/ SaveTrustStore

SideStep(x) ==
    \/ WriteObject(x) \/ WriteAnswer(x) \/ ReadObject(x) \/ ReadHeader(x) \/ ReadRequest(x)
    \/ SessionLost(x) \/ CheckStep(x) \/ Finish(x)
    \/ StreamStatus(x) \/ DrainStatus(x) \/ CopyEnds(x)

Next ==
    \/ \E command \in Commands, peer \in Peers, forwarded, password, totp \in BOOLEAN :
          Dispatch(command, peer, forwarded, password, totp)
    \/ LoginStep \/ RemoveProfile
    \/ \E x \in Sides : SideStep(x) \/ Cancel(x)
    \/ Break \/ KillClient

\* Both sides are tasks that run on; a stream is cancelled and a session broken
\* at nobody's promise.
Fairness == WF_vars(LoginStep) /\ \A x \in Sides : WF_vars(SideStep(x))

Spec == Init /\ [][Next]_vars /\ Fairness

-----------------------------------------------------------------------------
\* Whoever reads, reads what the other side has written: both scripts of every
\* command, frames and nested sessions included, name the same objects in the
\* same order, also when a login is refused or a session is declined half way.
ReadsMatch ==
    \A x \in Sides :
        /\ (Doing(x, "read") \/ Doing(x, "await") \/ Doing(x, "drain")) /\ toRead[x] # <<>>
           => toRead[x][1].type = Expected(x)
        /\ Doing(x, "handle") /\ toRead[x] # <<>> => toRead[x][1].type = "Header"
        /\ Doing(x, "request") /\ toRead[x] # <<>> => toRead[x][1].type = "Request"

\* The sessions the program itself opens, by command, peer and whether they go
\* through the server to an agent.
Uses ==
    {<<"public_status", "Anonymous", FALSE>>, <<"login", "Anonymous", FALSE>>,
     <<"request_join", "Anonymous", FALSE>>, <<"deauthenticate", "Server", FALSE>>}
    \cup ({"ping", "get_user_credential", "update_trust_store", "client_messages",
           "client_sender", "update_user_mls", "accept_join", "load_certificate_chain",
           "get_key_packages", "forward"} \X {"RootSession"} \X {FALSE})
    \cup ({"agent_messages", "agent_sender", "update_trust_store", "load_certificate_chain",
           "get_key_packages"} \X {"Agent"} \X {FALSE})
    \cup ({"ping", "request_system_report", "update_agent", "tcp_forward"}
          \X {"RootSession"} \X {TRUE})

\* No session the program opens is declined: what it asks for is in the
\* collection it reaches, and its peer there may use it.
UsesAreServed ==
    <<session.command, session.peer, session.forwarded>> \in Uses =>
        \A x \in Sides : \A i \in DOMAIN toRead[x] :
            ~(toRead[x][i].type = "Response" /\ toRead[x][i].value = "Err")

\* Sessions enter the server's table only when the one who sent the certificate
\* has proven the password and then the TOTP in the very same session.
SessionsAreProven ==
    [][stored' # stored => proven = {"AuthResult", "TotpSuccess"}]_vars

\* A profile on disk is of use: the server knows its session, and its trust
\* store is of the same login unless the client is still at it or was stopped.
ProfileIsUsable ==
    /\ profile.credential # NoLogin => profile.credential \in stored
    /\ profile.trust # profile.credential => Running("dispatcher") \/ sessionFaults > 0

Endless == {"stream", "drain", "copy"}

\* No two sides wait for each other: a session comes to its end, or to a stream
\* or tunnel that is meant to stay open, and that one ends once a side leaves it.
SessionsEnd ==
    /\ \A x \in Sides : Running(x) ~> Ended(x) \/ (\E op \in Endless : Doing(x, op))
    /\ \A x \in Sides : (Running(Other(x)) /\ Ended(x)) ~> ~Running(Other(x))
================================================================================

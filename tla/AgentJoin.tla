------------------------------- MODULE AgentJoin -------------------------------
(***************************************************************************)
(* How a new agent joins.  "agent init" on the device asks the server for  *)
(* a join code and shows it with a confirm code of its own                 *)
(* (request_handler.rs, agent/init.rs).  The user types the join code into *)
(* a client's dialog (add_device.rs); the server looks the waiting session *)
(* up and patches the two together (join_agent.rs, accept_handler.rs).     *)
(* With the confirm code both ends agree on a key (aucpace_transport.rs);  *)
(* the client makes a certificate, enters it into the trust store and      *)
(* tells the agent, which saves its configuration (agent.rs).              *)
(*                                                                         *)
(* An agent stands for one "agent init", a dialog for one AddDevice value  *)
(* with the accept_join session it starts.  The messages of a dialog's     *)
(* tasks reach whichever dialog is open when they arrive.                  *)
(*                                                                         *)
(* Join codes are drawn at random and may collide; two agents never show   *)
(* the same confirm code.  Entering the certificate into the trust store   *)
(* is one step here and TrustSync's subject.                               *)
(***************************************************************************)
EXTENDS Naturals, Sequences, FiniteSets

CONSTANTS
    MaxAgents,     \* runs of "agent init" (bound)
    Clients,       \* clients of the root user
    MaxDialogs,    \* dialogs that can ever be opened (bound)
    Codes,         \* join codes
    MaxArrivals    \* agents that start and dialogs that are opened, together (bound)

ASSUME JoinAssumption ==
    /\ {MaxAgents, MaxDialogs, MaxArrivals} \subseteq Nat
    /\ 0 \notin Codes \cup Clients

\* Both are numbered in the order in which they come.
Agents == 1 .. MaxAgents
Dialogs == 1 .. MaxDialogs
None == 0

VARIABLES
    agent,       \* [Agents -> RequestJoin::dispatch and init_with]
    shown,       \* [Agents -> join code on its screen]
    mail,        \* [Agents -> join codes written to its session, unread]
    request,     \* [Agents -> the server's side of its session]
    code,        \* [Agents -> join code of that side]
    timer,       \* [Agents -> the five minute task of its session]
    sessionMap,  \* session_map: [Codes -> waiting agent]
    accept,      \* [Dialogs -> AcceptJoin::dispatch]
    screen,      \* [Dialogs -> Screen of the dialog]
    sender,      \* [Dialogs -> dialog whose confirm_sender it holds]
    home,        \* [Dialogs -> client it belongs to]
    open,        \* [Clients -> dialog on its screen]
    inbox,       \* [Clients -> messages its tasks have produced]
    recorded     \* agents whose certificate is in the trust store

serverVars == <<request, code, timer, sessionMap>>
dialogVars == <<screen, sender, home, open, inbox>>
vars == <<agent, shown, mail, request, code, timer, sessionMap, accept, screen, sender,
          home, open, inbox, recorded>>

AcceptPhases == {"off", "lookup", "found", "confirm", "handshake", "adding", "added",
                 "done", "failed", "aborted"}
\* wants: the agent at which the user stands; asked: the server has yet to look
\* the code up; peer: whose session it was patched to; typed: whose confirm code
\* the user has typed, if any; sent: what was written to the agent last.
NoAccept == [phase |-> "off", wants |-> None, asked |-> FALSE, peer |-> None,
             typed |-> None, sent |-> "nothing"]

\* The type of every variable; the agent's session holds at most two codes.
TypeOK ==
    /\ agent \in [Agents -> {"off", "request", "shown", "secured", "certified", "told",
                             "configured", "done", "failed"}]
    /\ shown \in [Agents -> Codes \cup {None}]
    /\ mail \in [Agents -> Seq(Codes)]
    /\ \A a \in Agents : Len(mail[a]) <= 2
    /\ request \in [Agents -> {"off", "write", "insert", "waiting", "joined", "closed"}]
    /\ code \in [Agents -> Codes \cup {None}]
    /\ timer \in [Agents -> {"off", "set", "due"}]
    /\ sessionMap \in [Codes -> Agents \cup {None}]
    /\ accept \in [Dialogs -> [phase : AcceptPhases, wants : Agents \cup {None}, asked : BOOLEAN,
                               peer : Agents \cup {None},
                               typed : Agents \cup {None},
                               sent : {"nothing", "certificates", "ok", "err"}]]
    /\ screen \in [Dialogs -> {"off", "code", "loading", "confirm", "adding", "error", "closed"}]
    /\ sender \in [Dialogs -> Dialogs \cup {None}]
    /\ home \in [Dialogs -> Clients \cup {None}]
    /\ open \in [Clients -> Dialogs \cup {None}]
    /\ inbox \in [Clients -> SUBSET (Dialogs \X {"confirm", "error", "dropped", "done"})]
    /\ recorded \subseteq Agents

Init ==
    /\ agent = [a \in Agents |-> "off"]
    /\ shown = [a \in Agents |-> None]
    /\ mail = [a \in Agents |-> <<>>]
    /\ request = [a \in Agents |-> "off"]
    /\ code = [a \in Agents |-> None]
    /\ timer = [a \in Agents |-> "off"]
    /\ sessionMap = [k \in Codes |-> None]
    /\ accept = [d \in Dialogs |-> NoAccept]
    /\ screen = [d \in Dialogs |-> "off"]
    /\ sender = [d \in Dialogs |-> None]
    /\ home = [d \in Dialogs |-> None]
    /\ open = [c \in Clients |-> None]
    /\ inbox = [c \in Clients |-> {}]
    /\ recorded = {}

\* Bound: what has arrived so far.
MayArrive ==
    MaxArrivals > Cardinality({a \in Agents : agent[a] # "off"})
                + Cardinality({d \in Dialogs : screen[d] # "off"})

\* A task of the dialog d produces messages.
Post(d, kinds) == [inbox EXCEPT ![home[d]] = @ \cup ({d} \X kinds)]

-----------------------------------------------------------------------------
(* The server: JoinRequestHandler and ServerJoinManager *)

Ended(a) == agent[a] \in {"done", "failed"}

\* As if every code stayed in the session for ever.
WriteCodeUnread(a) ==
    /\ request[a] = "write"
    /\ \E k \in Codes :
          /\ code' = [code EXCEPT ![a] = k]
          /\ mail' = [mail EXCEPT ![a] = Append(@, k)]
    /\ request' = [request EXCEPT ![a] = "insert"]
    /\ UNCHANGED <<agent, shown, timer, sessionMap, accept, dialogVars, recorded>>

\* A code is drawn and written to the agent.  The write to an agent that is gone
\* fails, and the task with it, or is not noticed yet; of the codes it does not
\* read in time the first two are enough.
WriteCode(a) ==
    /\ request[a] = "write"
    /\ \/ /\ \E k \in Codes :
                /\ code' = [code EXCEPT ![a] = k]
                /\ mail' = IF Ended(a) \/ Len(mail[a]) = 2 THEN mail
                            ELSE [mail EXCEPT ![a] = Append(@, k)]
          /\ request' = [request EXCEPT ![a] = "insert"]
       \/ /\ Ended(a)
          /\ request' = [request EXCEPT ![a] = "closed"]
          /\ UNCHANGED <<code, mail>>
    /\ UNCHANGED <<agent, shown, timer, sessionMap, accept, dialogVars, recorded>>

\* Only now a collision is noticed; the handler sleeps and draws another code.
Insert(a) ==
    /\ request[a] = "insert"
    /\ \/ /\ sessionMap[code[a]] # None
          /\ request' = [request EXCEPT ![a] = "write"]
          /\ UNCHANGED <<timer, sessionMap>>
       \/ /\ sessionMap[code[a]] = None
          /\ sessionMap' = [sessionMap EXCEPT ![code[a]] = a]
          /\ timer' = [timer EXCEPT ![a] = "set"]
          /\ request' = [request EXCEPT ![a] = "waiting"]
    /\ UNCHANGED <<agent, shown, mail, code, accept, dialogVars, recorded>>

\* The sleep of the timer is over: from here on it cannot be aborted.
TimerDue(a) ==
    /\ timer[a] = "set"
    /\ timer' = [timer EXCEPT ![a] = "due"]
    /\ UNCHANGED <<agent, shown, mail, request, code, sessionMap, accept, dialogVars, recorded>>

\* As if the timer did not remove the session.
TimeoutKeeps(a) ==
    /\ timer[a] = "due"
    /\ timer' = [timer EXCEPT ![a] = "off"]
    /\ UNCHANGED <<agent, shown, mail, request, code, sessionMap, accept, dialogVars, recorded>>

\* It removes, and drops, the session that waits under its code.
Timeout(a) ==
    /\ timer[a] = "due"
    /\ timer' = [timer EXCEPT ![a] = "off"]
    /\ sessionMap' = [sessionMap EXCEPT ![code[a]] = None]
    /\ request' = [b \in Agents |-> IF b = sessionMap[code[a]] THEN "closed" ELSE request[b]]
    /\ UNCHANGED <<agent, shown, mail, code, accept, dialogVars, recorded>>

\* JoinAcceptHandler::handle looks the code up, though the client may be gone by
\* then, takes the session out and aborts its timer if that still sleeps.
TakeSession(d) ==
    LET k == shown[accept[d].wants]
        a == sessionMap[k]
        waits == accept[d].phase = "lookup" IN
    /\ accept[d].asked
    /\ \/ /\ a = None
          /\ accept' = [accept EXCEPT ![d].asked = FALSE,
                                      ![d].phase = IF waits THEN "failed" ELSE @]
          /\ inbox' = IF waits THEN Post(d, {"error", "dropped"}) ELSE inbox
          /\ UNCHANGED <<sessionMap, timer, request>>
       \/ /\ a # None
          /\ sessionMap' = [sessionMap EXCEPT ![k] = None]
          /\ timer' = [timer EXCEPT ![a] = IF @ = "due" THEN @ ELSE "off"]
          /\ request' = [request EXCEPT ![a] = "joined"]
          /\ accept' = [accept EXCEPT ![d].asked = FALSE, ![d].peer = a,
                                      ![d].phase = IF waits THEN "found" ELSE @]
          /\ UNCHANGED inbox
    /\ UNCHANGED <<agent, shown, mail, code, screen, sender, home, open, recorded>>

Over(d) == accept[d].phase \in {"done", "failed", "aborted"}

\* The two sessions that were patched together end together.
CopyEnds(a) ==
    /\ request[a] = "joined"
    /\ Ended(a) \/ \A d \in Dialogs : accept[d].peer = a => Over(d)
    /\ request' = [request EXCEPT ![a] = "closed"]
    /\ UNCHANGED <<agent, shown, mail, code, timer, sessionMap, accept, dialogVars, recorded>>

\* One of the connections is lost, or the server shuts down.
LinkLost(a) ==
    /\ request[a] = "joined"
    /\ request' = [request EXCEPT ![a] = "closed"]
    /\ UNCHANGED <<agent, shown, mail, code, timer, sessionMap, accept, dialogVars, recorded>>

-----------------------------------------------------------------------------
(* The agent *)

agentFrame == <<serverVars, accept, dialogVars, recorded>>

\* "agent init" connects and dispatches RequestJoin.
Start(a) ==
    /\ MayArrive /\ agent[a] = "off" /\ \A b \in 1 .. a - 1 : agent[b] # "off"
    /\ agent' = [agent EXCEPT ![a] = "request"]
    /\ request' = [request EXCEPT ![a] = "write"]
    /\ UNCHANGED <<shown, mail, code, timer, sessionMap, accept, dialogVars, recorded>>

\* It shows the join code and its own confirm code and waits for a client.
ReadCode(a) ==
    /\ agent[a] = "request" /\ mail[a] # <<>>
    /\ agent' = [agent EXCEPT ![a] = "shown"]
    /\ shown' = [shown EXCEPT ![a] = Head(mail[a])]
    /\ mail' = [mail EXCEPT ![a] = Tail(@)]
    /\ UNCHANGED agentFrame

\* A second code is not what AucPaceTransport::server expects.
ReadSecondCode(a) ==
    /\ agent[a] = "shown" /\ mail[a] # <<>>
    /\ agent' = [agent EXCEPT ![a] = "failed"]
    /\ mail' = [mail EXCEPT ![a] = <<>>]
    /\ UNCHANGED <<shown, agentFrame>>

\* As if any confirm code were good enough.
HandshakeUnchecked(a) ==
    /\ agent[a] = "shown" /\ mail[a] = <<>> /\ request[a] = "joined"
    /\ \E d \in Dialogs : accept[d].peer = a /\ accept[d].phase = "handshake"
    /\ agent' = [agent EXCEPT ![a] = "secured"]
    /\ UNCHANGED <<shown, mail, agentFrame>>

\* The agent has checked the client's authenticator.
Handshake(a) ==
    /\ agent[a] = "shown" /\ mail[a] = <<>> /\ request[a] = "joined"
    /\ \E d \in Dialogs :
          /\ accept[d].peer = a /\ accept[d].phase = "handshake"
          /\ agent' = [agent EXCEPT ![a] = IF accept[d].typed = a THEN "secured" ELSE "failed"]
    /\ UNCHANGED <<shown, mail, agentFrame>>

\* What the client has written to the agent so far.
Sent(a) == {accept[d].sent : d \in {e \in Dialogs : accept[e].peer = a}}

ReadCertificates(a) ==
    /\ agent[a] = "secured" /\ Sent(a) \cap {"certificates", "ok", "err"} # {}
    /\ agent' = [agent EXCEPT ![a] = "certified"]
    /\ UNCHANGED <<shown, mail, agentFrame>>

ReadResult(a) ==
    /\ agent[a] = "certified"
    /\ \/ "ok" \in Sent(a) /\ agent' = [agent EXCEPT ![a] = "told"]
       \/ "err" \in Sent(a) /\ agent' = [agent EXCEPT ![a] = "failed"]
    /\ UNCHANGED <<shown, mail, agentFrame>>

\* init_with: the configuration, then the trust store.
SaveConfig(a) ==
    /\ agent[a] = "told"
    /\ agent' = [agent EXCEPT ![a] = "configured"]
    /\ UNCHANGED <<shown, mail, agentFrame>>

SaveTrustStore(a) ==
    /\ agent[a] = "configured"
    /\ agent' = [agent EXCEPT ![a] = "done"]
    /\ UNCHANGED <<shown, mail, agentFrame>>

\* Its session has ended: there may be nothing left to read.
AgentFails(a) ==
    /\ agent[a] \in {"request", "shown", "secured", "certified"} /\ request[a] = "closed"
    /\ agent' = [agent EXCEPT ![a] = "failed"]
    /\ mail' = [mail EXCEPT ![a] = <<>>]
    /\ UNCHANGED <<shown, agentFrame>>

\* It is stopped, or cannot save.
AgentStops(a) ==
    /\ agent[a] # "off" /\ ~Ended(a)
    /\ agent' = [agent EXCEPT ![a] = "failed"]
    /\ mail' = [mail EXCEPT ![a] = <<>>]
    /\ UNCHANGED <<shown, agentFrame>>

-----------------------------------------------------------------------------
(* The client: AcceptJoin and the dialog *)

acceptFrame == <<agent, shown, mail, serverVars, screen, sender, home, open>>

\* The user has the dialog opened.
Open(d, c) ==
    /\ MayArrive /\ screen[d] = "off" /\ \A e \in 1 .. d - 1 : screen[e] # "off"
    /\ open[c] = None
    /\ home' = [home EXCEPT ![d] = c]
    /\ open' = [open EXCEPT ![c] = d]
    /\ screen' = [screen EXCEPT ![d] = "code"]
    /\ UNCHANGED <<agent, shown, mail, serverVars, accept, sender, inbox, recorded>>

\* The user, in front of the agent a, types the join code it shows.
ConnectToDevice(d, a) ==
    /\ screen[d] = "code" /\ shown[a] # None
    /\ screen' = [screen EXCEPT ![d] = "loading"]
    /\ accept' = [accept EXCEPT ![d] = [NoAccept EXCEPT !.phase = "lookup", !.wants = a,
                                                       !.asked = TRUE]]
    /\ UNCHANGED <<agent, shown, mail, serverVars, sender, home, open, inbox, recorded>>

\* The server has found an agent: the dialog is given the way to confirm.
AskForConfirm(d) ==
    /\ accept[d].phase = "found"
    /\ accept' = [accept EXCEPT ![d].phase = "confirm"]
    /\ inbox' = Post(d, {"confirm"})
    /\ UNCHANGED <<acceptFrame, recorded>>

\* As if the agent were told before the server has answered.
EnrollAnswering(d) ==
    /\ accept[d].phase = "handshake" /\ agent[accept[d].peer] = "secured"
    /\ request[accept[d].peer] = "joined"
    /\ accept' = [accept EXCEPT ![d].phase = "adding", ![d].typed = None,
                                ![d].sent = "ok"]
    /\ UNCHANGED <<acceptFrame, inbox, recorded>>

\* The agent has answered: its certificate is made and sent with the others.
Enroll(d) ==
    /\ accept[d].phase = "handshake" /\ agent[accept[d].peer] = "secured"
    /\ request[accept[d].peer] = "joined"
    /\ accept' = [accept EXCEPT ![d].phase = "adding", ![d].typed = None,
                                ![d].sent = "certificates"]
    /\ UNCHANGED <<acceptFrame, inbox, recorded>>

\* add_cert_to_trust_store; it may fail before or after the server has the block.
AddToTrustStore(d) ==
    /\ accept[d].phase = "adding"
    /\ \/ /\ accept' = [accept EXCEPT ![d].phase = "added"]
          /\ recorded' = recorded \cup {accept[d].peer}
          /\ UNCHANGED inbox
       \/ /\ accept' = [accept EXCEPT ![d].phase = "failed", ![d].sent = "err"]
          /\ recorded' \in {recorded, recorded \cup {accept[d].peer}}
          /\ inbox' = Post(d, {"error"})
    /\ UNCHANGED acceptFrame

SendResult(d) ==
    /\ accept[d].phase = "added"
    /\ \/ /\ request[accept[d].peer] = "joined"
          /\ accept' = [accept EXCEPT ![d].phase = "done", ![d].sent = "ok"]
          /\ inbox' = Post(d, {"done"})
       \/ /\ request[accept[d].peer] = "closed"
          /\ accept' = [accept EXCEPT ![d].phase = "failed"]
          /\ inbox' = Post(d, {"error"})
    /\ UNCHANGED <<acceptFrame, recorded>>

\* As if the error of the handshake were only logged.
AcceptFailsSilently(d) ==
    /\ accept[d].phase = "handshake"
    /\ request[accept[d].peer] = "closed" \/ agent[accept[d].peer] = "failed"
    /\ accept' = [accept EXCEPT ![d].phase = "failed"]
    /\ UNCHANGED <<acceptFrame, inbox, recorded>>

\* The handshake comes to nothing.
AcceptFails(d) ==
    /\ accept[d].phase = "handshake"
    /\ request[accept[d].peer] = "closed" \/ agent[accept[d].peer] = "failed"
    /\ accept' = [accept EXCEPT ![d].phase = "failed"]
    /\ inbox' = Post(d, {"error"})
    /\ UNCHANGED <<acceptFrame, recorded>>

\* The connection to the server is lost before it has answered.
AcceptLost(d) ==
    /\ accept[d].phase = "lookup"
    /\ accept' = [accept EXCEPT ![d].phase = "failed"]
    /\ inbox' = Post(d, {"error", "dropped"})
    /\ UNCHANGED <<acceptFrame, recorded>>

\* The dialog d goes, and its add task with it.  That drops the channel the
\* second task waits for, whose message is not held back.  A block that is on its
\* way to the server may still be recorded.
Abort(d) ==
    /\ recorded' \in {recorded} \cup
          (IF accept[d].phase = "adding" THEN {recorded \cup {accept[d].peer}} ELSE {})
    /\ accept' = [accept EXCEPT ![d].phase =
                      IF @ \in {"off", "done", "failed"} THEN @ ELSE "aborted"]
    /\ screen' = [screen EXCEPT ![d] = "closed"]
    /\ sender' = [sender EXCEPT ![d] = None]
    /\ open' = [open EXCEPT ![home[d]] = None]

Dropped(d) == IF accept[d].phase \in {"lookup", "found"} THEN {<<d, "dropped">>} ELSE {}

Cancel(d) ==
    /\ home[d] # None /\ open[home[d]] = d
    /\ Abort(d)
    /\ inbox' = [inbox EXCEPT ![home[d]] = @ \cup Dropped(d)]
    /\ UNCHANGED <<agent, shown, mail, serverVars, home>>

\* The user types the confirm code of the agent in front of them, or a wrong one.
Confirm(d) ==
    LET e == sender[d] IN
    /\ screen[d] = "confirm" /\ e # None
    /\ sender' = [sender EXCEPT ![d] = None]
    /\ \/ /\ accept[e].phase = "confirm"
          /\ \E t \in {accept[d].wants, None} :
                accept' = [accept EXCEPT ![e].phase = "handshake", ![e].typed = t]
          /\ screen' = [screen EXCEPT ![d] = "adding"]
       \/ /\ accept[e].phase # "confirm"
          /\ screen' = [screen EXCEPT ![d] = "error"]
          /\ UNCHANGED accept
    /\ UNCHANGED <<agent, shown, mail, serverVars, home, open, inbox, recorded>>

\* A message finds no dialog.
Ignore(c) ==
    /\ open[c] = None
    /\ \E msg \in inbox[c] : inbox' = [inbox EXCEPT ![c] = @ \ {msg}]
    /\ UNCHANGED <<acceptFrame, accept, recorded>>

\* WaitForConfirm: the open dialog takes the sender; one it held is dropped, which
\* ends the accept that waits for it.
ReceiveConfirm(c) ==
    LET d == open[c]
        held == IF d = None THEN None ELSE sender[d]
        ends == held # None /\ accept[held].phase = "confirm" IN
    /\ d # None
    /\ \E msg \in inbox[c] :
          /\ msg[2] = "confirm"
          /\ sender' = [sender EXCEPT ![d] = msg[1]]
          /\ screen' = [screen EXCEPT ![d] = "confirm"]
          /\ accept' = IF ends THEN [accept EXCEPT ![held].phase = "failed"] ELSE accept
          /\ inbox' = [inbox EXCEPT ![c] = (@ \ {msg})
                          \cup (IF ends THEN {<<held, "error">>} ELSE {})]
    /\ UNCHANGED <<agent, shown, mail, serverVars, home, open, recorded>>

\* Error
ReceiveError(c) ==
    /\ open[c] # None
    /\ \E msg \in inbox[c] :
          /\ msg[2] \in {"error", "dropped"}
          /\ inbox' = [inbox EXCEPT ![c] = @ \ {msg}]
    /\ screen' = [screen EXCEPT ![open[c]] = "error"]
    /\ UNCHANGED <<agent, shown, mail, serverVars, accept, sender, home, open, recorded>>

\* Done: the main view leaves whatever dialog is open.
ReceiveDone(c) ==
    /\ open[c] # None
    /\ \E msg \in inbox[c] :
          /\ msg[2] = "done"
          /\ inbox' = [inbox EXCEPT ![c] = (@ \ {msg}) \cup Dropped(open[c])]
    /\ Abort(open[c])
    /\ UNCHANGED <<agent, shown, mail, serverVars, home>>

-----------------------------------------------------------------------------
ServerStep(a) == WriteCode(a) \/ Insert(a) \/ TimerDue(a) \/ Timeout(a) \/ CopyEnds(a)
AgentStep(a) ==
    \/ ReadCode(a) \/ ReadSecondCode(a) \/ Handshake(a) \/ ReadCertificates(a)
    \/ ReadResult(a) \/ SaveConfig(a) \/ SaveTrustStore(a) \/ AgentFails(a)
AcceptStep(d) ==
    \/ TakeSession(d) \/ AskForConfirm(d) \/ Enroll(d) \/ AddToTrustStore(d)
    \/ SendResult(d) \/ AcceptFails(d)
Receive(c) == Ignore(c) \/ ReceiveConfirm(c) \/ ReceiveError(c) \/ ReceiveDone(c)

Next ==
    \/ \E a \in Agents : Start(a) \/ AgentStops(a) \/ LinkLost(a) \/ ServerStep(a) \/ AgentStep(a)
    \/ \E d \in Dialogs :
          \/ \E c \in Clients : Open(d, c)
          \/ \E a \in Agents : ConnectToDevice(d, a)
          \/ Confirm(d) \/ Cancel(d) \/ AcceptLost(d) \/ AcceptStep(d)
    \/ \E c \in Clients : Receive(c)

Spec == Init /\ [][Next]_vars

(***************************************************************************)
(* Fairness: tasks that can run are polled, the server's timers elapse,    *)
(* add_cert_to_trust_store ends (TrustSync's AddEnds), and the interface   *)
(* works off its messages.  Nothing makes a user type, confirm or cancel.  *)
(***************************************************************************)
FairSpec ==
    /\ Spec
    /\ \A a \in Agents : WF_vars(ServerStep(a)) /\ WF_vars(AgentStep(a))
    /\ \A d \in Dialogs : WF_vars(AcceptStep(d))
    /\ \A c \in Clients : WF_vars(Receive(c))

-----------------------------------------------------------------------------
(* Properties *)

\* A client gives a certificate only to the agent its user stands at: neither
\* colliding join codes nor messages that reach another dialog than the one
\* they were meant for lead it to another one.
EnrolledIsWanted ==
    \A d \in Dialogs : accept[d].sent # "nothing" => accept[d].peer = accept[d].wants

\* An agent that goes on to save its configuration is in the trust store.
ToldIsRecorded ==
    \A a \in Agents : agent[a] \in {"told", "configured", "done"} => a \in recorded

\* A session waits under one code only, and as long as it waits it can be found:
\* by the client, and by the timer that ends the wait.
WaitingIsFound ==
    \A a \in Agents :
        request[a] = "waiting" => sessionMap[code[a]] = a /\ timer[a] # "off"

\* An agent that has asked to join comes to an end, unless it waits for a user
\* who was asked for its confirm code.
AgentEnds ==
    \A a \in Agents :
        agent[a] # "off" ~>
            Ended(a) \/ \E d \in Dialogs : accept[d].peer = a /\ accept[d].phase = "confirm"

\* A dialog does not load for ever, whatever becomes of the agent.
DialogAnswers ==
    \A d \in Dialogs : screen[d] \in {"loading", "adding"} ~> screen[d] \notin {"loading", "adding"}

\* Every attempt to join comes to an end for the agent and for the user's dialog.
JoinsEnd == AgentEnds /\ DialogAnswers
=============================================================================

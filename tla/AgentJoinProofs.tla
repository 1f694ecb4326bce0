---------------------------- MODULE AgentJoinProofs ----------------------------
(***************************************************************************)
(* What AgentJoin promises, for any number of agents, clients and dialogs  *)
(* and any set of join codes: a certificate goes only to the agent the     *)
(* user stands at (EnrolledIsWanted), an agent that was told it is in is   *)
(* in the trust store (ToldIsRecorded), and a session that waits can be    *)
(* found (WaitingIsFound).                                                 *)
(*                                                                         *)
(* A session is taken out of session_map once (MapInv), so no agent is     *)
(* patched to two clients (PeerInv); a message that reaches another dialog *)
(* than the one it was meant for comes from an accept_join that was        *)
(* aborted with its dialog (DialogInv, ClientInv), so a confirm code goes  *)
(* to the accept_join of the dialog it was typed into (AcceptInv).         *)
(***************************************************************************)
EXTENDS AgentJoin, TLAPS

Live == {"lookup", "found", "confirm", "handshake", "adding", "added"}
Secure == {"secured", "certified", "told", "configured", "done"}

\* The dialog is on its client's screen.
Alive(d) == home[d] # None /\ open[home[d]] = d

\* The server's side of an agent's session.
SessionInv(a) ==
    /\ agent[a] = "off" => request[a] = "off"
    /\ request[a] = "waiting" => sessionMap[code[a]] = a /\ timer[a] # "off"
    /\ request[a] \in {"insert", "waiting"} \/ timer[a] # "off" => code[a] \in Codes
    /\ agent[a] \in Secure => request[a] \in {"joined", "closed"}

\* session_map holds sessions that wait.
MapInv ==
    \A k \in Codes : sessionMap[k] # None =>
        request[sessionMap[k]] = "waiting" /\ code[sessionMap[k]] = k

\* What an accept_join knows of its agent.
AcceptInv(d) ==
    /\ screen[d] \in {"off", "code"} => accept[d] = NoAccept
    /\ accept[d].typed # None => accept[d].typed = accept[d].wants
    /\ accept[d].asked => /\ accept[d].peer = None /\ accept[d].wants # None
                          /\ shown[accept[d].wants] # None
    /\ accept[d].peer # None =>
          /\ request[accept[d].peer] \in {"joined", "closed"}
          /\ agent[accept[d].peer] \in Secure => accept[d].wants = accept[d].peer
    /\ accept[d].phase \in Live \ {"lookup"} => accept[d].peer # None
    /\ accept[d].phase \in {"adding", "added"} => accept[d].sent # "nothing"
    /\ accept[d].sent # "nothing" => accept[d].peer # None /\ accept[d].peer = accept[d].wants
    /\ accept[d].phase = "added" \/ accept[d].sent = "ok" => accept[d].peer \in recorded

\* No session is patched to two clients.
PeerInv ==
    \A d, e \in Dialogs : accept[d].peer = accept[e].peer /\ accept[d].peer # None => d = e

\* Whatever goes on belongs to the dialog on the screen.
DialogInv(d) ==
    /\ accept[d].phase \in Live \/ screen[d] = "code" => Alive(d)
    /\ sender[d] # None => Alive(d) /\ home[sender[d]] = home[d]
    /\ screen[d] = "off" => home[d] = None

ClientInv(c) ==
    /\ open[c] # None => home[open[c]] = c
    /\ \A d \in Dialogs, kind \in {"confirm", "error", "dropped", "done"} :
          <<d, kind>> \in inbox[c] => home[d] = c

\* The inductive invariant.
JInv ==
    /\ TypeOK /\ ToldIsRecorded /\ MapInv /\ PeerInv
    /\ \A a \in Agents : SessionInv(a)
    /\ \A d \in Dialogs : AcceptInv(d) /\ DialogInv(d)
    /\ \A c \in Clients : ClientInv(c)

MessageKinds == {"confirm", "error", "dropped", "done"}

\* The type of an accept_join.
AcceptRecord ==
    [phase : AcceptPhases, wants : Agents \cup {None}, asked : BOOLEAN,
     peer : Agents \cup {None}, typed : Agents \cup {None},
     sent : {"nothing", "certificates", "ok", "err"}]

(***************************************************************************)
(* Facts about the types.                                                  *)
(***************************************************************************)
LEMMA Names ==
    None \notin Agents /\ None \notin Dialogs /\ None \notin Codes /\ None \notin Clients
BY JoinAssumption DEF Agents, Dialogs, None

LEMMA NoAcceptType ==
    /\ NoAccept \in AcceptRecord
    /\ NoAccept.phase = "off" /\ NoAccept.wants = None /\ NoAccept.asked = FALSE
    /\ NoAccept.peer = None /\ NoAccept.typed = None /\ NoAccept.sent = "nothing"
BY DEF NoAccept, AcceptRecord, AcceptPhases

LEMMA AcceptType == TypeOK => accept \in [Dialogs -> AcceptRecord]
BY DEF TypeOK, AcceptRecord

LEMMA PostFacts ==
    ASSUME TypeOK, NEW d \in Dialogs, home[d] # None, NEW kinds \in SUBSET MessageKinds
    PROVE  /\ Post(d, kinds) \in [Clients -> SUBSET (Dialogs \X MessageKinds)]
           /\ \A c \in Clients, e \in Dialogs, k \in MessageKinds :
                 <<e, k>> \in Post(d, kinds)[c] => <<e, k>> \in inbox[c] \/ (e = d /\ c = home[d])
<1>1. home[d] \in Clients /\ inbox \in [Clients -> SUBSET (Dialogs \X MessageKinds)]
  BY DEF TypeOK, MessageKinds
<1>2. {d} \X kinds \in SUBSET (Dialogs \X MessageKinds)
  OBVIOUS
<1>3. Post(d, kinds) = [inbox EXCEPT ![home[d]] = inbox[home[d]] \cup ({d} \X kinds)]
  BY DEF Post
<1> HIDE DEF MessageKinds
<1> QED BY <1>1, <1>2, <1>3

LEMMA InitType == Init => TypeOK
<1> SUFFICES ASSUME Init PROVE TypeOK
  OBVIOUS
<1>1. << >> \in Seq(Codes) /\ Len(<< >>) <= 2
  OBVIOUS
<1>2. accept \in [Dialogs -> AcceptRecord]
  BY NoAcceptType DEF Init
<1> QED BY <1>1, <1>2 DEF Init, TypeOK, AcceptRecord

(***************************************************************************)
(* Frames.                                                                 *)
(***************************************************************************)
LEMMA AcceptFrame ==
    ASSUME TypeOK, NEW d \in Dialogs, AcceptInv(d), accept'[d] = accept[d],
           screen'[d] \in {"off", "code"} => screen[d] \in {"off", "code"},
           \A a \in Agents :
               /\ shown[a] # None => shown'[a] # None
               /\ request[a] \in {"joined", "closed"} => request'[a] \in {"joined", "closed"}
               /\ agent'[a] \in Secure /\ accept[d].peer = a =>
                      agent[a] \in Secure \/ accept[d].wants = a,
           recorded \subseteq recorded'
    PROVE  AcceptInv(d)'
<1>1. /\ accept[d].wants \in Agents \cup {None} /\ accept[d].peer \in Agents \cup {None}
  BY AcceptType DEF AcceptRecord
<1> QED BY <1>1 DEF AcceptInv

\* A dialog's tasks end, or produce messages.
LEMMA DialogsFrame ==
    ASSUME \A d \in Dialogs : DialogInv(d), \A c \in Clients : ClientInv(c),
           UNCHANGED <<home, open, sender>>,
           \A d \in Dialogs :
               /\ accept'[d].phase \in Live => accept[d].phase \in Live
               /\ screen'[d] = "code" => screen[d] = "code"
               /\ screen'[d] = "off" => screen[d] = "off",
           \A c \in Clients, d \in Dialogs, k \in MessageKinds :
               <<d, k>> \in inbox'[c] => <<d, k>> \in inbox[c] \/ c = home[d]
    PROVE  /\ \A d \in Dialogs : DialogInv(d)'
           /\ \A c \in Clients : ClientInv(c)'
<1>1. \A d \in Dialogs : DialogInv(d)'
  BY DEF DialogInv, Alive
<1>2. \A c \in Clients : ClientInv(c)'
  BY DEF ClientInv, MessageKinds
<1> QED BY <1>1, <1>2

LEMMA SessionsFrame ==
    ASSUME \A a \in Agents : SessionInv(a), MapInv,
           UNCHANGED <<request, code, timer, sessionMap>>,
           \A a \in Agents : /\ agent'[a] = "off" => agent[a] = "off"
                             /\ agent'[a] \in Secure =>
                                   agent[a] \in Secure \/ request[a] \in {"joined", "closed"}
    PROVE  (\A a \in Agents : SessionInv(a)') /\ MapInv'
<1>1. \A a \in Agents : SessionInv(a)'
  BY DEF SessionInv
<1>2. MapInv'
  BY DEF MapInv
<1> QED BY <1>1, <1>2

\* A step of the agent a.
LEMMA AgentSide ==
    ASSUME JInv, NEW a \in Agents, UNCHANGED agentFrame,
           NEW v \in {"request", "shown", "secured", "certified", "told",
                      "configured", "done", "failed"},
           agent' = [agent EXCEPT ![a] = v],
           mail' \in [Agents -> Seq(Codes)], \A b \in Agents : Len(mail'[b]) <= 2,
           shown' \in [Agents -> Codes \cup {None}],
           \A b \in Agents : shown[b] # None => shown'[b] # None,
           v \in Secure => /\ request[a] \in {"joined", "closed"}
                           /\ \A d \in Dialogs : accept[d].peer = a => accept[d].wants = a,
           v \in {"told", "configured", "done"} => a \in recorded
    PROVE  JInv'
<1>1. TypeOK'
  BY DEF JInv, TypeOK, agentFrame, serverVars, dialogVars
<1>2. /\ agent'[a] = v /\ \A b \in Agents \ {a} : agent'[b] = agent[b]
      /\ UNCHANGED <<request, code, timer, sessionMap, accept, screen, sender, home, open, inbox,
                     recorded>>
  BY DEF JInv, TypeOK, agentFrame, serverVars, dialogVars
<1>3. ToldIsRecorded'
  BY <1>2 DEF JInv, ToldIsRecorded
<1>4. (\A b \in Agents : SessionInv(b)') /\ MapInv'
  BY <1>2, SessionsFrame DEF JInv
<1>5. ASSUME NEW d \in Dialogs PROVE AcceptInv(d)'
  BY <1>2, <1>5, AcceptFrame DEF JInv
<1>6. PeerInv'
  BY <1>2 DEF JInv, PeerInv
<1>7. (\A d \in Dialogs : DialogInv(d)') /\ \A c \in Clients : ClientInv(c)'
  BY <1>2, DialogsFrame DEF JInv
<1> QED BY <1>1, <1>3, <1>4, <1>5, <1>6, <1>7 DEF JInv

\* A step of the dialog d's accept_join.
LEMMA AcceptSide ==
    ASSUME JInv, NEW d \in Dialogs, UNCHANGED acceptFrame,
           accept' \in [Dialogs -> AcceptRecord],
           \A e \in Dialogs \ {d} : accept'[e] = accept[e],
           accept'[d].peer = accept[d].peer,
           accept'[d].phase \in Live => accept[d].phase \in Live,
           inbox' \in [Clients -> SUBSET (Dialogs \X MessageKinds)],
           \A c \in Clients, e \in Dialogs, k \in MessageKinds :
               <<e, k>> \in inbox'[c] => <<e, k>> \in inbox[c] \/ c = home[e],
           recorded \subseteq recorded', recorded' \subseteq Agents,
           AcceptInv(d)'
    PROVE  JInv'
<1>1. TypeOK'
  BY DEF JInv, TypeOK, acceptFrame, serverVars, AcceptRecord, MessageKinds
<1>3. UNCHANGED <<agent, shown, mail, request, code, timer, sessionMap, screen, sender, home,
                  open>>
  BY DEF acceptFrame, serverVars
<1>4. ToldIsRecorded'
  BY <1>3 DEF JInv, ToldIsRecorded
<1>5. (\A b \in Agents : SessionInv(b)') /\ MapInv'
  BY <1>3, SessionsFrame DEF JInv
<1>6. ASSUME NEW e \in Dialogs PROVE AcceptInv(e)'
  BY <1>3, <1>6, AcceptFrame DEF JInv
<1>7. PeerInv'
  BY <1>3 DEF JInv, PeerInv
<1>8. (\A e \in Dialogs : DialogInv(e)') /\ \A c \in Clients : ClientInv(c)'
  <2>1. \A e \in Dialogs : accept'[e].phase \in Live => accept[e].phase \in Live
    BY <1>3
  <2> QED BY <1>3, <2>1, DialogsFrame DEF JInv
<1> QED BY <1>1, <1>4, <1>5, <1>6, <1>7, <1>8 DEF JInv

(***************************************************************************)
(* The agent.                                                              *)
(***************************************************************************)
LEMMA ReadCodeStep ==
    ASSUME JInv, NEW a \in Agents, ReadCode(a)
    PROVE  JInv'
<1>1. mail[a] \in Seq(Codes) /\ mail[a] # << >> /\ Len(mail[a]) <= 2
  BY DEF JInv, TypeOK, ReadCode
<1>2. Head(mail[a]) \in Codes /\ Tail(mail[a]) \in Seq(Codes) /\ Len(Tail(mail[a])) <= 2
  BY <1>1
<1>3. Head(mail[a]) # None
  BY <1>2, Names
<1>4. /\ mail' \in [Agents -> Seq(Codes)] /\ \A b \in Agents : Len(mail'[b]) <= 2
      /\ shown' \in [Agents -> Codes \cup {None}]
      /\ \A b \in Agents : shown[b] # None => shown'[b] # None
  BY <1>2, <1>3 DEF ReadCode, JInv, TypeOK
<1> QED BY <1>4, AgentSide DEF ReadCode, Secure

LEMMA AgentFailsStep ==
    ASSUME JInv, NEW a \in Agents, ReadSecondCode(a) \/ AgentFails(a) \/ AgentStops(a)
    PROVE  JInv'
<1>1. << >> \in Seq(Codes) /\ Len(<< >>) <= 2
  OBVIOUS
<1>2. /\ mail' = [mail EXCEPT ![a] = << >>] /\ shown' = shown /\ UNCHANGED agentFrame
      /\ agent' = [agent EXCEPT ![a] = "failed"]
  BY DEF ReadSecondCode, AgentFails, AgentStops
<1>3. /\ mail' \in [Agents -> Seq(Codes)] /\ \A b \in Agents : Len(mail'[b]) <= 2
      /\ shown' \in [Agents -> Codes \cup {None}]
  BY <1>1, <1>2 DEF JInv, TypeOK
<1> QED BY <1>2, <1>3, AgentSide DEF Secure

\* The agent has nothing to read and nothing new to show.
LEMMA AgentGoesOn ==
    ASSUME JInv, NEW a \in Agents, UNCHANGED <<shown, mail>>, UNCHANGED agentFrame,
           NEW v \in {"request", "shown", "secured", "certified", "told",
                      "configured", "done", "failed"},
           agent' = [agent EXCEPT ![a] = v],
           v \in Secure => /\ request[a] \in {"joined", "closed"}
                           /\ \A d \in Dialogs : accept[d].peer = a => accept[d].wants = a,
           v \in {"told", "configured", "done"} => a \in recorded
    PROVE  JInv'
<1>1. /\ mail' \in [Agents -> Seq(Codes)] /\ \A b \in Agents : Len(mail'[b]) <= 2
      /\ shown' \in [Agents -> Codes \cup {None}]
      /\ \A b \in Agents : shown[b] # None => shown'[b] # None
  BY DEF JInv, TypeOK
<1> QED BY <1>1, AgentSide

LEMMA SecureFacts ==
    ASSUME JInv, NEW a \in Agents, agent[a] \in Secure
    PROVE  /\ request[a] \in {"joined", "closed"}
           /\ \A d \in Dialogs : accept[d].peer = a => accept[d].wants = a
<1>1. request[a] \in {"joined", "closed"}
  BY DEF JInv, SessionInv
<1>2. ASSUME NEW d \in Dialogs, accept[d].peer = a PROVE accept[d].wants = a
  BY <1>2, Names DEF JInv, AcceptInv
<1> QED BY <1>1, <1>2

\* The key is agreed on only with the client of the user who stands here.
LEMMA HandshakeStep ==
    ASSUME JInv, NEW a \in Agents, Handshake(a)
    PROVE  JInv'
<1>1. PICK d \in Dialogs :
          /\ accept[d].peer = a
          /\ agent' = [agent EXCEPT ![a] = IF accept[d].typed = a THEN "secured" ELSE "failed"]
  BY DEF Handshake
<1>2. request[a] = "joined" /\ UNCHANGED <<shown, mail>> /\ UNCHANGED agentFrame
  BY DEF Handshake
<1>3. CASE accept[d].typed = a
  <2>1. accept[d].wants = a
    BY <1>3, Names DEF JInv, AcceptInv
  <2>2. \A e \in Dialogs : accept[e].peer = a => e = d
    BY <1>1, Names DEF JInv, PeerInv
  <2>3. agent' = [agent EXCEPT ![a] = "secured"]
    BY <1>1, <1>3
  <2> QED BY <1>2, <2>1, <2>2, <2>3, AgentGoesOn
<1>4. CASE accept[d].typed # a
  <2>1. agent' = [agent EXCEPT ![a] = "failed"]
    BY <1>1, <1>4
  <2> QED BY <1>2, <2>1, AgentGoesOn DEF Secure
<1> QED BY <1>3, <1>4

LEMMA ReadCertificatesStep ==
    ASSUME JInv, NEW a \in Agents, ReadCertificates(a)
    PROVE  JInv'
<1>1. agent[a] \in Secure
  BY DEF ReadCertificates, Secure
<1> QED BY <1>1, SecureFacts, AgentGoesOn DEF ReadCertificates

\* The agent hears Ok only after its certificate was recorded.
LEMMA ReadResultStep ==
    ASSUME JInv, NEW a \in Agents, ReadResult(a)
    PROVE  JInv'
<1>1. agent[a] \in Secure
  BY DEF ReadResult, Secure
<1>2. UNCHANGED <<shown, mail>> /\ UNCHANGED agentFrame
  BY DEF ReadResult
<1>3. CASE "ok" \in Sent(a) /\ agent' = [agent EXCEPT ![a] = "told"]
  <2>1. PICK d \in Dialogs : accept[d].peer = a /\ accept[d].sent = "ok"
    BY <1>3 DEF Sent
  <2>2. a \in recorded
    BY <2>1 DEF JInv, AcceptInv
  <2> QED BY <1>1, <1>2, <1>3, <2>2, SecureFacts, AgentGoesOn
<1>4. CASE agent' = [agent EXCEPT ![a] = "failed"]
  BY <1>2, <1>4, AgentGoesOn DEF Secure
<1> QED BY <1>3, <1>4 DEF ReadResult

LEMMA SaveStep ==
    ASSUME JInv, NEW a \in Agents, SaveConfig(a) \/ SaveTrustStore(a)
    PROVE  JInv'
<1>1. agent[a] \in Secure
  BY DEF SaveConfig, SaveTrustStore, Secure
<1>2. a \in recorded
  BY DEF SaveConfig, SaveTrustStore, JInv, ToldIsRecorded
<1> QED BY <1>1, <1>2, SecureFacts, AgentGoesOn DEF SaveConfig, SaveTrustStore

(***************************************************************************)
(* The server.                                                             *)
(***************************************************************************)
LEMMA ServerSide ==
    ASSUME JInv, TypeOK',
           UNCHANGED <<shown, accept, screen, sender, home, open, inbox, recorded>>,
           \A a \in Agents :
               /\ agent'[a] \in Secure => agent'[a] = agent[a]
               /\ request[a] \in {"joined", "closed"} => request'[a] \in {"joined", "closed"},
           \A a \in Agents : SessionInv(a)', MapInv'
    PROVE  JInv'
<1>1. ToldIsRecorded'
  <2>1. \A a \in Agents : agent'[a] \in {"told", "configured", "done"} => agent'[a] \in Secure
    BY DEF Secure
  <2> QED BY <2>1 DEF JInv, ToldIsRecorded
<1>2. ASSUME NEW d \in Dialogs PROVE AcceptInv(d)'
  BY <1>2, AcceptFrame DEF JInv
<1>3. PeerInv'
  BY DEF JInv, PeerInv
<1>4. (\A d \in Dialogs : DialogInv(d)') /\ \A c \in Clients : ClientInv(c)'
  BY DialogsFrame DEF JInv
<1> QED BY <1>1, <1>2, <1>3, <1>4 DEF JInv

LEMMA StartStep ==
    ASSUME JInv, NEW a \in Agents, Start(a)
    PROVE  JInv'
<1>1. /\ agent[a] = "off" /\ agent'[a] = "request" /\ request'[a] = "write"
      /\ \A b \in Agents \ {a} : agent'[b] = agent[b] /\ request'[b] = request[b]
      /\ UNCHANGED <<shown, mail, code, timer, sessionMap, accept, screen, sender, home, open,
                     inbox, recorded>>
  BY DEF JInv, TypeOK, Start, dialogVars
<1>2. request[a] = "off"
  BY <1>1 DEF JInv, SessionInv
<1>3. TypeOK'
  BY DEF JInv, TypeOK, Start, dialogVars
<1>4. \A b \in Agents : SessionInv(b)'
  BY <1>1, <1>2 DEF JInv, SessionInv, Secure
<1>5. MapInv'
  <2> SUFFICES ASSUME NEW k \in Codes, sessionMap[k] # None
               PROVE  request'[sessionMap[k]] = "waiting" /\ code[sessionMap[k]] = k
    BY <1>1 DEF MapInv
  <2>1. /\ sessionMap[k] \in Agents
        /\ request[sessionMap[k]] = "waiting" /\ code[sessionMap[k]] = k
    BY DEF JInv, TypeOK, MapInv
  <2> QED BY <1>1, <1>2, <2>1
<1> QED BY <1>1, <1>2, <1>3, <1>4, <1>5, ServerSide DEF Secure

LEMMA MoreMail ==
    ASSUME NEW T, NEW q \in Seq(T), Len(q) <= 2, Len(q) # 2, NEW x \in T
    PROVE  Append(q, x) \in Seq(T) /\ Len(Append(q, x)) <= 2
<1>1. Len(q) \in Nat /\ Len(Append(q, x)) = Len(q) + 1 /\ Append(q, x) \in Seq(T)
  OBVIOUS
<1>2. \A n \in Nat : n <= 2 /\ n # 2 => n + 1 <= 2
  OBVIOUS
<1>3. Len(q) + 1 <= 2
  BY <1>1, <1>2
<1> QED BY <1>1, <1>3

LEMMA WriteCodeStep ==
    ASSUME JInv, NEW a \in Agents, WriteCode(a)
    PROVE  JInv'
<1>1. /\ request[a] = "write"
      /\ UNCHANGED <<agent, shown, timer, sessionMap, accept, screen, sender, home, open, inbox,
                     recorded>>
  BY DEF WriteCode, dialogVars
<1>2. mail[a] \in Seq(Codes) /\ Len(mail[a]) <= 2 /\ Len(mail[a]) \in Nat
  BY DEF JInv, TypeOK
<1>3. \A k \in Codes :
          Len(mail[a]) # 2 => Append(mail[a], k) \in Seq(Codes) /\ Len(Append(mail[a], k)) <= 2
  BY <1>2, MoreMail
<1>4. /\ mail' \in [Agents -> Seq(Codes)] /\ \A b \in Agents : Len(mail'[b]) <= 2
  <2>1. CASE mail' = mail
    BY <2>1 DEF JInv, TypeOK
  <2>2. CASE mail' # mail
    <3>1. PICK k \in Codes : Len(mail[a]) # 2 /\ mail' = [mail EXCEPT ![a] = Append(mail[a], k)]
      BY <2>2 DEF WriteCode
    <3>2. PICK q \in Seq(Codes) : q = Append(mail[a], k) /\ Len(q) <= 2
      BY <1>3, <3>1
    <3>3. mail' = [mail EXCEPT ![a] = q]
      BY <3>1, <3>2
    <3> QED BY <3>2, <3>3 DEF JInv, TypeOK
  <2> QED BY <2>1, <2>2
<1>5. /\ code' \in [Agents -> Codes \cup {None}]
      /\ request' \in [Agents -> {"off", "write", "insert", "waiting", "joined", "closed"}]
      /\ request'[a] \in {"insert", "closed"}
      /\ code'[a] \in Codes \/ (code'[a] = code[a] /\ request'[a] # "insert")
      /\ \A b \in Agents \ {a} : request'[b] = request[b] /\ code'[b] = code[b]
  <2>1. /\ request \in [Agents -> {"off", "write", "insert", "waiting", "joined", "closed"}]
        /\ code \in [Agents -> Codes \cup {None}]
    BY DEF JInv, TypeOK
  <2>2. CASE request' = [request EXCEPT ![a] = "insert"] /\ \E k \in Codes : code' = [code EXCEPT ![a] = k]
    BY <2>1, <2>2
  <2>3. CASE request' = [request EXCEPT ![a] = "closed"] /\ code' = code
    BY <2>1, <2>3
  <2> QED BY <2>2, <2>3 DEF WriteCode
<1>6. TypeOK'
  BY <1>1, <1>4, <1>5 DEF JInv, TypeOK
<1>7. \A b \in Agents : SessionInv(b)'
  <2>1. SessionInv(a)'
    <3>1. SessionInv(a)
      BY DEF JInv
    <3> QED BY <1>1, <1>5, <3>1 DEF SessionInv, Secure
  <2>2. ASSUME NEW b \in Agents \ {a} PROVE SessionInv(b)'
    BY <1>1, <1>5, <2>2 DEF JInv, SessionInv
  <2> QED BY <2>1, <2>2
<1>8. MapInv'
  <2> SUFFICES ASSUME NEW k \in Codes, sessionMap[k] # None
               PROVE  request'[sessionMap[k]] = "waiting" /\ code'[sessionMap[k]] = k
    BY <1>1 DEF MapInv
  <2>1. /\ sessionMap[k] \in Agents
        /\ request[sessionMap[k]] = "waiting" /\ code[sessionMap[k]] = k
    BY DEF JInv, TypeOK, MapInv
  <2> QED BY <1>1, <1>5, <2>1
<1> QED BY <1>1, <1>5, <1>6, <1>7, <1>8, ServerSide

LEMMA InsertStep ==
    ASSUME JInv, NEW a \in Agents, Insert(a)
    PROVE  JInv'
<1>1. /\ request[a] = "insert"
      /\ UNCHANGED <<agent, shown, mail, code, accept, screen, sender, home, open, inbox, recorded>>
  BY DEF Insert, dialogVars
<1>2. code[a] \in Codes /\ SessionInv(a)
  BY <1>1 DEF JInv, SessionInv
<1>3. /\ request'[a] \in {"write", "waiting"}
      /\ \A b \in Agents \ {a} : request'[b] = request[b]
      /\ request' \in [Agents -> {"off", "write", "insert", "waiting", "joined", "closed"}]
  BY DEF JInv, TypeOK, Insert
<1>4. CASE sessionMap[code[a]] # None
  <2>1. request'[a] = "write" /\ UNCHANGED <<timer, sessionMap>>
    BY <1>4 DEF JInv, TypeOK, Insert
  <2>2. TypeOK'
    BY <1>1, <1>3, <2>1 DEF JInv, TypeOK
  <2>3. \A b \in Agents : SessionInv(b)'
    BY <1>1, <1>3, <2>1 DEF JInv, SessionInv
  <2>4. MapInv'
    <3> SUFFICES ASSUME NEW k \in Codes, sessionMap[k] # None
                 PROVE  request'[sessionMap[k]] = "waiting" /\ code[sessionMap[k]] = k
      BY <1>1, <2>1 DEF MapInv
    <3>1. /\ sessionMap[k] \in Agents
          /\ request[sessionMap[k]] = "waiting" /\ code[sessionMap[k]] = k
      BY DEF JInv, TypeOK, MapInv
    <3> QED BY <1>1, <1>3, <3>1
  <2> QED BY <1>1, <1>3, <2>2, <2>3, <2>4, ServerSide
<1>5. CASE sessionMap[code[a]] = None
  <2>1. /\ request'[a] = "waiting" /\ timer' = [timer EXCEPT ![a] = "set"]
        /\ sessionMap' = [sessionMap EXCEPT ![code[a]] = a]
    BY <1>5 DEF JInv, TypeOK, Insert
  <2>2. TypeOK'
    BY <1>1, <1>2, <1>3, <2>1 DEF JInv, TypeOK
  <2>3. /\ sessionMap'[code[a]] = a /\ timer'[a] = "set"
        /\ \A k \in Codes \ {code[a]} : sessionMap'[k] = sessionMap[k]
        /\ \A b \in Agents \ {a} : timer'[b] = timer[b]
    BY <1>2, <2>1 DEF JInv, TypeOK
  <2>4. \A b \in Agents : SessionInv(b)'
    <3>1. SessionInv(a)'
      BY <1>1, <1>2, <2>1, <2>3 DEF SessionInv
    <3>2. ASSUME NEW b \in Agents \ {a} PROVE SessionInv(b)'
      <4>1. SessionInv(b)
        BY DEF JInv
      <4>2. request[b] = "waiting" => code[b] \in Codes /\ code[b] # code[a]
        BY <1>5, <4>1, Names DEF SessionInv
      <4> QED BY <1>1, <1>3, <2>3, <4>1, <4>2 DEF SessionInv
    <3> QED BY <3>1, <3>2
  <2>5. MapInv'
    <3> SUFFICES ASSUME NEW k \in Codes, sessionMap'[k] # None
                 PROVE  request'[sessionMap'[k]] = "waiting" /\ code[sessionMap'[k]] = k
      BY <1>1 DEF MapInv
    <3>1. CASE k = code[a]
      BY <2>1, <2>3, <3>1
    <3>2. CASE k # code[a]
      <4>1. /\ sessionMap'[k] = sessionMap[k] /\ sessionMap[k] \in Agents
            /\ request[sessionMap[k]] = "waiting" /\ code[sessionMap[k]] = k
        BY <2>3, <3>2 DEF JInv, TypeOK, MapInv
      <4> QED BY <1>1, <1>3, <4>1
    <3> QED BY <3>1, <3>2
  <2> QED BY <1>1, <1>3, <2>2, <2>4, <2>5, ServerSide
<1> QED BY <1>4, <1>5

LEMMA TimerDueStep ==
    ASSUME JInv, NEW a \in Agents, TimerDue(a)
    PROVE  JInv'
<1>1. /\ UNCHANGED <<agent, shown, mail, request, code, sessionMap, accept, screen, sender, home,
                     open, inbox, recorded>>
      /\ timer[a] = "set" /\ timer'[a] = "due" /\ \A b \in Agents \ {a} : timer'[b] = timer[b]
      /\ timer' \in [Agents -> {"off", "set", "due"}]
  BY DEF JInv, TypeOK, TimerDue, dialogVars
<1>2. TypeOK'
  BY <1>1 DEF JInv, TypeOK
<1>3. \A b \in Agents : SessionInv(b)'
  BY <1>1 DEF JInv, SessionInv
<1>4. MapInv'
  BY <1>1 DEF JInv, MapInv
<1> QED BY <1>1, <1>2, <1>3, <1>4, ServerSide

\* The timer removes what waits under its code, be it its own session or that of
\* an agent that has drawn the same code since.
LEMMA TimeoutStep ==
    ASSUME JInv, NEW a \in Agents, Timeout(a)
    PROVE  JInv'
<1>1. /\ UNCHANGED <<agent, shown, mail, code, accept, screen, sender, home, open, inbox, recorded>>
      /\ timer[a] = "due" /\ timer'[a] = "off" /\ \A b \in Agents \ {a} : timer'[b] = timer[b]
      /\ timer' \in [Agents -> {"off", "set", "due"}]
      /\ \A b \in Agents : request'[b] = IF b = sessionMap[code[a]] THEN "closed" ELSE request[b]
      /\ request' \in [Agents -> {"off", "write", "insert", "waiting", "joined", "closed"}]
  BY DEF JInv, TypeOK, Timeout, dialogVars
<1>2. code[a] \in Codes
  BY <1>1 DEF JInv, SessionInv
<1>3. /\ sessionMap'[code[a]] = None
      /\ \A k \in Codes \ {code[a]} : sessionMap'[k] = sessionMap[k]
      /\ sessionMap' \in [Codes -> Agents \cup {None}]
  BY <1>2 DEF JInv, TypeOK, Timeout
<1>4. TypeOK'
  BY <1>1, <1>3 DEF JInv, TypeOK
<1>5. ASSUME NEW b \in Agents PROVE SessionInv(b)'
  <2>1. SessionInv(b)
    BY DEF JInv
  <2>2. b = sessionMap[code[a]] => request[b] = "waiting"
    BY <1>2, Names DEF JInv, MapInv
  <2>3. CASE b = sessionMap[code[a]]
    <3>1. request'[b] = "closed"
      BY <1>1, <2>3
    <3> QED BY <1>1, <1>2, <2>1, <2>2, <2>3, <3>1 DEF SessionInv, Secure
  <2>4. CASE b # sessionMap[code[a]]
    <3>1. request'[b] = request[b]
      BY <1>1, <2>4
    <3>2. request[b] = "waiting" => b # a /\ code[b] # code[a] /\ code[b] \in Codes
      BY <2>1, <2>4 DEF SessionInv
    <3> QED BY <1>1, <1>2, <1>3, <2>1, <3>1, <3>2 DEF SessionInv
  <2> QED BY <2>3, <2>4
<1>6. MapInv'
  <2> SUFFICES ASSUME NEW k \in Codes, sessionMap'[k] # None
               PROVE  request'[sessionMap'[k]] = "waiting" /\ code[sessionMap'[k]] = k
    BY <1>1 DEF MapInv
  <2>1. /\ k # code[a] /\ sessionMap'[k] = sessionMap[k] /\ sessionMap[k] \in Agents
        /\ request[sessionMap[k]] = "waiting" /\ code[sessionMap[k]] = k
    BY <1>3 DEF JInv, TypeOK, MapInv
  <2>2. sessionMap[code[a]] # None => code[sessionMap[code[a]]] = code[a]
    BY <1>2 DEF JInv, MapInv
  <2>3. sessionMap[k] # sessionMap[code[a]]
    BY <2>1, <2>2, Names
  <2> QED BY <1>1, <2>1, <2>3
<1>7. \A b \in Agents : request[b] \in {"joined", "closed"} => request'[b] \in {"joined", "closed"}
  BY <1>1
<1> QED BY <1>1, <1>4, <1>5, <1>6, <1>7, ServerSide

LEMMA LinkStep ==
    ASSUME JInv, NEW a \in Agents, CopyEnds(a) \/ LinkLost(a)
    PROVE  JInv'
<1>1. /\ UNCHANGED <<agent, shown, mail, code, timer, sessionMap, accept, screen, sender, home,
                     open, inbox, recorded>>
      /\ request[a] = "joined" /\ request'[a] = "closed"
      /\ \A b \in Agents \ {a} : request'[b] = request[b]
      /\ request' \in [Agents -> {"off", "write", "insert", "waiting", "joined", "closed"}]
  BY DEF JInv, TypeOK, CopyEnds, LinkLost, dialogVars
<1>2. TypeOK'
  BY <1>1 DEF JInv, TypeOK
<1>3. \A b \in Agents : SessionInv(b)'
  BY <1>1 DEF JInv, SessionInv
<1>4. MapInv'
  <2> SUFFICES ASSUME NEW k \in Codes, sessionMap[k] # None
               PROVE  request'[sessionMap[k]] = "waiting" /\ code[sessionMap[k]] = k
    BY <1>1 DEF MapInv
  <2>1. /\ sessionMap[k] \in Agents
        /\ request[sessionMap[k]] = "waiting" /\ code[sessionMap[k]] = k
    BY DEF JInv, TypeOK, MapInv
  <2> QED BY <1>1, <2>1
<1>5. \A b \in Agents : request[b] \in {"joined", "closed"} => request'[b] \in {"joined", "closed"}
  BY <1>1
<1> QED BY <1>1, <1>2, <1>3, <1>4, <1>5, ServerSide

\* The session is patched to the first client that asks for it.
LEMMA TakeSessionStep ==
    ASSUME JInv, NEW d \in Dialogs, TakeSession(d)
    PROVE  JInv'
<1>1. /\ accept \in [Dialogs -> AcceptRecord] /\ accept[d] \in AcceptRecord
      /\ sessionMap \in [Codes -> Agents \cup {None}]
      /\ AcceptInv(d) /\ DialogInv(d) /\ TypeOK
  BY AcceptType DEF JInv, TypeOK
<1>2. accept[d].asked
  BY DEF TakeSession
<1>3. PICK k \in Codes : k = shown[accept[d].wants]
  <2>1. accept[d].wants # None /\ shown[accept[d].wants] # None /\ accept[d].wants \in Agents \cup {None}
    BY <1>1, <1>2 DEF AcceptInv, AcceptRecord
  <2> QED BY <2>1 DEF JInv, TypeOK
<1>4. PICK a \in Agents \cup {None} : a = sessionMap[k]
  BY <1>1
<1>5. accept[d].peer = None /\ accept[d].sent = "nothing"
  BY <1>1, <1>2 DEF AcceptInv
<1>6. /\ accept[d].phase \notin Live \ {"lookup"}
      /\ screen[d] \notin {"off", "code"}
  BY <1>1, <1>2, <1>5, NoAcceptType DEF AcceptInv
<1>7. CASE a = None
  <2>1. /\ accept' = [accept EXCEPT ![d].asked = FALSE,
                           ![d].phase = IF accept[d].phase = "lookup" THEN "failed" ELSE @]
        /\ inbox' = IF accept[d].phase = "lookup" THEN Post(d, {"error", "dropped"}) ELSE inbox
        /\ UNCHANGED <<sessionMap, timer, request>>
        /\ UNCHANGED <<agent, shown, mail, code, screen, sender, home, open, recorded>>
    BY <1>3, <1>4, <1>7 DEF TakeSession
  <2>2. accept' \in [Dialogs -> AcceptRecord]
    BY <1>1, <2>1 DEF AcceptRecord, AcceptPhases
  <2>3. /\ \A e \in Dialogs \ {d} : accept'[e] = accept[e]
        /\ accept'[d].wants = accept[d].wants /\ accept'[d].typed = accept[d].typed
        /\ accept'[d].sent = accept[d].sent /\ ~accept'[d].asked
        /\ accept'[d].peer = accept[d].peer
        /\ accept'[d].phase = IF accept[d].phase = "lookup" THEN "failed" ELSE accept[d].phase
    BY <1>1, <2>1 DEF AcceptRecord
  <2>4. AcceptInv(d)'
    BY <1>1, <1>5, <1>6, <2>1, <2>3 DEF AcceptInv, Live
  <2>5. /\ inbox' \in [Clients -> SUBSET (Dialogs \X MessageKinds)]
        /\ \A c \in Clients, e \in Dialogs, n \in MessageKinds :
               <<e, n>> \in inbox'[c] => <<e, n>> \in inbox[c] \/ c = home[e]
    <3>1. CASE accept[d].phase = "lookup"
      <4>1. home[d] # None
        BY <1>1, <3>1 DEF DialogInv, Alive, Live
      <4>2. {"error", "dropped"} \in SUBSET MessageKinds
        BY DEF MessageKinds
      <4> QED BY <1>1, <2>1, <3>1, <4>1, <4>2, PostFacts
    <3>2. CASE accept[d].phase # "lookup"
      BY <1>1, <2>1, <3>2 DEF TypeOK, MessageKinds
    <3> QED BY <3>1, <3>2
  <2>6. accept'[d].phase \in Live => accept[d].phase \in Live
    BY <2>3 DEF Live
  <2>7. UNCHANGED acceptFrame /\ recorded' \subseteq Agents
    BY <1>1, <2>1 DEF acceptFrame, serverVars, TypeOK
  <2> QED BY <2>1, <2>2, <2>3, <2>4, <2>5, <2>6, <2>7, AcceptSide
<1>8. CASE a # None
  <2>1. /\ accept' = [accept EXCEPT ![d].asked = FALSE, ![d].peer = a,
                           ![d].phase = IF accept[d].phase = "lookup" THEN "found" ELSE @]
        /\ sessionMap' = [sessionMap EXCEPT ![k] = None]
        /\ timer' = [timer EXCEPT ![a] = IF @ = "due" THEN @ ELSE "off"]
        /\ request' = [request EXCEPT ![a] = "joined"]
        /\ inbox' = inbox
        /\ UNCHANGED <<agent, shown, mail, code, screen, sender, home, open, recorded>>
    BY <1>3, <1>4, <1>8 DEF TakeSession
  <2>2. accept' \in [Dialogs -> AcceptRecord]
    BY <1>1, <2>1 DEF AcceptRecord, AcceptPhases
  <2>3. /\ \A e \in Dialogs \ {d} : accept'[e] = accept[e]
        /\ accept'[d].wants = accept[d].wants /\ accept'[d].typed = accept[d].typed
        /\ accept'[d].sent = accept[d].sent /\ ~accept'[d].asked
        /\ accept'[d].peer = a
        /\ accept'[d].phase = IF accept[d].phase = "lookup" THEN "found" ELSE accept[d].phase
    BY <1>1, <2>1 DEF AcceptRecord
  <2>4. a \in Agents /\ request[a] = "waiting" /\ code[a] = k
    BY <1>4, <1>8 DEF JInv, MapInv
  <2>5. /\ request'[a] = "joined" /\ \A b \in Agents \ {a} : request'[b] = request[b]
        /\ request' \in [Agents -> {"off", "write", "insert", "waiting", "joined", "closed"}]
        /\ timer'[a] \in {"off", "due"} /\ (timer'[a] = "due" => timer[a] = "due")
        /\ \A b \in Agents \ {a} : timer'[b] = timer[b]
        /\ timer' \in [Agents -> {"off", "set", "due"}]
        /\ sessionMap'[k] = None /\ \A n \in Codes \ {k} : sessionMap'[n] = sessionMap[n]
        /\ sessionMap' \in [Codes -> Agents \cup {None}]
    BY <1>1, <2>1, <2>4 DEF TypeOK
  <2>6. TypeOK'
    BY <1>1, <2>1, <2>2, <2>5 DEF TypeOK, AcceptRecord
  <2>7. ToldIsRecorded'
    BY <2>1 DEF JInv, ToldIsRecorded
  <2>8. ASSUME NEW b \in Agents PROVE SessionInv(b)'
    <3>1. SessionInv(b) /\ SessionInv(a)
      BY <2>4 DEF JInv
    <3>2. CASE b = a
      BY <2>1, <2>4, <2>5, <3>1, <3>2 DEF SessionInv
    <3>3. CASE b # a
      <4>1. request[b] = "waiting" => code[b] # k /\ code[b] \in Codes
        BY <1>4, <3>1, <3>3 DEF SessionInv
      <4> QED BY <2>1, <2>5, <3>1, <3>3, <4>1 DEF SessionInv
    <3> QED BY <3>2, <3>3
  <2>9. MapInv'
    <3> SUFFICES ASSUME NEW n \in Codes, sessionMap'[n] # None
                 PROVE  request'[sessionMap'[n]] = "waiting" /\ code[sessionMap'[n]] = n
      BY <2>1 DEF MapInv
    <3>1. /\ n # k /\ sessionMap'[n] = sessionMap[n] /\ sessionMap[n] \in Agents
          /\ request[sessionMap[n]] = "waiting" /\ code[sessionMap[n]] = n
      BY <1>1, <2>5 DEF JInv, MapInv
    <3> QED BY <2>4, <2>5, <3>1
  <2>10. \A e \in Dialogs : accept[e].peer # a
    BY <1>8, <2>4 DEF JInv, AcceptInv
  <2>11. PeerInv'
    BY <2>3, <2>10 DEF JInv, PeerInv
  <2>12. agent[a] \notin Secure
    BY <2>4 DEF JInv, SessionInv
  <2>13. AcceptInv(d)'
    BY <1>1, <1>5, <1>6, <1>8, <2>1, <2>3, <2>5, <2>12 DEF AcceptInv, Live
  <2>14. ASSUME NEW e \in Dialogs \ {d} PROVE AcceptInv(e)'
    BY <2>1, <2>3, <2>5, <2>14, AcceptFrame DEF JInv
  <2>15. (\A e \in Dialogs : DialogInv(e)') /\ \A c \in Clients : ClientInv(c)'
    <3>1. \A e \in Dialogs : accept'[e].phase \in Live => accept[e].phase \in Live
      BY <2>3 DEF Live
    <3> QED BY <2>1, <3>1, DialogsFrame DEF JInv
  <2> QED BY <2>6, <2>7, <2>8, <2>9, <2>11, <2>13, <2>14, <2>15 DEF JInv
<1> QED BY <1>7, <1>8

(***************************************************************************)
(* The client's accept_join.                                               *)
(***************************************************************************)
LEMMA LivePost ==
    ASSUME JInv, NEW d \in Dialogs,
           \/ UNCHANGED inbox
           \/ /\ accept[d].phase \in Live
              /\ \E kinds \in SUBSET MessageKinds : inbox' = Post(d, kinds)
    PROVE  /\ inbox' \in [Clients -> SUBSET (Dialogs \X MessageKinds)]
           /\ \A c \in Clients, e \in Dialogs, n \in MessageKinds :
                 <<e, n>> \in inbox'[c] => <<e, n>> \in inbox[c] \/ c = home[e]
<1>1. CASE UNCHANGED inbox
  BY <1>1 DEF JInv, TypeOK, MessageKinds
<1>2. ASSUME accept[d].phase \in Live, NEW kinds \in SUBSET MessageKinds, inbox' = Post(d, kinds)
      PROVE  /\ inbox' \in [Clients -> SUBSET (Dialogs \X MessageKinds)]
             /\ \A c \in Clients, e \in Dialogs, n \in MessageKinds :
                   <<e, n>> \in inbox'[c] => <<e, n>> \in inbox[c] \/ c = home[e]
  <2>1. home[d] # None
    BY <1>2 DEF JInv, DialogInv, Alive
  <2> QED BY <1>2, <2>1, PostFacts DEF JInv
<1> QED BY <1>1, <1>2

LEMMA SomeKinds ==
    /\ {"confirm"} \in SUBSET MessageKinds /\ {"error"} \in SUBSET MessageKinds
    /\ {"done"} \in SUBSET MessageKinds /\ {"error", "dropped"} \in SUBSET MessageKinds
BY DEF MessageKinds

LEMMA AskForConfirmStep ==
    ASSUME JInv, NEW d \in Dialogs, AskForConfirm(d)
    PROVE  JInv'
<1>1. /\ accept \in [Dialogs -> AcceptRecord] /\ AcceptInv(d) /\ accept[d].phase = "found"
      /\ accept' = [accept EXCEPT ![d].phase = "confirm"] /\ inbox' = Post(d, {"confirm"})
      /\ UNCHANGED <<acceptFrame, recorded>> /\ recorded \subseteq Agents
      /\ accept[d].phase \in Live
  BY AcceptType DEF JInv, TypeOK, AskForConfirm, Live
<1>2. /\ accept' \in [Dialogs -> AcceptRecord]
      /\ \A e \in Dialogs \ {d} : accept'[e] = accept[e]
      /\ accept'[d].wants = accept[d].wants /\ accept'[d].typed = accept[d].typed
      /\ accept'[d].sent = accept[d].sent /\ accept'[d].asked = accept[d].asked
      /\ accept'[d].peer = accept[d].peer /\ accept'[d].phase = "confirm"
  BY <1>1 DEF AcceptRecord, AcceptPhases
<1>3. UNCHANGED <<agent, shown, request, screen>>
  BY <1>1 DEF acceptFrame, serverVars
<1>4. screen[d] \notin {"off", "code"}
  BY <1>1, NoAcceptType DEF AcceptInv
<1>5. AcceptInv(d)'
  BY <1>1, <1>2, <1>3, <1>4 DEF AcceptInv, Live
<1> QED BY <1>1, <1>2, <1>5, LivePost, SomeKinds, AcceptSide

\* The certificate is sent to an agent that has checked the confirm code.
LEMMA EnrollStep ==
    ASSUME JInv, NEW d \in Dialogs, Enroll(d)
    PROVE  JInv'
<1>1. /\ accept \in [Dialogs -> AcceptRecord] /\ AcceptInv(d) /\ accept[d].phase = "handshake"
      /\ accept' = [accept EXCEPT ![d].phase = "adding", ![d].typed = None,
                                  ![d].sent = "certificates"]
      /\ UNCHANGED inbox /\ agent[accept[d].peer] = "secured"
      /\ UNCHANGED <<acceptFrame, recorded>> /\ recorded \subseteq Agents
      /\ accept[d].phase \in Live
  BY AcceptType DEF JInv, TypeOK, Enroll, Live
<1>2. /\ accept' \in [Dialogs -> AcceptRecord]
      /\ \A e \in Dialogs \ {d} : accept'[e] = accept[e]
      /\ accept'[d].wants = accept[d].wants /\ accept'[d].typed = None
      /\ accept'[d].sent = "certificates" /\ accept'[d].asked = accept[d].asked
      /\ accept'[d].peer = accept[d].peer /\ accept'[d].phase = "adding"
  BY <1>1 DEF AcceptRecord, AcceptPhases
<1>3. UNCHANGED <<agent, shown, request, screen>>
  BY <1>1 DEF acceptFrame, serverVars
<1>4. screen[d] \notin {"off", "code"}
  BY <1>1, NoAcceptType DEF AcceptInv
<1>5. accept[d].peer # None /\ accept[d].peer = accept[d].wants
  BY <1>1 DEF AcceptInv, Live, Secure
<1>6. AcceptInv(d)'
  BY <1>1, <1>2, <1>3, <1>4, <1>5 DEF AcceptInv, Live
<1> QED BY <1>1, <1>2, <1>6, LivePost, AcceptSide

LEMMA AddToTrustStoreStep ==
    ASSUME JInv, NEW d \in Dialogs, AddToTrustStore(d)
    PROVE  JInv'
<1>1. /\ accept \in [Dialogs -> AcceptRecord] /\ AcceptInv(d) /\ accept[d].phase = "adding"
      /\ UNCHANGED acceptFrame /\ recorded \subseteq Agents
      /\ accept[d].phase \in Live
  BY AcceptType DEF JInv, TypeOK, AddToTrustStore, Live
<1>2. UNCHANGED <<agent, shown, request, screen>>
  BY <1>1 DEF acceptFrame, serverVars
<1>3. screen[d] \notin {"off", "code"}
  BY <1>1, NoAcceptType DEF AcceptInv
<1>4. accept[d].peer # None /\ accept[d].peer = accept[d].wants /\ accept[d].peer \in Agents
  BY <1>1 DEF AcceptInv, AcceptRecord
<1>5. recorded \subseteq recorded' /\ recorded' \subseteq Agents
  BY <1>1, <1>4 DEF AddToTrustStore
<1>6. CASE /\ accept' = [accept EXCEPT ![d].phase = "added"]
           /\ recorded' = recorded \cup {accept[d].peer}
           /\ UNCHANGED inbox
  <2>1. /\ accept' \in [Dialogs -> AcceptRecord]
        /\ \A e \in Dialogs \ {d} : accept'[e] = accept[e]
        /\ accept'[d].wants = accept[d].wants /\ accept'[d].typed = accept[d].typed
        /\ accept'[d].sent = accept[d].sent /\ accept'[d].asked = accept[d].asked
        /\ accept'[d].peer = accept[d].peer /\ accept'[d].phase = "added"
    BY <1>1, <1>6 DEF AcceptRecord, AcceptPhases
  <2>2. AcceptInv(d)'
    BY <1>1, <1>2, <1>3, <1>4, <1>6, <2>1 DEF AcceptInv, Live
  <2> QED BY <1>1, <1>5, <1>6, <2>1, <2>2, LivePost, AcceptSide
<1>7. CASE /\ accept' = [accept EXCEPT ![d].phase = "failed", ![d].sent = "err"]
           /\ inbox' = Post(d, {"error"})
  <2>1. /\ accept' \in [Dialogs -> AcceptRecord]
        /\ \A e \in Dialogs \ {d} : accept'[e] = accept[e]
        /\ accept'[d].wants = accept[d].wants /\ accept'[d].typed = accept[d].typed
        /\ accept'[d].sent = "err" /\ accept'[d].asked = accept[d].asked
        /\ accept'[d].peer = accept[d].peer /\ accept'[d].phase = "failed"
    BY <1>1, <1>7 DEF AcceptRecord, AcceptPhases
  <2>2. AcceptInv(d)'
    BY <1>1, <1>2, <1>3, <1>4, <2>1 DEF AcceptInv, Live
  <2> QED BY <1>1, <1>5, <1>7, <2>1, <2>2, LivePost, SomeKinds, AcceptSide
<1> QED BY <1>6, <1>7 DEF AddToTrustStore

LEMMA SendResultStep ==
    ASSUME JInv, NEW d \in Dialogs, SendResult(d)
    PROVE  JInv'
<1>1. /\ accept \in [Dialogs -> AcceptRecord] /\ AcceptInv(d) /\ accept[d].phase = "added"
      /\ UNCHANGED <<acceptFrame, recorded>> /\ recorded \subseteq Agents
      /\ accept[d].phase \in Live
  BY AcceptType DEF JInv, TypeOK, SendResult, Live
<1>2. UNCHANGED <<agent, shown, request, screen>>
  BY <1>1 DEF acceptFrame, serverVars
<1>3. screen[d] \notin {"off", "code"}
  BY <1>1, NoAcceptType DEF AcceptInv
<1>4. /\ accept[d].peer # None /\ accept[d].peer = accept[d].wants
      /\ accept[d].peer \in recorded
  BY <1>1 DEF AcceptInv
<1>5. CASE /\ accept' = [accept EXCEPT ![d].phase = "done", ![d].sent = "ok"]
           /\ inbox' = Post(d, {"done"})
  <2>1. /\ accept' \in [Dialogs -> AcceptRecord]
        /\ \A e \in Dialogs \ {d} : accept'[e] = accept[e]
        /\ accept'[d].wants = accept[d].wants /\ accept'[d].typed = accept[d].typed
        /\ accept'[d].sent = "ok" /\ accept'[d].asked = accept[d].asked
        /\ accept'[d].peer = accept[d].peer /\ accept'[d].phase = "done"
    BY <1>1, <1>5 DEF AcceptRecord, AcceptPhases
  <2>2. AcceptInv(d)'
    BY <1>1, <1>2, <1>3, <1>4, <2>1 DEF AcceptInv, Live
  <2> QED BY <1>1, <1>5, <2>1, <2>2, LivePost, SomeKinds, AcceptSide DEF Live
<1>6. CASE /\ accept' = [accept EXCEPT ![d].phase = "failed"]
           /\ inbox' = Post(d, {"error"})
  <2>1. /\ accept' \in [Dialogs -> AcceptRecord]
        /\ \A e \in Dialogs \ {d} : accept'[e] = accept[e]
        /\ accept'[d].wants = accept[d].wants /\ accept'[d].typed = accept[d].typed
        /\ accept'[d].sent = accept[d].sent /\ accept'[d].asked = accept[d].asked
        /\ accept'[d].peer = accept[d].peer /\ accept'[d].phase = "failed"
    BY <1>1, <1>6 DEF AcceptRecord, AcceptPhases
  <2>2. AcceptInv(d)'
    BY <1>1, <1>2, <1>3, <1>4, <2>1 DEF AcceptInv, Live
  <2> QED BY <1>1, <1>6, <2>1, <2>2, LivePost, SomeKinds, AcceptSide DEF Live
<1> QED BY <1>5, <1>6 DEF SendResult

LEMMA AcceptFailsStep ==
    ASSUME JInv, NEW d \in Dialogs, AcceptFails(d) \/ AcceptLost(d)
    PROVE  JInv'
<1>1. /\ accept \in [Dialogs -> AcceptRecord] /\ AcceptInv(d)
      /\ accept[d].phase \in {"handshake", "lookup"}
      /\ accept' = [accept EXCEPT ![d].phase = "failed"]
      /\ inbox' = Post(d, {"error"}) \/ inbox' = Post(d, {"error", "dropped"})
      /\ UNCHANGED <<acceptFrame, recorded>> /\ recorded \subseteq Agents
      /\ accept[d].phase \in Live
  BY AcceptType DEF JInv, TypeOK, AcceptFails, AcceptLost, Live
<1>2. /\ accept' \in [Dialogs -> AcceptRecord]
      /\ \A e \in Dialogs \ {d} : accept'[e] = accept[e]
      /\ accept'[d].wants = accept[d].wants /\ accept'[d].typed = accept[d].typed
      /\ accept'[d].sent = accept[d].sent /\ accept'[d].asked = accept[d].asked
      /\ accept'[d].peer = accept[d].peer /\ accept'[d].phase = "failed"
  BY <1>1 DEF AcceptRecord, AcceptPhases
<1>3. UNCHANGED <<agent, shown, request, screen>>
  BY <1>1 DEF acceptFrame, serverVars
<1>4. screen[d] \notin {"off", "code"}
  BY <1>1, NoAcceptType DEF AcceptInv
<1>5. AcceptInv(d)'
  BY <1>1, <1>2, <1>3, <1>4 DEF AcceptInv, Live
<1> QED BY <1>1, <1>2, <1>5, LivePost, SomeKinds, AcceptSide

(***************************************************************************)
(* The dialogs.                                                            *)
(***************************************************************************)
Screens == {"off", "code", "loading", "confirm", "adding", "error", "closed"}

\* A step at a client leaves the agents and the server alone.
LEMMA ScreenSide ==
    ASSUME JInv, UNCHANGED <<agent, shown, mail, serverVars>>,
           accept' \in [Dialogs -> AcceptRecord],
           \A d \in Dialogs : accept'[d].peer = accept[d].peer,
           screen' \in [Dialogs -> Screens], sender' \in [Dialogs -> Dialogs \cup {None}],
           home' \in [Dialogs -> Clients \cup {None}],
           open' \in [Clients -> Dialogs \cup {None}],
           inbox' \in [Clients -> SUBSET (Dialogs \X MessageKinds)],
           recorded \subseteq recorded', recorded' \subseteq Agents,
           \A d \in Dialogs : AcceptInv(d)',
           \A d \in Dialogs : DialogInv(d)',
           \A c \in Clients : ClientInv(c)'
    PROVE  JInv'
<1>1. TypeOK'
  BY DEF JInv, TypeOK, serverVars, AcceptRecord, MessageKinds, Screens
<1>2. UNCHANGED <<agent, shown, mail, request, code, timer, sessionMap>>
  BY DEF serverVars
<1>3. ToldIsRecorded'
  BY <1>2 DEF JInv, ToldIsRecorded
<1>4. (\A b \in Agents : SessionInv(b)') /\ MapInv'
  BY <1>2, SessionsFrame DEF JInv
<1>5. PeerInv'
  BY DEF JInv, PeerInv
<1> QED BY <1>1, <1>3, <1>4, <1>5 DEF JInv

LEMMA OpenStep ==
    ASSUME JInv, NEW d \in Dialogs, NEW c \in Clients, Open(d, c)
    PROVE  JInv'
<1>1. /\ accept \in [Dialogs -> AcceptRecord] /\ TypeOK
      /\ \A e \in Dialogs : AcceptInv(e) /\ DialogInv(e)
      /\ \A b \in Clients : ClientInv(b)
      /\ screen[d] = "off" /\ open[c] = None
      /\ UNCHANGED <<agent, shown, mail, serverVars, accept, sender, inbox, recorded>>
  BY AcceptType DEF JInv, Open
<1>2. /\ home' \in [Dialogs -> Clients \cup {None}] /\ home'[d] = c
      /\ \A e \in Dialogs \ {d} : home'[e] = home[e]
      /\ open' \in [Clients -> Dialogs \cup {None}] /\ open'[c] = d
      /\ \A b \in Clients \ {c} : open'[b] = open[b]
      /\ screen' \in [Dialogs -> Screens] /\ screen'[d] = "code"
      /\ \A e \in Dialogs \ {d} : screen'[e] = screen[e]
  BY <1>1 DEF Open, TypeOK, Screens
<1>3. /\ sender' \in [Dialogs -> Dialogs \cup {None}]
      /\ inbox' \in [Clients -> SUBSET (Dialogs \X MessageKinds)]
      /\ recorded' \subseteq Agents
  BY <1>1 DEF TypeOK, MessageKinds
<1>4. home[d] = None /\ sender[d] = None
  BY <1>1 DEF DialogInv, Alive
<1>5. \A e \in Dialogs : AcceptInv(e)'
  <2>1. UNCHANGED <<request, agent, shown, recorded, accept>>
    BY <1>1 DEF serverVars
  <2>2. \A e \in Dialogs : screen'[e] \in {"off", "code"} => screen[e] \in {"off", "code"}
    BY <1>1, <1>2
  <2> QED BY <1>1, <2>1, <2>2, AcceptFrame
<1>6. ASSUME NEW e \in Dialogs PROVE DialogInv(e)'
  <2>1. CASE e = d
    BY <1>1, <1>2, <1>4, <2>1, Names DEF DialogInv, Alive
  <2>2. CASE e # d
    <3>1. Alive(e) => /\ home'[e] = home[e] /\ home[e] \in Clients \ {c}
                      /\ open'[home[e]] = e
      BY <1>1, <1>2, <2>2, Names DEF Alive, TypeOK
    <3>2. Alive(e) => Alive(e)'
      BY <3>1 DEF Alive
    <3>3. sender[e] # None => sender[e] \in Dialogs /\ sender[e] # d
      BY <1>1, <1>4 DEF DialogInv, Alive, TypeOK
    <3>4. sender[e] # None => home'[sender[e]] = home'[e]
      BY <1>1, <1>2, <2>2, <3>3 DEF DialogInv
    <3> QED BY <1>1, <1>2, <2>2, <3>2, <3>4 DEF DialogInv
  <2> QED BY <2>1, <2>2
<1>7. ASSUME NEW b \in Clients PROVE ClientInv(b)'
  <2>1. open'[b] # None => home'[open'[b]] = b
    <3>1. CASE b = c
      BY <1>2, <3>1
    <3>2. CASE b # c
      <4>1. open'[b] = open[b] /\ open[b] \in Dialogs \cup {None}
        BY <1>1, <1>2, <3>2 DEF TypeOK
      <4>2. open[b] # None => home[open[b]] = b /\ open[b] # d
        BY <1>1, <1>4, Names DEF ClientInv
      <4> QED BY <1>2, <4>1, <4>2
    <3> QED BY <3>1, <3>2
  <2>2. ASSUME NEW e \in Dialogs, NEW kind \in MessageKinds, <<e, kind>> \in inbox'[b]
        PROVE  home'[e] = b
    <3>1. home[e] = b
      BY <1>1, <2>2 DEF ClientInv, MessageKinds
    <3> QED BY <1>2, <1>4, <3>1, Names
  <2> QED BY <2>1, <2>2 DEF ClientInv, MessageKinds
<1> QED BY <1>1, <1>2, <1>3, <1>5, <1>6, <1>7, ScreenSide

\* No dialog is opened or closed, none is given another sender, and none goes on
\* that did not before.
LEMMA ScreenFrame ==
    ASSUME \A e \in Dialogs : DialogInv(e), \A c \in Clients : ClientInv(c),
           UNCHANGED <<home, open>>,
           \A e \in Dialogs :
               /\ accept'[e].phase \in Live => accept[e].phase \in Live \/ screen[e] = "code"
               /\ screen'[e] = "code" => screen[e] = "code"
               /\ screen'[e] = "off" => screen[e] = "off"
               /\ \/ sender'[e] = sender[e] \/ sender'[e] = None
                  \/ Alive(e) /\ home[sender'[e]] = home[e],
           \A c \in Clients, e \in Dialogs, k \in MessageKinds :
               <<e, k>> \in inbox'[c] => <<e, k>> \in inbox[c] \/ c = home[e]
    PROVE  /\ \A e \in Dialogs : DialogInv(e)'
           /\ \A c \in Clients : ClientInv(c)'
<1>1. \A e \in Dialogs : DialogInv(e)'
  <2> SUFFICES ASSUME NEW e \in Dialogs PROVE DialogInv(e)'
    OBVIOUS
  <2>1. DialogInv(e) /\ (Alive(e)' <=> Alive(e))
    BY DEF Alive
  <2>2. sender'[e] # None => Alive(e) /\ home'[sender'[e]] = home'[e]
    BY <2>1 DEF DialogInv
  <2> QED BY <2>1, <2>2 DEF DialogInv
<1>2. \A c \in Clients : ClientInv(c)'
  BY DEF ClientInv, MessageKinds
<1> QED BY <1>1, <1>2

LEMMA ConnectToDeviceStep ==
    ASSUME JInv, NEW d \in Dialogs, NEW a \in Agents, ConnectToDevice(d, a)
    PROVE  JInv'
<1>1. /\ accept \in [Dialogs -> AcceptRecord] /\ TypeOK
      /\ \A e \in Dialogs : AcceptInv(e) /\ DialogInv(e)
      /\ \A b \in Clients : ClientInv(b)
      /\ screen[d] = "code" /\ shown[a] # None
      /\ UNCHANGED <<agent, shown, mail, serverVars, sender, home, open, inbox, recorded>>
  BY AcceptType DEF JInv, ConnectToDevice
<1>2. PICK r \in AcceptRecord :
          r = [NoAccept EXCEPT !.phase = "lookup", !.wants = a, !.asked = TRUE]
  BY DEF NoAccept, AcceptRecord, AcceptPhases
<1>3. /\ r.phase = "lookup" /\ r.wants = a /\ r.asked = TRUE /\ r.peer = None
      /\ r.typed = None /\ r.sent = "nothing"
  BY <1>2 DEF NoAccept
<1>4. /\ accept' \in [Dialogs -> AcceptRecord] /\ accept'[d] = r
      /\ \A e \in Dialogs \ {d} : accept'[e] = accept[e]
      /\ screen' \in [Dialogs -> Screens] /\ screen'[d] = "loading"
      /\ \A e \in Dialogs \ {d} : screen'[e] = screen[e]
  BY <1>1, <1>2 DEF ConnectToDevice, TypeOK, Screens
<1>5. accept[d] = NoAccept
  BY <1>1 DEF AcceptInv
<1>6. AcceptInv(d)'
  BY <1>1, <1>3, <1>4, Names DEF AcceptInv, Live
<1>7. ASSUME NEW e \in Dialogs PROVE AcceptInv(e)'
  BY <1>1, <1>4, <1>6, <1>7, AcceptFrame DEF serverVars
<1>8. (\A e \in Dialogs : DialogInv(e)') /\ \A c \in Clients : ClientInv(c)'
  BY <1>1, <1>4, ScreenFrame
<1>9. /\ sender' \in [Dialogs -> Dialogs \cup {None}]
      /\ home' \in [Dialogs -> Clients \cup {None}]
      /\ open' \in [Clients -> Dialogs \cup {None}]
      /\ inbox' \in [Clients -> SUBSET (Dialogs \X MessageKinds)]
      /\ recorded' \subseteq Agents
  BY <1>1 DEF TypeOK, MessageKinds
<1>10. \A e \in Dialogs : accept'[e].peer = accept[e].peer
  BY <1>3, <1>4, <1>5, NoAcceptType
<1> QED BY <1>1, <1>4, <1>7, <1>8, <1>9, <1>10, ScreenSide

\* The confirm code goes to the accept_join of the dialog it was typed into: an
\* accept_join of another dialog of the client has ended with its dialog.
LEMMA ConfirmStep ==
    ASSUME JInv, NEW d \in Dialogs, Confirm(d)
    PROVE  JInv'
<1>1. /\ accept \in [Dialogs -> AcceptRecord] /\ TypeOK
      /\ \A e \in Dialogs : AcceptInv(e) /\ DialogInv(e)
      /\ \A b \in Clients : ClientInv(b)
      /\ screen[d] = "confirm" /\ sender[d] # None
      /\ sender' = [sender EXCEPT ![d] = None]
      /\ UNCHANGED <<agent, shown, mail, serverVars, home, open, inbox, recorded>>
  BY AcceptType DEF JInv, Confirm
<1>2. /\ sender' \in [Dialogs -> Dialogs \cup {None}] /\ sender'[d] = None
      /\ \A e \in Dialogs \ {d} : sender'[e] = sender[e]
      /\ home' \in [Dialogs -> Clients \cup {None}]
      /\ open' \in [Clients -> Dialogs \cup {None}]
      /\ inbox' \in [Clients -> SUBSET (Dialogs \X MessageKinds)]
      /\ recorded' \subseteq Agents
  BY <1>1 DEF TypeOK, MessageKinds
<1>3. /\ screen' \in [Dialogs -> Screens] /\ screen'[d] \in {"adding", "error"}
      /\ \A e \in Dialogs \ {d} : screen'[e] = screen[e]
  <2>1. PICK v \in {"adding", "error"} : screen' = [screen EXCEPT ![d] = v]
    BY DEF Confirm
  <2> QED BY <1>1, <2>1 DEF TypeOK, Screens
<1>4. CASE accept[sender[d]].phase = "confirm"
  <2>1. sender[d] = d
    <3>1. sender[d] \in Dialogs /\ Alive(d) /\ home[sender[d]] = home[d]
      BY <1>1 DEF DialogInv, TypeOK
    <3>2. Alive(sender[d])
      BY <1>1, <1>4, <3>1 DEF DialogInv, Live
    <3> QED BY <3>1, <3>2 DEF Alive
  <2>2. PICK t \in {accept[d].wants, None} :
            accept' = [accept EXCEPT ![d].phase = "handshake", ![d].typed = t]
    BY <1>4, <2>1 DEF Confirm
  <2>3. t \in Agents \cup {None}
    BY <1>1 DEF AcceptRecord
  <2>4. /\ accept' \in [Dialogs -> AcceptRecord]
        /\ \A e \in Dialogs \ {d} : accept'[e] = accept[e]
        /\ accept'[d].wants = accept[d].wants /\ accept'[d].typed = t
        /\ accept'[d].sent = accept[d].sent /\ accept'[d].asked = accept[d].asked
        /\ accept'[d].peer = accept[d].peer /\ accept'[d].phase = "handshake"
    BY <1>1, <2>2, <2>3 DEF AcceptRecord, AcceptPhases
  <2>5. accept[d].phase = "confirm"
    BY <1>4, <2>1
  <2>6. AcceptInv(d)'
    BY <1>1, <1>3, <2>4, <2>5 DEF AcceptInv, Live, serverVars
  <2>7. ASSUME NEW e \in Dialogs PROVE AcceptInv(e)'
    BY <1>1, <1>3, <2>4, <2>6, <2>7, AcceptFrame DEF serverVars
  <2>8. (\A e \in Dialogs : DialogInv(e)') /\ \A c \in Clients : ClientInv(c)'
    <3>1. \A e \in Dialogs : accept'[e].phase \in Live => accept[e].phase \in Live
      BY <2>4, <2>5 DEF Live
    <3> QED BY <1>1, <1>2, <1>3, <3>1, ScreenFrame
  <2> QED BY <1>1, <1>2, <1>3, <2>4, <2>7, <2>8, ScreenSide
<1>5. CASE accept[sender[d]].phase # "confirm"
  <2>1. accept' = accept
    BY <1>5 DEF Confirm
  <2>2. ASSUME NEW e \in Dialogs PROVE AcceptInv(e)'
    BY <1>1, <1>3, <2>1, <2>2, AcceptFrame DEF serverVars
  <2>3. (\A e \in Dialogs : DialogInv(e)') /\ \A c \in Clients : ClientInv(c)'
    BY <1>1, <1>2, <1>3, <2>1, ScreenFrame
  <2> QED BY <1>1, <1>2, <1>3, <2>1, <2>2, <2>3, ScreenSide
<1> QED BY <1>4, <1>5

\* The dialog on a client's screen goes.
LEMMA AbortStep ==
    ASSUME JInv, NEW d \in Dialogs, Alive(d), Abort(d),
           UNCHANGED <<agent, shown, mail, serverVars, home>>,
           inbox' \in [Clients -> SUBSET (Dialogs \X MessageKinds)],
           \A c \in Clients, e \in Dialogs, k \in MessageKinds :
               <<e, k>> \in inbox'[c] => <<e, k>> \in inbox[c] \/ c = home[e]
    PROVE  JInv'
<1>1. /\ accept \in [Dialogs -> AcceptRecord] /\ TypeOK
      /\ \A e \in Dialogs : AcceptInv(e) /\ DialogInv(e)
      /\ \A b \in Clients : ClientInv(b)
  BY AcceptType DEF JInv
<1>2. home[d] \in Clients /\ open[home[d]] = d
  BY <1>1 DEF Alive, TypeOK
<1>3. /\ accept' \in [Dialogs -> AcceptRecord]
      /\ \A e \in Dialogs \ {d} : accept'[e] = accept[e]
      /\ accept'[d].wants = accept[d].wants /\ accept'[d].typed = accept[d].typed
      /\ accept'[d].sent = accept[d].sent /\ accept'[d].asked = accept[d].asked
      /\ accept'[d].peer = accept[d].peer
      /\ accept'[d].phase \in {"off", "done", "failed", "aborted"}
  BY <1>1 DEF Abort, AcceptRecord, AcceptPhases
<1>4. /\ screen' \in [Dialogs -> Screens] /\ screen'[d] = "closed"
      /\ \A e \in Dialogs \ {d} : screen'[e] = screen[e]
      /\ sender' \in [Dialogs -> Dialogs \cup {None}] /\ sender'[d] = None
      /\ \A e \in Dialogs \ {d} : sender'[e] = sender[e]
      /\ open' \in [Clients -> Dialogs \cup {None}] /\ open'[home[d]] = None
      /\ \A c \in Clients : c # home[d] => open'[c] = open[c]
      /\ home' \in [Dialogs -> Clients \cup {None}]
  BY <1>1, <1>2 DEF Abort, TypeOK, Screens
<1>5. recorded \subseteq recorded' /\ recorded' \subseteq Agents
  <2>1. CASE accept[d].phase = "adding"
    <3>1. accept[d].peer \in Agents
      BY <1>1, <2>1 DEF AcceptInv, AcceptRecord
    <3> QED BY <1>1, <2>1, <3>1 DEF Abort, TypeOK
  <2>2. CASE accept[d].phase # "adding"
    BY <1>1, <2>2 DEF Abort, TypeOK
  <2> QED BY <2>1, <2>2
<1>6. AcceptInv(d)'
  BY <1>1, <1>3, <1>4, <1>5 DEF AcceptInv, Live, serverVars
<1>7. ASSUME NEW e \in Dialogs PROVE AcceptInv(e)'
  BY <1>1, <1>3, <1>4, <1>5, <1>6, <1>7, AcceptFrame DEF serverVars
<1>8. ASSUME NEW e \in Dialogs PROVE DialogInv(e)'
  <2>1. CASE e = d
    BY <1>3, <1>4, <2>1 DEF DialogInv, Live
  <2>2. CASE e # d
    <3>1. Alive(e) => home[e] \in Clients /\ home[e] # home[d] /\ open'[home[e]] = e
      BY <1>1, <1>2, <1>4, <2>2 DEF Alive, TypeOK
    <3>2. Alive(e) => Alive(e)'
      BY <3>1 DEF Alive
    <3> QED BY <1>1, <1>3, <1>4, <2>2, <3>2 DEF DialogInv
  <2> QED BY <2>1, <2>2
<1>9. ASSUME NEW c \in Clients PROVE ClientInv(c)'
  <2>1. open'[c] # None => home'[open'[c]] = c
    BY <1>1, <1>4 DEF ClientInv
  <2>2. ASSUME NEW e \in Dialogs, NEW kind \in MessageKinds, <<e, kind>> \in inbox'[c]
        PROVE  home'[e] = c
    BY <1>1, <2>2 DEF ClientInv, MessageKinds
  <2> QED BY <2>1, <2>2 DEF ClientInv, MessageKinds
<1> QED BY <1>3, <1>4, <1>5, <1>7, <1>8, <1>9, ScreenSide

\* A client's messages after one was worked off and some of a dialog's were added.
LEMMA InboxFacts ==
    ASSUME TypeOK, NEW c \in Clients, NEW N, N \subseteq Dialogs \X MessageKinds,
           \A e \in Dialogs, k \in MessageKinds :
               <<e, k>> \in N => <<e, k>> \in inbox[c] \/ c = home[e],
           inbox' = [inbox EXCEPT ![c] = N]
    PROVE  /\ inbox' \in [Clients -> SUBSET (Dialogs \X MessageKinds)]
           /\ \A b \in Clients, e \in Dialogs, k \in MessageKinds :
                 <<e, k>> \in inbox'[b] => <<e, k>> \in inbox[b] \/ b = home[e]
<1>1. inbox \in [Clients -> SUBSET (Dialogs \X MessageKinds)]
  BY DEF TypeOK, MessageKinds
<1> HIDE DEF MessageKinds
<1>2. inbox' \in [Clients -> SUBSET (Dialogs \X MessageKinds)]
  BY <1>1
<1>3. ASSUME NEW b \in Clients, NEW e \in Dialogs, NEW k \in MessageKinds, <<e, k>> \in inbox'[b]
      PROVE  <<e, k>> \in inbox[b] \/ b = home[e]
  <2>1. CASE b = c
    BY <1>1, <1>3, <2>1
  <2>2. CASE b # c
    BY <1>1, <1>3, <2>2
  <2> QED BY <2>1, <2>2
<1> QED BY <1>2, <1>3

LEMMA CancelStep ==
    ASSUME JInv, NEW d \in Dialogs, Cancel(d)
    PROVE  JInv'
<1>1. /\ TypeOK /\ Alive(d) /\ Abort(d) /\ home[d] \in Clients
      /\ UNCHANGED <<agent, shown, mail, serverVars, home>>
      /\ inbox' = [inbox EXCEPT ![home[d]] = inbox[home[d]] \cup Dropped(d)]
  BY DEF JInv, TypeOK, Cancel, Alive
<1>2. PICK c \in Clients : c = home[d]
  BY <1>1
<1>3. PICK N : N = inbox[c] \cup Dropped(d)
  OBVIOUS
<1>4. /\ inbox' \in [Clients -> SUBSET (Dialogs \X MessageKinds)]
      /\ \A b \in Clients, e \in Dialogs, k \in MessageKinds :
            <<e, k>> \in inbox'[b] => <<e, k>> \in inbox[b] \/ b = home[e]
  <2>1. /\ N \subseteq Dialogs \X MessageKinds
        /\ \A e \in Dialogs, k \in MessageKinds :
               <<e, k>> \in N => <<e, k>> \in inbox[c] \/ c = home[e]
    BY <1>1, <1>2, <1>3 DEF Dropped, MessageKinds, TypeOK
  <2>2. inbox' = [inbox EXCEPT ![c] = N]
    BY <1>1, <1>2, <1>3
  <2>3. TypeOK
    BY <1>1
  <2> QED BY <1>2, <2>1, <2>2, <2>3, InboxFacts
<1> QED BY <1>1, <1>4, AbortStep

LEMMA ReceiveDoneStep ==
    ASSUME JInv, NEW c \in Clients, ReceiveDone(c)
    PROVE  JInv'
<1>1. PICK d \in Dialogs : d = open[c]
  BY DEF JInv, TypeOK, ReceiveDone
<1>2. TypeOK /\ home[d] = c /\ Alive(d)
  BY <1>1, Names DEF JInv, ClientInv, Alive
<1>3. /\ Abort(d) /\ UNCHANGED <<agent, shown, mail, serverVars, home>>
  BY <1>1 DEF ReceiveDone
<1>4. PICK msg \in inbox[c] : inbox' = [inbox EXCEPT ![c] = (inbox[c] \ {msg}) \cup Dropped(d)]
  BY <1>1 DEF ReceiveDone
<1>5. PICK N : N = (inbox[c] \ {msg}) \cup Dropped(d)
  OBVIOUS
<1>6. /\ inbox' \in [Clients -> SUBSET (Dialogs \X MessageKinds)]
      /\ \A b \in Clients, e \in Dialogs, k \in MessageKinds :
            <<e, k>> \in inbox'[b] => <<e, k>> \in inbox[b] \/ b = home[e]
  <2>1. /\ N \subseteq Dialogs \X MessageKinds
        /\ \A e \in Dialogs, k \in MessageKinds :
               <<e, k>> \in N => <<e, k>> \in inbox[c] \/ c = home[e]
    BY <1>2, <1>5 DEF Dropped, MessageKinds, TypeOK
  <2>2. inbox' = [inbox EXCEPT ![c] = N]
    BY <1>4, <1>5
  <2> QED BY <1>2, <2>1, <2>2, InboxFacts
<1> QED BY <1>2, <1>3, <1>6, AbortStep

\* A message is only worked off; at most the screen changes.
LEMMA ReceiveErrorStep ==
    ASSUME JInv, NEW c \in Clients, Ignore(c) \/ ReceiveError(c)
    PROVE  JInv'
<1>1. /\ accept \in [Dialogs -> AcceptRecord] /\ TypeOK
      /\ \A e \in Dialogs : AcceptInv(e) /\ DialogInv(e)
      /\ \A b \in Clients : ClientInv(b)
  BY AcceptType DEF JInv
<1>2. UNCHANGED <<agent, shown, mail, serverVars, accept, sender, home, open, recorded>>
  BY DEF Ignore, ReceiveError, acceptFrame
<1>3. PICK msg \in inbox[c] : inbox' = [inbox EXCEPT ![c] = inbox[c] \ {msg}]
  BY DEF Ignore, ReceiveError
<1>4. /\ inbox' \in [Clients -> SUBSET (Dialogs \X MessageKinds)]
      /\ \A b \in Clients, e \in Dialogs, k \in MessageKinds :
            <<e, k>> \in inbox'[b] => <<e, k>> \in inbox[b] \/ b = home[e]
  <2>1. PICK N : N = inbox[c] \ {msg}
    OBVIOUS
  <2>2. /\ N \subseteq Dialogs \X MessageKinds
        /\ \A e \in Dialogs, k \in MessageKinds : <<e, k>> \in N => <<e, k>> \in inbox[c]
    BY <1>1, <2>1 DEF MessageKinds, TypeOK
  <2> QED BY <1>1, <1>3, <2>1, <2>2, InboxFacts
<1>5. /\ screen' \in [Dialogs -> Screens]
      /\ \A e \in Dialogs : screen'[e] = screen[e] \/ screen'[e] = "error"
  <2>1. CASE Ignore(c)
    BY <1>1, <2>1 DEF Ignore, acceptFrame, TypeOK, Screens
  <2>2. CASE ReceiveError(c)
    BY <1>1, <2>2 DEF ReceiveError, TypeOK, Screens
  <2> QED BY <2>1, <2>2
<1>6. ASSUME NEW e \in Dialogs PROVE AcceptInv(e)'
  BY <1>1, <1>2, <1>5, <1>6, AcceptFrame DEF serverVars
<1>7. (\A e \in Dialogs : DialogInv(e)') /\ \A b \in Clients : ClientInv(b)'
  BY <1>1, <1>2, <1>4, <1>5, ScreenFrame
<1>8. /\ sender' \in [Dialogs -> Dialogs \cup {None}]
      /\ home' \in [Dialogs -> Clients \cup {None}]
      /\ open' \in [Clients -> Dialogs \cup {None}] /\ recorded' \subseteq Agents
  BY <1>1, <1>2 DEF TypeOK
<1> QED BY <1>1, <1>2, <1>4, <1>5, <1>6, <1>7, <1>8, ScreenSide

\* The open dialog takes the sender of an accept_join of its client.
LEMMA ReceiveConfirmStep ==
    ASSUME JInv, NEW c \in Clients, ReceiveConfirm(c)
    PROVE  JInv'
<1>1. /\ accept \in [Dialogs -> AcceptRecord] /\ TypeOK
      /\ \A e \in Dialogs : AcceptInv(e) /\ DialogInv(e)
      /\ \A b \in Clients : ClientInv(b)
      /\ UNCHANGED <<agent, shown, mail, serverVars, home, open, recorded>>
  BY AcceptType DEF JInv, ReceiveConfirm
<1>2. PICK d \in Dialogs : d = open[c]
  BY DEF JInv, TypeOK, ReceiveConfirm
<1>3. PICK held \in Dialogs \cup {None} : held = sender[d]
  BY <1>1 DEF TypeOK
<1>4. PICK ends \in BOOLEAN : ends <=> held # None /\ accept[held].phase = "confirm"
  OBVIOUS
<1>5. PICK msg \in inbox[c] :
          /\ msg[2] = "confirm"
          /\ sender' = [sender EXCEPT ![d] = msg[1]]
          /\ screen' = [screen EXCEPT ![d] = "confirm"]
          /\ accept' = IF ends THEN [accept EXCEPT ![held].phase = "failed"] ELSE accept
          /\ inbox' = [inbox EXCEPT ![c] = (inbox[c] \ {msg})
                          \cup (IF ends THEN {<<held, "error">>} ELSE {})]
  <2>1. d # None
    BY Names
  <2> QED BY <1>2, <1>3, <1>4, <2>1 DEF ReceiveConfirm
<1>6. home[d] = c /\ Alive(d)
  BY <1>1, <1>2, Names DEF ClientInv, Alive
<1>7. msg[1] \in Dialogs /\ home[msg[1]] = c
  <2>1. msg \in Dialogs \X MessageKinds
    BY <1>1, <1>5 DEF TypeOK, MessageKinds
  <2>2. PICK e \in Dialogs, k \in MessageKinds : msg = <<e, k>>
    BY <2>1
  <2>3. home[e] = c
    BY <1>1, <2>2 DEF ClientInv, MessageKinds
  <2> QED BY <2>2, <2>3
<1>8. ends => held \in Dialogs /\ home[held] = c /\ accept[held].phase = "confirm"
  BY <1>1, <1>3, <1>4, <1>6 DEF DialogInv
<1>9. /\ inbox' \in [Clients -> SUBSET (Dialogs \X MessageKinds)]
      /\ \A b \in Clients, e \in Dialogs, k \in MessageKinds :
            <<e, k>> \in inbox'[b] => <<e, k>> \in inbox[b] \/ b = home[e]
  <2>1. PICK N : N = (inbox[c] \ {msg}) \cup (IF ends THEN {<<held, "error">>} ELSE {})
    OBVIOUS
  <2>2. /\ N \subseteq Dialogs \X MessageKinds
        /\ \A e \in Dialogs, k \in MessageKinds :
               <<e, k>> \in N => <<e, k>> \in inbox[c] \/ c = home[e]
    BY <1>1, <1>8, <2>1 DEF MessageKinds, TypeOK
  <2>3. inbox' = [inbox EXCEPT ![c] = N]
    BY <1>5, <2>1
  <2> QED BY <1>1, <2>2, <2>3, InboxFacts
<1>10. /\ screen' \in [Dialogs -> Screens] /\ sender' \in [Dialogs -> Dialogs \cup {None}]
       /\ screen'[d] = "confirm" /\ sender'[d] = msg[1]
       /\ \A e \in Dialogs \ {d} : screen'[e] = screen[e] /\ sender'[e] = sender[e]
  BY <1>1, <1>5, <1>7 DEF TypeOK, Screens
<1>11. accept' \in [Dialogs -> AcceptRecord]
  BY <1>1, <1>5, <1>8 DEF AcceptRecord, AcceptPhases
<1>12. \A e \in Dialogs : ~(ends /\ e = held) => accept'[e] = accept[e]
  BY <1>1, <1>5
<1>13. ends =>
         /\ accept'[held].wants = accept[held].wants /\ accept'[held].typed = accept[held].typed
         /\ accept'[held].sent = accept[held].sent /\ accept'[held].asked = accept[held].asked
         /\ accept'[held].peer = accept[held].peer /\ accept'[held].phase = "failed"
  BY <1>1, <1>5, <1>8 DEF AcceptRecord
<1>14. ASSUME NEW e \in Dialogs PROVE AcceptInv(e)'
  <2>1. CASE ends /\ e = held
    <3>1. screen[e] \notin {"off", "code"}
      BY <1>1, <1>8, <2>1, NoAcceptType DEF AcceptInv
    <3>2. screen'[e] \notin {"off", "code"}
      BY <1>10, <3>1
    <3> QED BY <1>1, <1>13, <2>1, <3>2 DEF AcceptInv, Live, serverVars
  <2>2. CASE ~(ends /\ e = held)
    BY <1>1, <1>10, <1>12, <2>2, AcceptFrame DEF serverVars
  <2> QED BY <2>1, <2>2
<1>15. (\A e \in Dialogs : DialogInv(e)') /\ \A b \in Clients : ClientInv(b)'
  <2>1. \A e \in Dialogs : accept'[e].phase \in Live => accept[e].phase \in Live
    BY <1>12, <1>13 DEF Live
  <2>2. \A e \in Dialogs : \/ sender'[e] = sender[e]
                           \/ Alive(e) /\ home[sender'[e]] = home[e]
    BY <1>6, <1>7, <1>10
  <2> QED BY <1>1, <1>9, <1>10, <2>1, <2>2, ScreenFrame
<1>16. /\ home' \in [Dialogs -> Clients \cup {None}]
       /\ open' \in [Clients -> Dialogs \cup {None}] /\ recorded' \subseteq Agents
  BY <1>1 DEF TypeOK
<1>17. \A e \in Dialogs : accept'[e].peer = accept[e].peer
  BY <1>12, <1>13
<1> QED BY <1>1, <1>9, <1>10, <1>11, <1>14, <1>15, <1>16, <1>17, ScreenSide

(***************************************************************************)
(* The invariant holds.                                                    *)
(***************************************************************************)
LEMMA InitInv == Init => JInv
<1> SUFFICES ASSUME Init PROVE JInv
  OBVIOUS
<1>1. TypeOK
  BY InitType
<1>2. \A d \in Dialogs : accept[d] = NoAccept
  BY DEF Init
<1>3. ToldIsRecorded /\ MapInv /\ PeerInv
  BY <1>2, NoAcceptType DEF Init, ToldIsRecorded, MapInv, PeerInv
<1>4. \A a \in Agents : SessionInv(a)
  BY DEF Init, SessionInv, Secure
<1>5. \A d \in Dialogs : AcceptInv(d) /\ DialogInv(d)
  BY <1>2, NoAcceptType DEF Init, AcceptInv, DialogInv, Live
<1>6. \A c \in Clients : ClientInv(c)
  BY DEF Init, ClientInv
<1> QED BY <1>1, <1>3, <1>4, <1>5, <1>6 DEF JInv

LEMMA StutterInv == JInv /\ UNCHANGED vars => JInv'
<1> SUFFICES ASSUME JInv, UNCHANGED vars PROVE JInv'
  OBVIOUS
<1>0. UNCHANGED <<agent, shown, mail, request, code, timer, sessionMap, accept, screen, sender,
                  home, open, inbox, recorded>>
  BY DEF vars
<1>1. TypeOK' /\ ToldIsRecorded'
  BY <1>0 DEF JInv, TypeOK, ToldIsRecorded
<1>2. MapInv' /\ PeerInv'
  BY <1>0 DEF JInv, MapInv, PeerInv
<1>3. \A a \in Agents : SessionInv(a)'
  BY <1>0 DEF JInv, SessionInv
<1>4. \A d \in Dialogs : AcceptInv(d)'
  BY <1>0 DEF JInv, AcceptInv
<1>5. \A d \in Dialogs : DialogInv(d)'
  BY <1>0 DEF JInv, DialogInv, Alive
<1>6. \A c \in Clients : ClientInv(c)'
  BY <1>0 DEF JInv, ClientInv
<1> QED BY <1>1, <1>2, <1>3, <1>4, <1>5, <1>6 DEF JInv

LEMMA NextInv == JInv /\ Next => JInv'
<1> SUFFICES ASSUME JInv, Next PROVE JInv'
  OBVIOUS
<1>1. ASSUME NEW a \in Agents,
             Start(a) \/ AgentStops(a) \/ LinkLost(a) \/ ServerStep(a) \/ AgentStep(a)
      PROVE  JInv'
  <2>1. CASE Start(a) \/ AgentStops(a) \/ LinkLost(a)
    BY <2>1, StartStep, AgentFailsStep, LinkStep
  <2>2. CASE ServerStep(a)
    BY <2>2, WriteCodeStep, InsertStep, TimerDueStep, TimeoutStep, LinkStep DEF ServerStep
  <2>3. CASE AgentStep(a)
    BY <2>3, ReadCodeStep, AgentFailsStep, HandshakeStep, ReadCertificatesStep,
       ReadResultStep, SaveStep DEF AgentStep
  <2> QED BY <1>1, <2>1, <2>2, <2>3
<1>2. ASSUME NEW d \in Dialogs,
             \/ \E c \in Clients : Open(d, c)
             \/ \E a \in Agents : ConnectToDevice(d, a)
             \/ Confirm(d) \/ Cancel(d) \/ AcceptLost(d) \/ AcceptStep(d)
      PROVE  JInv'
  <2>1. CASE AcceptStep(d)
    BY <2>1, TakeSessionStep, AskForConfirmStep, EnrollStep, AddToTrustStoreStep,
       SendResultStep, AcceptFailsStep DEF AcceptStep
  <2>2. CASE Confirm(d) \/ Cancel(d) \/ AcceptLost(d)
    BY <2>2, ConfirmStep, CancelStep, AcceptFailsStep
  <2> QED BY <1>2, <2>1, <2>2, OpenStep, ConnectToDeviceStep
<1>3. ASSUME NEW c \in Clients, Receive(c) PROVE JInv'
  BY <1>3, ReceiveErrorStep, ReceiveConfirmStep, ReceiveDoneStep DEF Receive
<1> QED BY <1>1, <1>2, <1>3 DEF Next

LEMMA JoinInvariant == Spec => []JInv
<1>1. JInv /\ [Next]_vars => JInv'
  BY NextInv, StutterInv
<1> QED BY InitInv, <1>1, PTL DEF Spec

(***************************************************************************)
(* The theorems.                                                           *)
(***************************************************************************)

\* Every variable keeps its type: no step of an agent, the server's two
\* handlers or a client's dialog leaves a session, a code or a message of an
\* unknown kind behind, and an agent's session holds at most two codes.
THEOREM JoinTypeCorrect == Spec => []TypeOK
<1>1. JInv => TypeOK
  BY DEF JInv
<1> QED BY <1>1, JoinInvariant, PTL

\* However many agents and dialogs there are and however their join codes
\* collide, accept_join sends a certificate only to the agent at which the user
\* of that dialog stands.
THEOREM EnrolledIsAlwaysWanted == Spec => []EnrolledIsWanted
<1>1. JInv => EnrolledIsWanted
  BY DEF JInv, AcceptInv, EnrolledIsWanted
<1> QED BY <1>1, JoinInvariant, PTL

\* An agent that goes on to save its configuration was entered into the trust
\* store: accept_join writes Ok only after add_cert_to_trust_store.
THEOREM ToldIsAlwaysRecorded == Spec => []ToldIsRecorded
<1>1. JInv => ToldIsRecorded
  BY DEF JInv
<1> QED BY <1>1, JoinInvariant, PTL

\* A session that waits for a client stays in session_map under its code, with a
\* timer that will end the wait: neither another session's timeout nor a
\* colliding code removes it.
THEOREM WaitingIsAlwaysFound == Spec => []WaitingIsFound
<1>1. JInv => WaitingIsFound
  BY DEF JInv, SessionInv, WaitingIsFound
<1> QED BY <1>1, JoinInvariant, PTL
=============================================================================

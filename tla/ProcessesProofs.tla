---------------------------- MODULE ProcessesProofs ----------------------------
(***************************************************************************)
(* Theorems about exchanges of Processes.                                  *)
(*                                                                         *)
(* ServerSetup: a server is initialised by one client (InitialisedByOne),  *)
(* for any number of clients, of kills of the server and of connections    *)
(* that break.  The three places that must agree (the users table,         *)
(* base_config.json and trust_store.json) are written in three steps, by a *)
(* handler under the mutex of its channel and later by Server::start, and  *)
(* the server can be killed between any two of them.  HandlerInv follows   *)
(* the handler that holds the mutex, StartInv the value it has handed      *)
(* over; InterruptedInv says which states only an interruption explains.   *)
(*                                                                         *)
(* Tunnels: an open port or stream can be closed or was told to end        *)
(* (TunnelsAreKnown), because a value is sent to a tunnel only to end it   *)
(* (ToldToEnd).                                                            *)
(*                                                                         *)
(* Sessions: a session enters the server's table only after password and   *)
(* TOTP (SessionsAreProven).  A login is two scripts that alternate; what  *)
(* keeps them honest is that a step of the handler that proves something   *)
(* is only ever behind the steps that come before it in its script         *)
(* (RpcInv), wherever either side has stopped.                             *)
(*                                                                         *)
(* Terminal: a side reads what the other wrote (ReadsWhatWasWritten).      *)
(* StreamInv says of one direction that what was read, what is in transit  *)
(* and what is still to be written are together what was sent, until a     *)
(* read is torn; PtyInv says it of both.                                   *)
(*                                                                         *)
(* All five exchanges are well typed (ProcessesTypeOK).  For sessions that *)
(* takes the steps each side may have left (StepsOf); for the client that  *)
(* adds agents it is the theorem of TrustSyncProofs.                       *)
(***************************************************************************)
EXTENDS Processes, Sequences, TLAPS

\* The stages of InitHandler::handle in which it holds the mutex.
Holding == {"request", "add", "answer", "confirm"}

\* What the handler that holds the mutex has done so far.
HandlerInv ==
    /\ hasChannel => server = "init"
    /\ \A c \in Clients :
          /\ handler[c] \in Holding => server = "init"
          /\ handler[c] \in {"answer", "confirm"} => usersRow = c
          /\ handler[c] = "confirm" => ~hasChannel

\* What it has handed over is what becomes of the files.
StartInv ==
    /\ server \in {"close", "config", "trust"} => success # NoClient /\ success = usersRow
    /\ server = "trust" => configFile = success

\* A root user nobody confirmed, a client that does not wait for its answer and
\* a server that is down come from an interruption.
InterruptedInv ==
    /\ server = "down" => stops + breaks > 0
    /\ \A c \in Clients :
          /\ handler[c] \in {"request", "add"} /\ usersRow # NoClient => stops + breaks > 0
          /\ handler[c] \in {"add", "answer"} /\ client[c] # "wait" => breaks > 0

\* The inductive invariant.
SetupInv ==
    /\ TypeOK
    /\ OneInitialisation /\ LockedOutOnlyWhenInterrupted
    /\ HandlerInv /\ StartInv /\ InterruptedInv

(***************************************************************************)
(* Server::start.                                                          *)
(***************************************************************************)
LEMMA StartReadyStep ==
    ASSUME SetupInv, StartReady
    PROVE  SetupInv'
<1> USE SetupAssumption DEF SetupInv, TypeOK, StartReady, files
<1>1. TypeOK'
  OBVIOUS
<1>2. OneInitialisation'
  BY DEF OneInitialisation, HandlerInv, StartInv, Holding
<1>3. LockedOutOnlyWhenInterrupted'
  BY DEF LockedOutOnlyWhenInterrupted, HandlerInv, InterruptedInv, Holding
<1>4. HandlerInv'
  BY DEF HandlerInv, Holding
<1>5. StartInv'
  BY DEF StartInv, HandlerInv, Holding, OneInitialisation
<1>6. InterruptedInv'
  BY DEF InterruptedInv, LockedOutOnlyWhenInterrupted, HandlerInv, Holding
<1> QED BY <1>1, <1>2, <1>3, <1>4, <1>5, <1>6

LEMMA StartInitStep ==
    ASSUME SetupInv, StartInit
    PROVE  SetupInv'
<1> USE SetupAssumption DEF SetupInv, TypeOK, StartInit, files
<1>1. TypeOK'
  OBVIOUS
<1>2. OneInitialisation'
  BY DEF OneInitialisation, HandlerInv, StartInv, Holding
<1>3. LockedOutOnlyWhenInterrupted'
  BY DEF LockedOutOnlyWhenInterrupted, HandlerInv, InterruptedInv, Holding
<1>4. HandlerInv'
  BY DEF HandlerInv, Holding
<1>5. StartInv'
  BY DEF StartInv, HandlerInv, Holding, OneInitialisation
<1>6. InterruptedInv'
  BY DEF InterruptedInv, LockedOutOnlyWhenInterrupted, HandlerInv, Holding
<1> QED BY <1>1, <1>2, <1>3, <1>4, <1>5, <1>6

LEMMA CloseInitServerStep ==
    ASSUME SetupInv, CloseInitServer
    PROVE  SetupInv'
<1> USE SetupAssumption DEF SetupInv, TypeOK, CloseInitServer, files
<1>1. TypeOK'
  BY DEF HandlerInv, Holding
<1>2. OneInitialisation'
  BY DEF OneInitialisation, HandlerInv, StartInv, Holding
<1>3. LockedOutOnlyWhenInterrupted'
  BY DEF LockedOutOnlyWhenInterrupted, HandlerInv, InterruptedInv, Holding
<1>4. HandlerInv'
  BY DEF HandlerInv, Holding
<1>5. StartInv'
  BY DEF StartInv, HandlerInv, Holding, OneInitialisation
<1>6. InterruptedInv'
  BY DEF InterruptedInv, LockedOutOnlyWhenInterrupted, HandlerInv, Holding
<1> QED BY <1>1, <1>2, <1>3, <1>4, <1>5, <1>6

\* The first of the two files: from here on only the second is missing.
LEMMA SaveConfigStep ==
    ASSUME SetupInv, SaveConfig
    PROVE  SetupInv'
<1> USE SetupAssumption DEF SetupInv, TypeOK, SaveConfig, files
<1>1. TypeOK'
  OBVIOUS
<1>2. OneInitialisation'
  BY DEF OneInitialisation, HandlerInv, StartInv, Holding
<1>3. LockedOutOnlyWhenInterrupted'
  BY DEF LockedOutOnlyWhenInterrupted, HandlerInv, InterruptedInv, Holding
<1>4. HandlerInv'
  BY DEF HandlerInv, Holding
<1>5. StartInv'
  BY DEF StartInv, HandlerInv, Holding, OneInitialisation
<1>6. InterruptedInv'
  BY DEF InterruptedInv, LockedOutOnlyWhenInterrupted, HandlerInv, Holding
<1> QED BY <1>1, <1>2, <1>3, <1>4, <1>5, <1>6

LEMMA SaveTrustStoreStep ==
    ASSUME SetupInv, SaveTrustStore
    PROVE  SetupInv'
<1> USE SetupAssumption DEF SetupInv, TypeOK, SaveTrustStore, files
<1>1. TypeOK'
  OBVIOUS
<1>2. OneInitialisation'
  BY DEF OneInitialisation, HandlerInv, StartInv, Holding
<1>3. LockedOutOnlyWhenInterrupted'
  BY DEF LockedOutOnlyWhenInterrupted, HandlerInv, InterruptedInv, Holding
<1>4. HandlerInv'
  BY DEF HandlerInv, Holding
<1>5. StartInv'
  BY DEF StartInv, HandlerInv, Holding, OneInitialisation
<1>6. InterruptedInv'
  BY DEF InterruptedInv, LockedOutOnlyWhenInterrupted, HandlerInv, Holding
<1> QED BY <1>1, <1>2, <1>3, <1>4, <1>5, <1>6

\* What is left is in the table and the files.
LEMMA StopStep ==
    ASSUME SetupInv, Stop
    PROVE  SetupInv'
<1> USE SetupAssumption DEF SetupInv, TypeOK, Stop, files
<1>1. TypeOK'
  <2>1. \A n \in 0 .. MaxStops : n < MaxStops => n + 1 \in 0 .. MaxStops
    OBVIOUS
  <2>2. stops' \in 0 .. MaxStops
    BY <2>1
  <2> QED BY <2>2
<1>2. OneInitialisation'
  BY DEF OneInitialisation, HandlerInv, StartInv, Holding
<1>3. LockedOutOnlyWhenInterrupted'
  BY DEF LockedOutOnlyWhenInterrupted, HandlerInv, InterruptedInv, Holding
<1>4. HandlerInv'
  BY DEF HandlerInv, Holding
<1>5. StartInv'
  BY DEF StartInv, HandlerInv, Holding, OneInitialisation
<1>6. InterruptedInv'
  BY DEF InterruptedInv, LockedOutOnlyWhenInterrupted, HandlerInv, Holding
<1> QED BY <1>1, <1>2, <1>3, <1>4, <1>5, <1>6

(***************************************************************************)
(* InitHandler::handle.                                                    *)
(***************************************************************************)
LEMMA LockChannelStep ==
    ASSUME SetupInv, NEW c \in Clients, LockChannel(c)
    PROVE  SetupInv'
<1> USE SetupAssumption DEF SetupInv, TypeOK, LockChannel, HandlerFails, files
<1>1. TypeOK'
  OBVIOUS
<1>2. OneInitialisation'
  BY DEF OneInitialisation, HandlerInv, StartInv, Holding
<1>3. LockedOutOnlyWhenInterrupted'
  BY DEF LockedOutOnlyWhenInterrupted, HandlerInv, InterruptedInv, Holding
<1>4. HandlerInv'
  BY DEF HandlerInv, Holding
<1>5. StartInv'
  BY DEF StartInv, HandlerInv, Holding, OneInitialisation
<1>6. InterruptedInv'
  BY DEF InterruptedInv, LockedOutOnlyWhenInterrupted, HandlerInv, Holding
<1> QED BY <1>1, <1>2, <1>3, <1>4, <1>5, <1>6

\* The only step that enters a user; there are no files then, and nobody was told.
LEMMA AddRootUserStep ==
    ASSUME SetupInv, NEW c \in Clients, AddRootUser(c)
    PROVE  SetupInv'
<1> USE SetupAssumption DEF SetupInv, TypeOK, AddRootUser, HandlerFails, files
<1>1. TypeOK'
  OBVIOUS
<1>2. OneInitialisation'
  BY DEF OneInitialisation, HandlerInv, StartInv, Holding
<1>3. LockedOutOnlyWhenInterrupted'
  BY DEF LockedOutOnlyWhenInterrupted, HandlerInv, InterruptedInv, Holding
<1>4. HandlerInv'
  BY DEF HandlerInv, Holding
<1>5. StartInv'
  BY DEF StartInv, HandlerInv, Holding, OneInitialisation
<1>6. InterruptedInv'
  BY DEF InterruptedInv, LockedOutOnlyWhenInterrupted, HandlerInv, Holding
<1> QED BY <1>1, <1>2, <1>3, <1>4, <1>5, <1>6

LEMMA AnswerOkStep ==
    ASSUME SetupInv, NEW c \in Clients, AnswerOk(c)
    PROVE  SetupInv'
<1> USE SetupAssumption DEF SetupInv, TypeOK, AnswerOk, files
<1>1. TypeOK'
  OBVIOUS
<1>2. OneInitialisation'
  BY DEF OneInitialisation, HandlerInv, StartInv, Holding
<1>3. LockedOutOnlyWhenInterrupted'
  BY DEF LockedOutOnlyWhenInterrupted, HandlerInv, InterruptedInv, Holding
<1>4. HandlerInv'
  BY DEF HandlerInv, Holding
<1>5. StartInv'
  BY DEF StartInv, HandlerInv, Holding, OneInitialisation
<1>6. InterruptedInv'
  BY DEF InterruptedInv, LockedOutOnlyWhenInterrupted, HandlerInv, Holding
<1> QED BY <1>1, <1>2, <1>3, <1>4, <1>5, <1>6

LEMMA SendSuccessStep ==
    ASSUME SetupInv, NEW c \in Clients, SendSuccess(c)
    PROVE  SetupInv'
<1> USE SetupAssumption DEF SetupInv, TypeOK, SendSuccess, files
<1>1. TypeOK'
  OBVIOUS
<1>2. OneInitialisation'
  BY DEF OneInitialisation, HandlerInv, StartInv, Holding
<1>3. LockedOutOnlyWhenInterrupted'
  BY DEF LockedOutOnlyWhenInterrupted, HandlerInv, InterruptedInv, Holding
<1>4. HandlerInv'
  BY DEF HandlerInv, Holding
<1>5. StartInv'
  BY DEF StartInv, HandlerInv, Holding, OneInitialisation
<1>6. InterruptedInv'
  BY DEF InterruptedInv, LockedOutOnlyWhenInterrupted, HandlerInv, Holding
<1> QED BY <1>1, <1>2, <1>3, <1>4, <1>5, <1>6

LEMMA AnswerFailsStep ==
    ASSUME SetupInv, NEW c \in Clients, AnswerFails(c)
    PROVE  SetupInv'
<1> USE SetupAssumption DEF SetupInv, TypeOK, AnswerFails, files
<1>1. TypeOK'
  OBVIOUS
<1>2. OneInitialisation'
  BY DEF OneInitialisation, HandlerInv, StartInv, Holding
<1>3. LockedOutOnlyWhenInterrupted'
  BY DEF LockedOutOnlyWhenInterrupted, HandlerInv, InterruptedInv, Holding
<1>4. HandlerInv'
  BY DEF HandlerInv, Holding
<1>5. StartInv'
  BY DEF StartInv, HandlerInv, Holding, OneInitialisation
<1>6. InterruptedInv'
  BY DEF InterruptedInv, LockedOutOnlyWhenInterrupted, HandlerInv, Holding
<1> QED BY <1>1, <1>2, <1>3, <1>4, <1>5, <1>6

(***************************************************************************)
(* The client, and connections that break.                                 *)
(***************************************************************************)
LEMMA SendRequestStep ==
    ASSUME SetupInv, NEW c \in Clients, SendRequest(c)
    PROVE  SetupInv'
<1> USE SetupAssumption DEF SetupInv, TypeOK, SendRequest, files
<1>1. TypeOK'
  OBVIOUS
<1>2. OneInitialisation'
  BY DEF OneInitialisation, HandlerInv, StartInv, Holding
<1>3. LockedOutOnlyWhenInterrupted'
  BY DEF LockedOutOnlyWhenInterrupted, HandlerInv, InterruptedInv, Holding
<1>4. HandlerInv'
  BY DEF HandlerInv, Holding
<1>5. StartInv'
  BY DEF StartInv, HandlerInv, Holding, OneInitialisation
<1>6. InterruptedInv'
  BY DEF InterruptedInv, LockedOutOnlyWhenInterrupted, HandlerInv, Holding
<1> QED BY <1>1, <1>2, <1>3, <1>4, <1>5, <1>6

\* Who reads Ok is the root user.
LEMMA ReadOkStep ==
    ASSUME SetupInv, NEW c \in Clients, ReadOk(c)
    PROVE  SetupInv'
<1> USE SetupAssumption DEF SetupInv, TypeOK, ReadOk, files
<1>1. TypeOK'
  OBVIOUS
<1>2. OneInitialisation'
  BY DEF OneInitialisation, HandlerInv, StartInv, Holding
<1>3. LockedOutOnlyWhenInterrupted'
  BY DEF LockedOutOnlyWhenInterrupted, HandlerInv, InterruptedInv, Holding
<1>4. HandlerInv'
  BY DEF HandlerInv, Holding
<1>5. StartInv'
  BY DEF StartInv, HandlerInv, Holding, OneInitialisation
<1>6. InterruptedInv'
  BY DEF InterruptedInv, LockedOutOnlyWhenInterrupted, HandlerInv, Holding
<1> QED BY <1>1, <1>2, <1>3, <1>4, <1>5, <1>6

LEMMA ConnectAgainStep ==
    ASSUME SetupInv, NEW c \in Clients, ConnectAgain(c)
    PROVE  SetupInv'
<1> USE SetupAssumption DEF SetupInv, TypeOK, ConnectAgain, files
<1>1. TypeOK'
  OBVIOUS
<1>2. OneInitialisation'
  BY DEF OneInitialisation, HandlerInv, StartInv, Holding
<1>3. LockedOutOnlyWhenInterrupted'
  BY DEF LockedOutOnlyWhenInterrupted, HandlerInv, InterruptedInv, Holding
<1>4. HandlerInv'
  BY DEF HandlerInv, Holding
<1>5. StartInv'
  BY DEF StartInv, HandlerInv, Holding, OneInitialisation
<1>6. InterruptedInv'
  BY DEF InterruptedInv, LockedOutOnlyWhenInterrupted, HandlerInv, Holding
<1> QED BY <1>1, <1>2, <1>3, <1>4, <1>5, <1>6

LEMMA FirstConnectStep ==
    ASSUME SetupInv, NEW c \in Clients, FirstConnect(c)
    PROVE  SetupInv'
<1> USE SetupAssumption DEF SetupInv, TypeOK, FirstConnect, files
<1>1. TypeOK'
  OBVIOUS
<1>2. OneInitialisation'
  BY DEF OneInitialisation, HandlerInv, StartInv, Holding
<1>3. LockedOutOnlyWhenInterrupted'
  BY DEF LockedOutOnlyWhenInterrupted, HandlerInv, InterruptedInv, Holding
<1>4. HandlerInv'
  BY DEF HandlerInv, Holding
<1>5. StartInv'
  BY DEF StartInv, HandlerInv, Holding, OneInitialisation
<1>6. InterruptedInv'
  BY DEF InterruptedInv, LockedOutOnlyWhenInterrupted, HandlerInv, Holding
<1> QED BY <1>1, <1>2, <1>3, <1>4, <1>5, <1>6

LEMMA DispatchInitStep ==
    ASSUME SetupInv, NEW c \in Clients, DispatchInit(c)
    PROVE  SetupInv'
<1> USE SetupAssumption DEF SetupInv, TypeOK, DispatchInit, files
<1>1. TypeOK'
  OBVIOUS
<1>2. OneInitialisation'
  BY DEF OneInitialisation, HandlerInv, StartInv, Holding
<1>3. LockedOutOnlyWhenInterrupted'
  BY DEF LockedOutOnlyWhenInterrupted, HandlerInv, InterruptedInv, Holding
<1>4. HandlerInv'
  BY DEF HandlerInv, Holding
<1>5. StartInv'
  BY DEF StartInv, HandlerInv, Holding, OneInitialisation
<1>6. InterruptedInv'
  BY DEF InterruptedInv, LockedOutOnlyWhenInterrupted, HandlerInv, Holding
<1> QED BY <1>1, <1>2, <1>3, <1>4, <1>5, <1>6

LEMMA BreakConnectionStep ==
    ASSUME SetupInv, NEW c \in Clients, BreakConnection(c)
    PROVE  SetupInv'
<1> USE SetupAssumption DEF SetupInv, TypeOK, BreakConnection, files
<1>1. TypeOK'
  OBVIOUS
<1>2. OneInitialisation'
  BY DEF OneInitialisation, HandlerInv, StartInv, Holding
<1>3. LockedOutOnlyWhenInterrupted'
  BY DEF LockedOutOnlyWhenInterrupted, HandlerInv, InterruptedInv, Holding
<1>4. HandlerInv'
  BY DEF HandlerInv, Holding
<1>5. StartInv'
  BY DEF StartInv, HandlerInv, Holding, OneInitialisation
<1>6. InterruptedInv'
  BY DEF InterruptedInv, LockedOutOnlyWhenInterrupted, HandlerInv, Holding
<1> QED BY <1>1, <1>2, <1>3, <1>4, <1>5, <1>6

(***************************************************************************)
(* The invariant holds.                                                    *)
(***************************************************************************)
LEMMA InitInv == Init => SetupInv
<1> SUFFICES ASSUME Init PROVE SetupInv
  OBVIOUS
<1>1. TypeOK
  BY SetupAssumption DEF Init, TypeOK
<1>2. OneInitialisation /\ LockedOutOnlyWhenInterrupted
  BY DEF Init, OneInitialisation, LockedOutOnlyWhenInterrupted
<1>3. HandlerInv /\ StartInv /\ InterruptedInv
  BY DEF Init, HandlerInv, StartInv, InterruptedInv, Holding
<1> QED BY <1>1, <1>2, <1>3 DEF SetupInv

LEMMA NextInv == SetupInv /\ [Next]_vars => SetupInv'
<1> SUFFICES ASSUME SetupInv, [Next]_vars PROVE SetupInv'
  OBVIOUS
<1>1. CASE ServerStep \/ Stop
  BY <1>1, StartReadyStep, StartInitStep, CloseInitServerStep, SaveConfigStep,
     SaveTrustStoreStep, StopStep DEF ServerStep
<1>2. ASSUME NEW c \in Clients, HandlerStep(c) PROVE SetupInv'
  BY <1>2, LockChannelStep, AddRootUserStep, AnswerOkStep, SendSuccessStep,
     AnswerFailsStep DEF HandlerStep
<1>3. ASSUME NEW c \in Clients,
             ClientStep(c) \/ FirstConnect(c) \/ DispatchInit(c) \/ BreakConnection(c)
      PROVE  SetupInv'
  BY <1>3, SendRequestStep, ReadOkStep, ConnectAgainStep, FirstConnectStep,
     DispatchInitStep, BreakConnectionStep DEF ClientStep
<1>4. CASE UNCHANGED vars
  BY <1>4 DEF vars, SetupInv, TypeOK, OneInitialisation, LockedOutOnlyWhenInterrupted,
              HandlerInv, StartInv, InterruptedInv
<1> QED BY <1>1, <1>2, <1>3, <1>4 DEF Next

(***************************************************************************)
(* The theorems.                                                           *)
(***************************************************************************)

\* Server::start and its init handlers keep their types; in particular the
\* mutex of the init channel is held by the one handler that is between its
\* first line and its last.
THEOREM SetupTypeCorrect == Spec => []TypeOK
<1>1. SetupInv => TypeOK
  BY DEF SetupInv
<1> QED BY <1>1, InitInv, NextInv, PTL DEF Spec

\* However many clients try to initialise a server, and wherever it is killed or
\* a connection breaks: users table, base_config.json and trust_store.json are
\* those of one client, whoever read Ok is that client, and a server nobody can
\* initialise any more comes only from an interruption.
THEOREM AlwaysInitialisedByOne == Spec => []InitialisedByOne
<1>1. SetupInv => InitialisedByOne
  BY DEF SetupInv, InitialisedByOne
<1> QED BY <1>1, InitInv, NextInv, PTL DEF Spec

\* Who owns a server does not change: the root user, once entered, stays, and a
\* file, once written, is never replaced by one of another initialisation.
THEOREM OwnerStays ==
    Spec => [][/\ usersRow # NoClient => usersRow' = usersRow
               /\ configFile # NoClient => configFile' = configFile
               /\ trustFile # NoClient => trustFile' = trustFile]_vars
<1>1. ASSUME SetupInv, Next
      PROVE  /\ usersRow # NoClient => usersRow' = usersRow
             /\ configFile # NoClient => configFile' = configFile
             /\ trustFile # NoClient => trustFile' = trustFile
  <2>1. CASE SaveConfig
    BY <1>1, <2>1 DEF SaveConfig, SetupInv, StartInv, OneInitialisation
  <2>2. CASE SaveTrustStore
    BY <1>1, <2>2 DEF SaveTrustStore, SetupInv, StartInv, OneInitialisation
  <2>3. CASE StartReady \/ StartInit \/ CloseInitServer \/ Stop
    BY <2>3 DEF StartReady, StartInit, CloseInitServer, Stop, files
  <2>4. ASSUME NEW c \in Clients, HandlerStep(c)
        PROVE  UNCHANGED files /\ (usersRow # NoClient => usersRow' = usersRow)
    BY <2>4 DEF HandlerStep, LockChannel, AddRootUser, AnswerOk, SendSuccess, AnswerFails, files
  <2>5. ASSUME NEW c \in Clients,
               ClientStep(c) \/ FirstConnect(c) \/ DispatchInit(c) \/ BreakConnection(c)
        PROVE  UNCHANGED <<usersRow, files>>
    BY <2>5 DEF ClientStep, SendRequest, ReadOk, ConnectAgain, FirstConnect, DispatchInit,
                BreakConnection, files
  <2> QED BY <1>1, <2>1, <2>2, <2>3, <2>4, <2>5 DEF Next, ServerStep, files
<1> QED BY <1>1, InitInv, NextInv, PTL DEF Spec

-----------------------------------------------------------------------------
(* Tunnels.                                                                *)

TunnelTypes ==
    /\ listed \subseteq TunnelIds
    /\ active \in [TunnelIds -> BOOLEAN] /\ unseen \in [TunnelIds -> BOOLEAN]
    /\ listener \in [TunnelIds -> {"off", "run", "ended"}]
    /\ stream \in [Streams -> [tunnel : TunnelIds \cup {"none"}, unseen : BOOLEAN,
                               at : {"none", "opening", "copy", "ended", "panicked"}]]

\* A value is sent to a tunnel only to end it, so whoever has not looked yet will
\* see that.
ToldToEnd ==
    /\ \A t \in TunnelIds : unseen[t] => ~active[t]
    /\ \A x \in Streams : stream[x].at \in {"opening", "copy"} =>
          /\ stream[x].tunnel \in TunnelIds
          /\ stream[x].unseen => ~active[stream[x].tunnel]

\* The inductive invariant.
TunnelInv == TunnelTypes /\ ToldToEnd /\ Tunnel!TunnelsAreKnown

\* watch::Sender::send with false, to tunnels of which the listed may shrink.
LEMMA TunnelSend ==
    ASSUME TunnelInv, NEW T \in SUBSET TunnelIds, Tunnel!Send(T, FALSE),
           UNCHANGED listener, listed' \subseteq listed, listed \ T \subseteq listed'
    PROVE  TunnelInv'
<1>1. PICK R \in SUBSET T : R = {t \in T : listener[t] = "run" \/ Tunnel!StreamsOf(t) # {}}
  OBVIOUS
<1>2. /\ active' = [t \in TunnelIds |-> IF t \in R THEN FALSE ELSE active[t]]
      /\ unseen' = [t \in TunnelIds |-> unseen[t] \/ t \in R]
      /\ stream' = [x \in Streams |->
                      [stream[x] EXCEPT !.unseen = stream[x].unseen \/ stream[x].tunnel \in R]]
  BY <1>1 DEF Tunnel!Send
<1>3. TunnelTypes
  BY DEF TunnelInv
<1>4. \A x \in Streams : /\ stream'[x].tunnel = stream[x].tunnel /\ stream'[x].at = stream[x].at
                         /\ stream'[x].unseen = (stream[x].unseen \/ stream[x].tunnel \in R)
  BY <1>2, <1>3 DEF TunnelTypes
<1>5. TunnelTypes'
  BY <1>1, <1>2, <1>3 DEF TunnelTypes
<1>6. ToldToEnd'
  BY <1>1, <1>2, <1>3, <1>4 DEF TunnelTypes, TunnelInv, ToldToEnd
<1>7. \A t \in TunnelIds : Tunnel!StreamsOf(t)' = Tunnel!StreamsOf(t)
  BY <1>4 DEF Tunnel!StreamsOf
<1>8. Tunnel!NoOrphans'
  BY <1>1, <1>2, <1>3, <1>7 DEF TunnelTypes, TunnelInv, Tunnel!TunnelsAreKnown, Tunnel!NoOrphans
<1>9. Tunnel!NeverPanics'
  BY <1>4 DEF TunnelInv, Tunnel!TunnelsAreKnown, Tunnel!NeverPanics
<1> QED BY <1>5, <1>6, <1>8, <1>9 DEF TunnelInv, Tunnel!TunnelsAreKnown

LEMMA TunnelListens ==
    ASSUME TunnelInv, NEW t \in TunnelIds,
           Tunnel!Open(t) \/ Tunnel!AcceptFails(t) \/ Tunnel!ActiveChanged(t)
    PROVE  TunnelInv'
<1>1. TunnelTypes
  BY DEF TunnelInv
<1>2. /\ UNCHANGED <<active, stream>> /\ listed \subseteq listed'
      /\ \A u \in TunnelIds : listener'[u] = "run" => listener[u] = "run" \/ u \in listed'
      /\ \A u \in TunnelIds : unseen'[u] => unseen[u]
  BY <1>1 DEF TunnelTypes, Tunnel!Open, Tunnel!AcceptFails, Tunnel!ActiveChanged
<1>3. TunnelTypes'
  BY <1>1 DEF TunnelTypes, Tunnel!Open, Tunnel!AcceptFails, Tunnel!ActiveChanged
<1>4. ToldToEnd'
  BY <1>2 DEF TunnelInv, ToldToEnd
<1>5. \A u \in TunnelIds : Tunnel!StreamsOf(u)' = Tunnel!StreamsOf(u)
  BY <1>2 DEF Tunnel!StreamsOf
<1>6. Tunnel!NoOrphans' /\ Tunnel!NeverPanics'
  BY <1>2, <1>5
     DEF TunnelInv, Tunnel!TunnelsAreKnown, Tunnel!NoOrphans, Tunnel!NeverPanics
<1> QED BY <1>3, <1>4, <1>6 DEF TunnelInv, Tunnel!TunnelsAreKnown

LEMMA TunnelAccepts ==
    ASSUME TunnelInv, NEW t \in TunnelIds, NEW y \in Streams, Tunnel!Accept(t, y)
    PROVE  TunnelInv'
<1>1. TunnelTypes /\ listener[t] = "run" /\ UNCHANGED <<listed, active, unseen>>
  BY DEF TunnelInv, Tunnel!Accept
<1>2. CASE ~active[t]
  <2>1. listener' = [listener EXCEPT ![t] = "ended"] /\ UNCHANGED stream
    BY <1>2 DEF Tunnel!Accept
  <2>2. \A u \in TunnelIds : /\ listener'[u] = "run" => listener[u] = "run"
                             /\ Tunnel!StreamsOf(u)' = Tunnel!StreamsOf(u)
    BY <1>1, <2>1 DEF TunnelTypes, Tunnel!StreamsOf
  <2>3. TunnelTypes' /\ ToldToEnd'
    BY <1>1, <2>1 DEF TunnelTypes, TunnelInv, ToldToEnd
  <2> QED BY <1>1, <2>1, <2>2, <2>3
          DEF TunnelInv, Tunnel!TunnelsAreKnown, Tunnel!NoOrphans, Tunnel!NeverPanics
<1>3. CASE active[t]
  <2>1. PICK r : r = [tunnel |-> t, at |-> "opening", unseen |-> unseen[t]]
    OBVIOUS
  <2>2. stream' = [stream EXCEPT ![y] = r] /\ UNCHANGED listener
    BY <1>3, <2>1 DEF Tunnel!Accept
  <2>3. r.tunnel = t /\ r.at = "opening" /\ r.unseen = unseen[t]
    BY <2>1
  <2>4. stream'[y] = r /\ \A x \in Streams \ {y} : stream'[x] = stream[x]
    BY <1>1, <2>2 DEF TunnelTypes
  <2>5. TunnelTypes'
    BY <1>1, <2>1, <2>2 DEF TunnelTypes
  <2>6. ToldToEnd'
    BY <1>1, <2>3, <2>4 DEF TunnelInv, ToldToEnd
  <2>7. \A u \in TunnelIds \ {t} : Tunnel!StreamsOf(u)' # {} => Tunnel!StreamsOf(u) # {}
    BY <2>3, <2>4 DEF Tunnel!StreamsOf
  <2>8. Tunnel!NoOrphans'
    BY <1>1, <2>2, <2>7 DEF TunnelInv, Tunnel!TunnelsAreKnown, Tunnel!NoOrphans
  <2>9. Tunnel!NeverPanics'
    BY <2>3, <2>4 DEF TunnelInv, Tunnel!TunnelsAreKnown, Tunnel!NeverPanics
  <2> QED BY <2>5, <2>6, <2>8, <2>9 DEF TunnelInv, Tunnel!TunnelsAreKnown
<1> QED BY <1>2, <1>3

\* The todo!() is not reached: what a stream sees of its tunnel is its end.
LEMMA TunnelStreams ==
    ASSUME TunnelInv, NEW y \in Streams,
           Tunnel!AnswerOk(y) \/ Tunnel!StreamEnds(y) \/ Tunnel!StreamChanged(y)
    PROVE  TunnelInv'
<1>1. /\ TunnelTypes /\ UNCHANGED <<listed, active, listener, unseen>>
      /\ stream[y].at \in {"opening", "copy"}
  BY DEF TunnelInv, Tunnel!AnswerOk, Tunnel!StreamEnds, Tunnel!StreamChanged
<1>2. PICK a \in {"copy", "ended"} : stream' = [stream EXCEPT ![y].at = a]
  <2>1. CASE Tunnel!AnswerOk(y) \/ Tunnel!StreamEnds(y)
    BY <2>1 DEF Tunnel!AnswerOk, Tunnel!StreamEnds
  <2>2. CASE Tunnel!StreamChanged(y)
    <3>1. ~active[stream[y].tunnel]
      BY <1>1, <2>2 DEF TunnelInv, ToldToEnd, Tunnel!StreamChanged
    <3> QED BY <2>2, <3>1 DEF Tunnel!StreamChanged
  <2> QED BY <2>1, <2>2
<1>3. /\ stream'[y].at = a /\ stream'[y].tunnel = stream[y].tunnel
      /\ stream'[y].unseen = stream[y].unseen
      /\ \A x \in Streams \ {y} : stream'[x] = stream[x]
  BY <1>1, <1>2 DEF TunnelTypes
<1>4. TunnelTypes'
  BY <1>1, <1>2 DEF TunnelTypes
<1>5. ToldToEnd'
  BY <1>1, <1>3 DEF TunnelInv, ToldToEnd
<1>6. \A u \in TunnelIds : Tunnel!StreamsOf(u)' \subseteq Tunnel!StreamsOf(u)
  BY <1>1, <1>3 DEF Tunnel!StreamsOf
<1>7. Tunnel!NoOrphans'
  BY <1>1, <1>6 DEF TunnelInv, Tunnel!TunnelsAreKnown, Tunnel!NoOrphans
<1>8. Tunnel!NeverPanics'
  BY <1>3 DEF TunnelInv, Tunnel!TunnelsAreKnown, Tunnel!NeverPanics
<1> QED BY <1>4, <1>5, <1>7, <1>8 DEF TunnelInv, Tunnel!TunnelsAreKnown

LEMMA TunnelNext ==
    ASSUME TunnelInv, [Tunnel!Next]_(Tunnel!vars)
    PROVE  TunnelInv'
<1>1. ASSUME NEW t \in TunnelIds, Tunnel!CloseTunnel(t) \/ Tunnel!RemoveTunnel(t)
      PROVE  TunnelInv'
  BY <1>1, TunnelSend DEF Tunnel!CloseTunnel, Tunnel!RemoveTunnel
<1>2. CASE Tunnel!DropManager
  BY <1>2, TunnelSend DEF Tunnel!DropManager, TunnelInv, TunnelTypes
<1>3. CASE UNCHANGED Tunnel!vars
  <2>1. UNCHANGED <<listed, active, listener, unseen, stream>>
    BY <1>3 DEF Tunnel!vars
  <2>2. \A t \in TunnelIds : Tunnel!StreamsOf(t)' = Tunnel!StreamsOf(t)
    BY <2>1 DEF Tunnel!StreamsOf
  <2> QED BY <2>1, <2>2 DEF TunnelInv, TunnelTypes, ToldToEnd, Tunnel!TunnelsAreKnown,
                           Tunnel!NoOrphans, Tunnel!NeverPanics
<1> QED BY <1>1, <1>2, <1>3, TunnelListens, TunnelAccepts, TunnelStreams DEF Tunnel!Next

LEMMA TunnelStart == Tunnel!Init => TunnelInv
BY DEF Tunnel!Init, TunnelInv, TunnelTypes, ToldToEnd, Tunnel!TunnelsAreKnown,
       Tunnel!NoOrphans, Tunnel!NeverPanics, Tunnel!StreamsOf, Tunnel!NoStream

\* Whatever is opened, closed, accepted or lost at once, and when the client goes: a
\* port or stream that is still open can be closed or was told to end, and no stream
\* reaches the todo!() of its dispatcher.
THEOREM TunnelsAreAlwaysKnown == ProcessesSpec => []TunnelsAreKnown
<1>1. ProcessesInit => TunnelInv
  BY TunnelStart DEF ProcessesInit
<1>2. TunnelInv /\ [ProcessesNext]_processesVars => TunnelInv'
  <2>1. [ProcessesNext]_processesVars => [Tunnel!Next]_(Tunnel!vars)
    BY DEF ProcessesNext, processesVars, tunnelVars, Tunnel!vars
  <2> QED BY <2>1, TunnelNext
<1>3. TunnelInv => TunnelsAreKnown
  BY DEF TunnelInv, TunnelsAreKnown
<1> QED BY <1>1, <1>2, <1>3, PTL DEF ProcessesSpec

-----------------------------------------------------------------------------
(* Sessions.                                                               *)

RpcObjects == [type : Rpc!Names, value : Rpc!Names]

\* A script in which nothing is stored and no request is read.
Plain(s) ==
    /\ s \in Seq(Rpc!ScriptSteps)
    /\ \A i \in 1 .. Len(s) : s[i].op # "store" /\ s[i].op # "request"

Answers(s, a) == \E i \in 1 .. Len(s) : s[i].op = "answer" /\ s[i].type = a

\* A script that stores a session only after both answers, of which those in known
\* have been given already; and that knows the command of a request it reads.
Guarded(s, known) ==
    /\ s \in Seq(Rpc!ScriptSteps)
    /\ \A i \in 1 .. Len(s) :
          /\ s[i].op = "store" =>
                \A a \in {"AuthResult", "TotpSuccess"} :
                    a \in known \/ \E j \in 1 .. i - 1 : s[j].op = "answer" /\ s[j].type = a
          /\ s[i].op = "request" => i + 1 \in 1 .. Len(s) /\ s[i + 1].op = "command"

LEMMA StepIsPlain ==
    ASSUME NEW op \in {"write", "read", "answer", "await", "check", "handle", "header",
                       "list_profiles", "save_profile", "save_trust", "stream", "drain", "copy"},
           NEW type \in Rpc!Names
    PROVE  Plain(Rpc!Step(op, type))
BY DEF Plain, Rpc!Step, Rpc!ScriptSteps

LEMMA EmptyIsPlain == Plain(<<>>)
BY DEF Plain

LEMMA ConcatIsPlain ==
    ASSUME NEW s, NEW t, Plain(s), Plain(t)
    PROVE  Plain(s \o t)
<1>1. s \in Seq(Rpc!ScriptSteps) /\ t \in Seq(Rpc!ScriptSteps)
  BY DEF Plain
<1>2. s \o t \in Seq(Rpc!ScriptSteps) /\ Len(s \o t) = Len(s) + Len(t)
      /\ Len(s) \in Nat /\ Len(t) \in Nat
  BY <1>1
<1>3. ASSUME NEW i \in 1 .. Len(s \o t)
      PROVE  (s \o t)[i].op # "store" /\ (s \o t)[i].op # "request"
  <2>1. CASE i <= Len(s)
    BY <1>1, <1>2, <2>1 DEF Plain
  <2>2. CASE i > Len(s)
    <3>1. i - Len(s) \in 1 .. Len(t) /\ (s \o t)[i] = t[i - Len(s)]
      BY <1>1, <1>2, <2>2
    <3> QED BY <3>1 DEF Plain
  <2> QED BY <1>2, <2>1, <2>2
<1> QED BY <1>2, <1>3 DEF Plain

LEMMA PlainIsGuarded ==
    ASSUME NEW s, NEW known, Plain(s)
    PROVE  Guarded(s, known)
BY DEF Plain, Guarded

LEMMA ConcatIsGuarded ==
    ASSUME NEW s, NEW t, NEW known, NEW later, Guarded(s, known), Guarded(t, later),
           \A a \in {"AuthResult", "TotpSuccess"} : a \in later => a \in known \/ Answers(s, a)
    PROVE  Guarded(s \o t, known)
<1>1. s \in Seq(Rpc!ScriptSteps) /\ t \in Seq(Rpc!ScriptSteps)
  BY DEF Guarded
<1>2. s \o t \in Seq(Rpc!ScriptSteps) /\ Len(s \o t) = Len(s) + Len(t)
      /\ Len(s) \in Nat /\ Len(t) \in Nat
  BY <1>1
<1>3. /\ \A i \in 1 .. Len(s) : (s \o t)[i] = s[i]
      /\ \A i \in 1 .. Len(t) : (s \o t)[i + Len(s)] = t[i]
  BY <1>1, <1>2
<1>4. ASSUME NEW i \in 1 .. Len(s)
      PROVE  /\ (s \o t)[i].op = "store" =>
                   \A a \in {"AuthResult", "TotpSuccess"} :
                       \/ a \in known
                       \/ \E j \in 1 .. i - 1 : (s \o t)[j].op = "answer" /\ (s \o t)[j].type = a
             /\ (s \o t)[i].op = "request" =>
                   i + 1 \in 1 .. Len(s \o t) /\ (s \o t)[i + 1].op = "command"
  <2>1. (s \o t)[i] = s[i] /\ \A j \in 1 .. i - 1 : (s \o t)[j] = s[j]
    BY <1>2, <1>3
  <2>2. s[i].op = "request" => i + 1 \in 1 .. Len(s) /\ s[i + 1].op = "command"
    BY DEF Guarded
  <2>3. s[i].op = "store" =>
          \A a \in {"AuthResult", "TotpSuccess"} :
              a \in known \/ \E j \in 1 .. i - 1 : s[j].op = "answer" /\ s[j].type = a
    BY DEF Guarded
  <2> QED BY <1>2, <1>3, <2>1, <2>2, <2>3
<1>5. ASSUME NEW k \in 1 .. Len(t)
      PROVE  /\ (s \o t)[k + Len(s)].op = "store" =>
                   \A a \in {"AuthResult", "TotpSuccess"} :
                       \/ a \in known
                       \/ \E j \in 1 .. k + Len(s) - 1 :
                             (s \o t)[j].op = "answer" /\ (s \o t)[j].type = a
             /\ (s \o t)[k + Len(s)].op = "request" =>
                   /\ k + Len(s) + 1 \in 1 .. Len(s \o t)
                   /\ (s \o t)[k + Len(s) + 1].op = "command"
  <2>1. t[k].op = "request" => k + 1 \in 1 .. Len(t) /\ t[k + 1].op = "command"
    BY DEF Guarded
  <2>2. (s \o t)[k + Len(s)].op = "request" =>
          /\ k + Len(s) + 1 \in 1 .. Len(s \o t)
          /\ (s \o t)[k + Len(s) + 1].op = "command"
    <3>1. ASSUME t[k].op = "request"
          PROVE  (s \o t)[(k + 1) + Len(s)] = t[k + 1] /\ k + 1 <= Len(t)
      BY <1>2, <1>3, <2>1, <3>1
    <3>2. (k + 1) + Len(s) = k + Len(s) + 1
      BY <1>2
    <3> QED BY <1>2, <1>3, <2>1, <3>1, <3>2
  <2>3. ASSUME t[k].op = "store", NEW a \in {"AuthResult", "TotpSuccess"}, a \notin known
        PROVE  \E j \in 1 .. k + Len(s) - 1 :
                   (s \o t)[j].op = "answer" /\ (s \o t)[j].type = a
    <3>1. CASE a \in later
      <4>1. PICK j \in 1 .. Len(s) : s[j].op = "answer" /\ s[j].type = a
        BY <2>3, <3>1 DEF Answers
      <4> QED BY <1>2, <1>3, <4>1
    <3>2. CASE a \notin later
      <4>1. PICK j \in 1 .. k - 1 : t[j].op = "answer" /\ t[j].type = a
        BY <2>3, <3>2 DEF Guarded
      <4>2. k \in Int /\ j \in Int /\ 1 <= j /\ j <= k - 1 /\ k <= Len(t)
        BY <1>2
      <4>3. j \in 1 .. Len(t) /\ j + Len(s) \in 1 .. k + Len(s) - 1
        BY <1>2, <4>2
      <4> QED BY <1>3, <4>1, <4>3
    <3> QED BY <3>1, <3>2
  <2> QED BY <1>3, <2>2, <2>3
<1>6. \A i \in 1 .. Len(s \o t) : i \in 1 .. Len(s) \/ \E k \in 1 .. Len(t) : i = k + Len(s)
  <2>1. ASSUME NEW i \in 1 .. Len(s \o t), i \notin 1 .. Len(s)
        PROVE  i - Len(s) \in 1 .. Len(t) /\ i = (i - Len(s)) + Len(s)
    BY <1>2, <2>1
  <2> QED BY <2>1
<1>7. ASSUME NEW i \in 1 .. Len(s \o t)
      PROVE  /\ (s \o t)[i].op = "store" =>
                   \A a \in {"AuthResult", "TotpSuccess"} :
                       \/ a \in known
                       \/ \E j \in 1 .. i - 1 : (s \o t)[j].op = "answer" /\ (s \o t)[j].type = a
             /\ (s \o t)[i].op = "request" =>
                   i + 1 \in 1 .. Len(s \o t) /\ (s \o t)[i + 1].op = "command"
  <2>1. CASE i \in 1 .. Len(s)
    BY <1>4, <2>1
  <2>2. ASSUME NEW k \in 1 .. Len(t), i = k + Len(s)
        PROVE  /\ (s \o t)[i].op = "store" =>
                     \A a \in {"AuthResult", "TotpSuccess"} :
                         \/ a \in known
                         \/ \E j \in 1 .. i - 1 :
                               (s \o t)[j].op = "answer" /\ (s \o t)[j].type = a
               /\ (s \o t)[i].op = "request" =>
                     i + 1 \in 1 .. Len(s \o t) /\ (s \o t)[i + 1].op = "command"
    <3>1. k + Len(s) - 1 = i - 1 /\ k + Len(s) + 1 = i + 1
      BY <1>2, <2>2
    <3>2. \E j : j = k + Len(s) /\ j = i
      BY <2>2
    <3> HIDE <2>2
    <3> QED BY <1>5, <2>2, <3>1
  <2> QED BY <1>6, <2>1, <2>2, Zenon
<1> QED BY <1>2, <1>7, Zenon DEF Guarded

LEMMA PlainSteps ==
    /\ \A type \in Rpc!Names :
          /\ Plain(Rpc!Write(type)) /\ Plain(Rpc!Read(type)) /\ Plain(Rpc!Answer(type))
          /\ Plain(Rpc!Await(type)) /\ Plain(Rpc!Handle(type)) /\ Plain(Rpc!Step("header", type))
          /\ Plain(Rpc!Step("stream", type)) /\ Plain(Rpc!Step("drain", type))
          /\ Plain(Rpc!Step("copy", type)) /\ Plain(Rpc!Step("list_profiles", type))
          /\ Plain(Rpc!Step("save_profile", type)) /\ Plain(Rpc!Step("save_trust", type))
    /\ Plain(Rpc!Check)
<1>1. "none" \in Rpc!Names
  BY DEF Rpc!Names
<1> QED
  BY <1>1, StepIsPlain, Zenon
     DEF Rpc!Write, Rpc!Read, Rpc!Answer, Rpc!Await, Rpc!Handle, Rpc!Check

LEMMA PlainConcats == \A s, t : Plain(s) /\ Plain(t) => Plain(s \o t)
BY ConcatIsPlain

LEMMA KnownNames ==
    /\ "Ok" \in Rpc!Names /\ "Err" \in Rpc!Names /\ "Header" \in Rpc!Names
    /\ "none" \in Rpc!Names /\ "Request" \in Rpc!Names /\ "Response" \in Rpc!Names
    /\ "ClientHello" \in Rpc!Names /\ "ServerFinished" \in Rpc!Names
    /\ "ClientFinished" \in Rpc!Names /\ "TempCertificate" \in Rpc!Names
    /\ "Nonce" \in Rpc!Names /\ "ClientInfo" \in Rpc!Names /\ "PublicKey" \in Rpc!Names
    /\ "Authenticator" \in Rpc!Names /\ "AuthResult" \in Rpc!Names
    /\ "StrongUsername" \in Rpc!Names /\ "StrongClientInfo" \in Rpc!Names
    /\ "Totp" \in Rpc!Names /\ "TotpSuccess" \in Rpc!Names /\ "LoginApproval" \in Rpc!Names
    /\ "Certificate" \in Rpc!Names /\ "SessionResult" \in Rpc!Names /\ "Ping" \in Rpc!Names
    /\ "PublicStatus" \in Rpc!Names /\ "KeyPackages" \in Rpc!Names
    /\ "UserCredential" \in Rpc!Names /\ "ChainResult" \in Rpc!Names /\ "Unit" \in Rpc!Names
    /\ "UpdateResult" \in Rpc!Names /\ "RealtimeStatus" \in Rpc!Names
    /\ "TcpResult" \in Rpc!Names /\ "ForwardResult" \in Rpc!Names /\ "public" \in Rpc!Names
    /\ "endToEnd" \in Rpc!Names /\ "server" \in Rpc!Names /\ "agent" \in Rpc!Names
    /\ "forward" \in Rpc!Names /\ "e2e" \in Rpc!Names
BY DEF Rpc!Names, Rpc!Commands, Rpc!ServerCommands, Rpc!EndToEndCommands, Rpc!PublicCommands,
       Rpc!AgentCommands, Rpc!Collections

\* The scripts of the program.
LEMMA PlainScripts ==
    /\ Plain(Rpc!TlsClient) /\ Plain(Rpc!TlsServer) /\ Plain(Rpc!ExchangeTempCredentials)
    /\ Plain(Rpc!ClientPreshared) /\ Plain(Rpc!ServerPreshared) /\ Plain(Rpc!AucPaceClient)
    /\ Plain(Rpc!AucPaceServer) /\ Plain(Rpc!LoginTlsHandler)
    /\ Plain(Rpc!LoginAugmentHandler) /\ Plain(Rpc!LoginCpaceHandler)
    /\ Plain(Rpc!LoginTotpHandler) /\ Plain(Rpc!Login) /\ Plain(Rpc!PingHandler)
    /\ Plain(Rpc!Ping) /\ Plain(Rpc!ForwardHandler) /\ Plain(Rpc!E2EHandler)
    /\ Plain(Rpc!ForwardConnection)
<1>1. Plain(Rpc!TlsClient)
  BY KnownNames, PlainSteps, PlainConcats
     DEF Rpc!TlsClient
<1>2. Plain(Rpc!TlsServer)
  BY KnownNames, PlainSteps, PlainConcats
     DEF Rpc!TlsServer
<1>3. Plain(Rpc!ExchangeTempCredentials)
  BY KnownNames, PlainSteps, PlainConcats
     DEF Rpc!ExchangeTempCredentials
<1>4. Plain(Rpc!ClientPreshared)
  BY <1>1, <1>3, KnownNames, PlainSteps, PlainConcats
     DEF Rpc!ClientPreshared
<1>5. Plain(Rpc!ServerPreshared)
  BY <1>2, <1>3, KnownNames, PlainSteps, PlainConcats
     DEF Rpc!ServerPreshared
<1>6. Plain(Rpc!AucPaceClient)
  BY <1>4, KnownNames, PlainSteps, PlainConcats
     DEF Rpc!AucPaceClient
<1>7. Plain(Rpc!AucPaceServer)
  BY <1>5, KnownNames, PlainSteps, PlainConcats
     DEF Rpc!AucPaceServer
<1>8. Plain(Rpc!LoginTlsHandler)
  BY <1>2, KnownNames, PlainSteps, PlainConcats
     DEF Rpc!LoginTlsHandler
<1>9. Plain(Rpc!LoginAugmentHandler)
  BY KnownNames, PlainSteps, PlainConcats
     DEF Rpc!LoginAugmentHandler
<1>10. Plain(Rpc!LoginCpaceHandler)
  BY KnownNames, PlainSteps, PlainConcats
     DEF Rpc!LoginCpaceHandler
<1>11. Plain(Rpc!LoginTotpHandler)
  BY <1>5, KnownNames, PlainSteps, PlainConcats
     DEF Rpc!LoginTotpHandler
<1>12. Plain(Rpc!Login)
  BY <1>1, <1>4, KnownNames, PlainSteps, PlainConcats
     DEF Rpc!Login, Rpc!LoginTls, Rpc!LoginAugment, Rpc!LoginCpace, Rpc!LoginTotp, Rpc!LoginApprove, Rpc!AddProfile
<1>13. Plain(Rpc!PingHandler)
  BY KnownNames, PlainSteps, PlainConcats
     DEF Rpc!PingHandler
<1>14. Plain(Rpc!Ping)
  BY KnownNames, PlainSteps, PlainConcats
     DEF Rpc!Ping
<1>15. Plain(Rpc!ForwardHandler)
  BY KnownNames, PlainSteps, PlainConcats
     DEF Rpc!ForwardHandler
<1>16. Plain(Rpc!E2EHandler)
  BY <1>2, KnownNames, PlainSteps, PlainConcats
     DEF Rpc!E2EHandler
<1>17. Plain(Rpc!ForwardConnection)
  BY <1>1, KnownNames, PlainSteps, PlainConcats
     DEF Rpc!ForwardConnection, Rpc!Frame
<1> QED BY <1>1, <1>2, <1>3, <1>4, <1>5, <1>6, <1>7, <1>8, <1>9, <1>10, <1>11, <1>12, <1>13, <1>14, <1>15, <1>16, <1>17

LEMMA AnswersConcat ==
    ASSUME NEW s, NEW t, NEW a, Plain(s), Plain(t), Answers(s, a) \/ Answers(t, a)
    PROVE  Answers(s \o t, a)
<1>1. s \in Seq(Rpc!ScriptSteps) /\ t \in Seq(Rpc!ScriptSteps)
  BY DEF Plain
<1>2. Len(s \o t) = Len(s) + Len(t) /\ Len(s) \in Nat /\ Len(t) \in Nat
  BY <1>1
<1>3. /\ \A i \in 1 .. Len(s) : (s \o t)[i] = s[i]
      /\ \A i \in 1 .. Len(t) : (s \o t)[i + Len(s)] = t[i]
  BY <1>1, <1>2
<1>4. ASSUME NEW i \in 1 .. Len(s), s[i].op = "answer" /\ s[i].type = a
      PROVE  Answers(s \o t, a)
  <2>1. i \in 1 .. Len(s \o t)
    BY <1>2
  <2> QED BY <1>3, <1>4, <2>1 DEF Answers
<1>5. ASSUME NEW i \in 1 .. Len(t), t[i].op = "answer" /\ t[i].type = a
      PROVE  Answers(s \o t, a)
  <2>1. i + Len(s) \in 1 .. Len(s \o t)
    BY <1>2
  <2> QED BY <1>3, <1>5, <2>1 DEF Answers
<1> QED BY <1>4, <1>5, Zenon DEF Answers

LEMMA AnswerAnswers == \A a \in Rpc!Names : Answers(Rpc!Answer(a), a)
BY DEF Answers, Rpc!Answer, Rpc!Step

BothAnswers == {"AuthResult", "TotpSuccess"}

\* The handler of the login stores the session after both answers.
LEMMA LoginIsGuarded == Guarded(Rpc!LoginHandler, {})
<1> DEFINE Cpace == Rpc!LoginTlsHandler \o Rpc!LoginAugmentHandler \o Rpc!LoginCpaceHandler
           Asked == Cpace \o Rpc!LoginTotpHandler
<1>1. Plain(Cpace) /\ Plain(Asked)
  BY PlainScripts, PlainConcats
<1>2. Answers(Cpace, "AuthResult")
  <2>1. Answers(Rpc!LoginCpaceHandler, "AuthResult")
    <3>1. Plain(Rpc!Write("PublicKey") \o Rpc!Read("PublicKey") \o Rpc!Read("Authenticator"))
          /\ Plain(Rpc!Answer("AuthResult"))
      BY KnownNames, PlainSteps, PlainConcats
    <3> QED BY <3>1, AnswersConcat, AnswerAnswers, KnownNames, Zenon DEF Rpc!LoginCpaceHandler
  <2>2. Plain(Rpc!LoginTlsHandler \o Rpc!LoginAugmentHandler) /\ Plain(Rpc!LoginCpaceHandler)
    BY PlainScripts, PlainConcats
  <2> QED BY <2>1, <2>2, AnswersConcat
<1>3. Answers(Rpc!LoginTotpHandler, "TotpSuccess")
  <2>1. Plain(Rpc!ServerPreshared \o Rpc!Check \o Rpc!Read("Totp"))
        /\ Plain(Rpc!Answer("TotpSuccess"))
    BY KnownNames, PlainSteps, PlainConcats, PlainScripts
  <2> QED BY <2>1, AnswersConcat, AnswerAnswers, KnownNames, Zenon DEF Rpc!LoginTotpHandler
<1>4. Answers(Asked, "AuthResult") /\ Answers(Asked, "TotpSuccess")
  BY <1>1, <1>2, <1>3, PlainScripts, AnswersConcat
<1>5. Guarded(Rpc!StoreSession, BothAnswers)
  <2>1. "none" \in Rpc!Names
    BY KnownNames
  <2> QED BY <2>1 DEF Guarded, BothAnswers, Rpc!StoreSession, Rpc!Step, Rpc!ScriptSteps
<1>6. Guarded(Rpc!LoginApproveHandler, BothAnswers)
  <2>1. Plain(Rpc!Write("LoginApproval") \o Rpc!Read("Certificate"))
        /\ Plain(Rpc!Answer("SessionResult"))
    BY KnownNames, PlainSteps, PlainConcats
  <2>2. Guarded(Rpc!Write("LoginApproval") \o Rpc!Read("Certificate"), BothAnswers)
        /\ Guarded(Rpc!Answer("SessionResult"), BothAnswers)
    BY <2>1, PlainIsGuarded
  <2>3. \A s, t : Guarded(s, BothAnswers) /\ Guarded(t, BothAnswers) => Guarded(s \o t, BothAnswers)
    BY ConcatIsGuarded, Zenon
  <2> QED BY <1>5, <2>2, <2>3 DEF Rpc!LoginApproveHandler
<1>7. Guarded(Asked, {})
  BY <1>1, PlainIsGuarded
<1> HIDE DEF Asked
<1>8. Guarded(Asked \o Rpc!LoginApproveHandler, {})
  <2>1. \A a \in {"AuthResult", "TotpSuccess"} :
            a \in BothAnswers => a \in {} \/ Answers(Asked, a)
    BY <1>4
  <2> QED BY <1>6, <1>7, <2>1, ConcatIsGuarded, Zenon
<1> QED BY <1>8, Zenon DEF Asked, Rpc!LoginHandler

LEMMA HandlersAreGuarded ==
    ASSUME NEW command, NEW known
    PROVE  Guarded(Rpc!HandlerOf(command), known)
<1>1. Guarded(Rpc!LoginHandler, known)
  BY LoginIsGuarded, Zenon DEF Guarded
<1>2. /\ Plain(Rpc!PublicStatusHandler) /\ Plain(Rpc!GetUserCredentialHandler)
      /\ Plain(Rpc!LoadCertificateChainHandler) /\ Plain(Rpc!GetKeyPackagesHandler)
      /\ Plain(Rpc!RealtimeStatusHandler) /\ Plain(Rpc!TcpForwardHandler)
      /\ Plain(Rpc!UpdateAgentHandler) /\ Plain(Rpc!RequestSystemReportHandler)
      /\ Plain(Rpc!DeauthenticateHandler)
  BY KnownNames, PlainSteps, PlainConcats
     DEF Rpc!PublicStatusHandler, Rpc!GetUserCredentialHandler, Rpc!LoadCertificateChainHandler,
         Rpc!GetKeyPackagesHandler, Rpc!RealtimeStatusHandler, Rpc!TcpForwardHandler,
         Rpc!UpdateAgentHandler, Rpc!RequestSystemReportHandler, Rpc!DeauthenticateHandler
<1>3. \A s : Plain(s) => Guarded(s, known)
  BY PlainIsGuarded
<1>4. Guarded(<<>>, known)
  BY <1>3, EmptyIsPlain
<1>5. /\ Guarded(Rpc!PingHandler, known) /\ Guarded(Rpc!PublicStatusHandler, known)
      /\ Guarded(Rpc!GetUserCredentialHandler, known)
      /\ Guarded(Rpc!LoadCertificateChainHandler, known)
      /\ Guarded(Rpc!GetKeyPackagesHandler, known) /\ Guarded(Rpc!AucPaceServer, known)
      /\ Guarded(Rpc!RealtimeStatusHandler, known) /\ Guarded(Rpc!TcpForwardHandler, known)
      /\ Guarded(Rpc!UpdateAgentHandler, known)
      /\ Guarded(Rpc!RequestSystemReportHandler, known)
      /\ Guarded(Rpc!ForwardHandler, known) /\ Guarded(Rpc!E2EHandler, known)
      /\ Guarded(Rpc!DeauthenticateHandler, known)
  BY <1>2, <1>3, PlainScripts
<1> QED BY <1>1, <1>4, <1>5 DEF Rpc!HandlerOf

LEMMA DispatchersArePlain ==
    ASSUME NEW command
    PROVE  Plain(Rpc!DispatcherOf(command))
<1>1. /\ Plain(Rpc!GetPublicStatus) /\ Plain(Rpc!GetUserCredential) /\ Plain(Rpc!ChainRequest)
      /\ Plain(Rpc!GetKeyPackages) /\ Plain(Rpc!SubscribeRealtimeStatus)
      /\ Plain(Rpc!TcpForward) /\ Plain(Rpc!UpdateAgent) /\ Plain(Rpc!RequestSystemReport)
  BY KnownNames, PlainSteps, PlainConcats
     DEF Rpc!GetPublicStatus, Rpc!GetUserCredential, Rpc!ChainRequest, Rpc!GetKeyPackages,
         Rpc!SubscribeRealtimeStatus, Rpc!TcpForward, Rpc!UpdateAgent, Rpc!RequestSystemReport
<1> QED BY <1>1, EmptyIsPlain, PlainScripts DEF Rpc!DispatcherOf

\* The first step of a script is taken.
LEMMA TailIsGuarded ==
    ASSUME NEW s, NEW known, NEW later, Guarded(s, known), s # <<>>, known \subseteq later,
           s[1].op = "answer" /\ s[1].type \in BothAnswers => s[1].type \in later
    PROVE  Guarded(Tail(s), later)
<1>1. s \in Seq(Rpc!ScriptSteps)
  BY DEF Guarded
<1>2. Tail(s) \in Seq(Rpc!ScriptSteps) /\ Len(Tail(s)) = Len(s) - 1 /\ Len(s) \in Nat
      /\ \A i \in 1 .. Len(Tail(s)) : Tail(s)[i] = s[i + 1]
  BY <1>1
<1>3. ASSUME NEW i \in 1 .. Len(Tail(s))
      PROVE  /\ Tail(s)[i].op = "store" =>
                   \A a \in {"AuthResult", "TotpSuccess"} :
                       \/ a \in later
                       \/ \E j \in 1 .. i - 1 : Tail(s)[j].op = "answer" /\ Tail(s)[j].type = a
             /\ Tail(s)[i].op = "request" =>
                   i + 1 \in 1 .. Len(Tail(s)) /\ Tail(s)[i + 1].op = "command"
  <2>1. i + 1 \in 1 .. Len(s) /\ Tail(s)[i] = s[i + 1]
    BY <1>2
  <2>2. ASSUME s[i + 1].op = "request"
        PROVE  i + 1 \in 1 .. Len(Tail(s)) /\ Tail(s)[i + 1].op = "command"
    <3>1. (i + 1) + 1 \in 1 .. Len(s) /\ s[(i + 1) + 1].op = "command"
      BY <2>1, <2>2 DEF Guarded
    <3> QED BY <1>2, <3>1
  <2>3. ASSUME s[i + 1].op = "store", NEW a \in {"AuthResult", "TotpSuccess"}, a \notin later
        PROVE  \E j \in 1 .. i - 1 : Tail(s)[j].op = "answer" /\ Tail(s)[j].type = a
    <3>1. PICK j \in 1 .. (i + 1) - 1 : s[j].op = "answer" /\ s[j].type = a
      BY <2>1, <2>3 DEF Guarded
    <3>2. j # 1
      BY <2>3, <3>1 DEF BothAnswers
    <3>3. j - 1 \in 1 .. i - 1 /\ j - 1 \in 1 .. Len(Tail(s)) /\ (j - 1) + 1 = j
      BY <1>2, <3>2
    <3>4. Tail(s)[j - 1] = s[j]
      BY <1>2, <3>3
    <3> QED BY <3>1, <3>3, <3>4
  <2> QED BY <2>1, <2>2, <2>3
<1> QED BY <1>2, <1>3, Zenon DEF Guarded

LEMMA MoreIsGuarded ==
    ASSUME NEW s, NEW known, NEW later, Guarded(s, known), known \subseteq later
    PROVE  Guarded(s, later)
BY Zenon DEF Guarded

\* The inductive invariant: both sides, whatever they have been asked for, are before
\* the answers that a session's entry needs, or these have been given.
RpcInv ==
    /\ todo \in [Rpc!Sides -> Seq(Rpc!ScriptSteps)]
    /\ toRead \in [Rpc!Sides -> Seq(RpcObjects)]
    /\ proven \subseteq BothAnswers
    /\ \A x \in Rpc!Sides : Guarded(todo[x], proven)

\* A side goes on with another script.
LEMMA ScriptMoves ==
    ASSUME RpcInv, NEW x \in Rpc!Sides, NEW script, Guarded(script, proven'),
           todo' = [todo EXCEPT ![x] = script],
           proven \subseteq proven', proven' \subseteq BothAnswers,
           toRead' \in [Rpc!Sides -> Seq(RpcObjects)]
    PROVE  RpcInv'
<1>1. script \in Seq(Rpc!ScriptSteps)
  BY DEF Guarded
<1>2. todo' \in [Rpc!Sides -> Seq(Rpc!ScriptSteps)]
  BY <1>1 DEF RpcInv
<1>3. ASSUME NEW y \in Rpc!Sides
      PROVE  Guarded(todo'[y], proven')
  <2>1. CASE y = x
    BY <2>1 DEF RpcInv
  <2>2. CASE y # x
    <3>1. todo'[y] = todo[y] /\ Guarded(todo[y], proven)
      BY <2>2 DEF RpcInv
    <3> QED BY <3>1, MoreIsGuarded
  <2> QED BY <2>1, <2>2
<1>4. \A y \in Rpc!Sides : Guarded(todo[y], proven)'
  BY <1>3 DEF Guarded
<1> QED BY <1>2, <1>4 DEF RpcInv

LEMMA EmptyIsGuarded == \A known : Guarded(<<>>, known)
BY EmptyIsPlain, PlainIsGuarded

\* A side ends.
LEMMA SideEnds ==
    ASSUME RpcInv, NEW x \in Rpc!Sides, NEW how, Rpc!End(x, how),
           proven \subseteq proven', proven' \subseteq BothAnswers,
           toRead' \in [Rpc!Sides -> Seq(RpcObjects)]
    PROVE  RpcInv'
BY ScriptMoves, EmptyIsGuarded DEF Rpc!End

\* A side takes a step of its script.
LEMMA SideGoesOn ==
    ASSUME RpcInv, NEW x \in Rpc!Sides, Rpc!GoOn(x, <<>>), todo[x] # <<>>,
           proven \subseteq proven', proven' \subseteq BothAnswers,
           todo[x][1].op = "answer" /\ todo[x][1].type \in BothAnswers =>
               todo[x][1].type \in proven',
           toRead' \in [Rpc!Sides -> Seq(RpcObjects)]
    PROVE  RpcInv'
<1>1. Guarded(todo[x], proven) /\ todo[x] \in Seq(Rpc!ScriptSteps)
  BY DEF RpcInv
<1>2. Guarded(Tail(todo[x]), proven')
  BY <1>1, TailIsGuarded
<1>3. <<>> \o Tail(todo[x]) = Tail(todo[x])
  BY <1>1
<1>4. todo' = [todo EXCEPT ![x] = Tail(todo[x])]
  BY <1>3 DEF Rpc!GoOn
<1> QED BY <1>2, <1>4, ScriptMoves

\* Only what is on its way changes.
LEMMA OnlyReads ==
    ASSUME RpcInv, UNCHANGED <<todo, proven>>, toRead' \in [Rpc!Sides -> Seq(RpcObjects)]
    PROVE  RpcInv'
<1>1. todo' = todo /\ proven' = proven
  OBVIOUS
<1>2. /\ todo \in [Rpc!Sides -> Seq(Rpc!ScriptSteps)] /\ proven \subseteq BothAnswers
      /\ \A x \in Rpc!Sides : Guarded(todo[x], proven)
  BY DEF RpcInv
<1>3. \A x \in Rpc!Sides : Guarded(todo'[x], proven')
  BY <1>1, <1>2
<1> QED BY <1>1, <1>2, <1>3 DEF RpcInv

LEMMA DeliverTypes ==
    ASSUME RpcInv, NEW x \in Rpc!Sides, NEW object \in RpcObjects, Rpc!Deliver(x, object)
    PROVE  toRead' \in [Rpc!Sides -> Seq(RpcObjects)]
BY DEF RpcInv, Rpc!Deliver, Rpc!Sides, Rpc!Other

LEMMA DroppedTypes ==
    ASSUME RpcInv, NEW x \in Rpc!Sides, toRead' = Rpc!Dropped(x)
    PROVE  toRead' \in [Rpc!Sides -> Seq(RpcObjects)]
BY DEF RpcInv, Rpc!Dropped

LEMMA StepTypes ==
    ASSUME RpcInv, NEW x \in Rpc!Sides, todo[x] # <<>>
    PROVE  todo[x][1] \in Rpc!ScriptSteps /\ Rpc!Expected(x) \in Rpc!Names
<1>1. todo[x] \in Seq(Rpc!ScriptSteps)
  BY DEF RpcInv
<1>2. todo[x][1] \in Rpc!ScriptSteps
  BY <1>1
<1> QED BY <1>2 DEF Rpc!Expected, Rpc!ScriptSteps

LEMMA ObjectTypes ==
    ASSUME NEW type \in Rpc!Names, NEW value \in Rpc!Names
    PROVE  Rpc!Object(type, value) \in RpcObjects
BY DEF Rpc!Object, RpcObjects

LEMMA WriteObjectStep ==
    ASSUME RpcInv, NEW x \in Rpc!Sides, Rpc!WriteObject(x)
    PROVE  RpcInv'
<1>1. todo[x] # <<>> /\ todo[x][1].op # "answer" /\ Rpc!GoOn(x, <<>>) /\ proven' = proven
  BY DEF Rpc!WriteObject, Rpc!Doing
<1>2. PICK object \in RpcObjects : Rpc!Deliver(x, object)
  BY <1>1, StepTypes, ObjectTypes, KnownNames DEF Rpc!WriteObject
<1> QED BY <1>1, <1>2, DeliverTypes, SideGoesOn DEF RpcInv

\* The step that makes something proven, or ends the session.
LEMMA WriteAnswerStep ==
    ASSUME RpcInv, NEW x \in Rpc!Sides, Rpc!WriteAnswer(x)
    PROVE  RpcInv'
<1>1. todo[x] # <<>> /\ todo[x][1].op = "answer" /\ Rpc!Expected(x) = todo[x][1].type
  BY DEF Rpc!WriteAnswer, Rpc!Doing, Rpc!Expected
<1>2. PICK ok \in Rpc!Outcomes(Rpc!Expected(x)) :
        /\ proven' = IF \/ Rpc!Expected(x) = "AuthResult" /\ rpc.password
                        \/ Rpc!Expected(x) = "TotpSuccess" /\ rpc.totp
                     THEN proven \cup {Rpc!Expected(x)} ELSE proven
        /\ IF ok THEN Rpc!Deliver(x, Rpc!Object(Rpc!Expected(x), "Ok")) /\ Rpc!GoOn(x, <<>>)
           ELSE /\ toRead' = [[toRead EXCEPT ![x] = <<>>] EXCEPT ![Rpc!Other(x)] =
                                IF Rpc!Running(Rpc!Other(x))
                                THEN Append(@, Rpc!Object(Rpc!Expected(x), "Err")) ELSE @]
                /\ Rpc!End(x, "failed")
  BY DEF Rpc!WriteAnswer
<1>3. proven \subseteq proven' /\ proven' \subseteq BothAnswers
  BY <1>2 DEF RpcInv, BothAnswers
<1>4. Rpc!Object(Rpc!Expected(x), "Ok") \in RpcObjects
      /\ Rpc!Object(Rpc!Expected(x), "Err") \in RpcObjects
  BY <1>1, StepTypes, ObjectTypes, KnownNames
<1>5. CASE ok
  <2>1. todo[x][1].type \in BothAnswers => todo[x][1].type \in proven'
    <3>1. CASE todo[x][1].type = "AuthResult"
      <4>1. ok = rpc.password
        BY <1>1, <3>1 DEF Rpc!Outcomes
      <4> QED BY <1>1, <1>2, <1>5, <3>1, <4>1
    <3>2. CASE todo[x][1].type = "TotpSuccess"
      <4>1. ok = rpc.totp
        BY <1>1, <3>2 DEF Rpc!Outcomes
      <4> QED BY <1>1, <1>2, <1>5, <3>2, <4>1
    <3> QED BY <3>1, <3>2 DEF BothAnswers
  <2> QED BY <1>1, <1>2, <1>3, <1>4, <1>5, <2>1, DeliverTypes, SideGoesOn
<1>6. CASE ~ok
  <2>1. PICK y : y = Rpc!Other(x)
    OBVIOUS
  <2>2. PICK object \in RpcObjects : object = Rpc!Object(Rpc!Expected(x), "Err")
    BY <1>4
  <2>3. y \in Rpc!Sides /\ toRead \in [Rpc!Sides -> Seq(RpcObjects)]
    BY <2>1 DEF RpcInv, Rpc!Sides, Rpc!Other
  <2>4. PICK read : read = [toRead EXCEPT ![x] = <<>>]
    OBVIOUS
  <2>5. read \in [Rpc!Sides -> Seq(RpcObjects)]
    BY <2>3, <2>4
  <2>6. toRead' = [read EXCEPT ![y] = IF Rpc!Running(y) THEN Append(@, object) ELSE @]
    BY <1>2, <1>6, <2>1, <2>2, <2>4
  <2>7. toRead' \in [Rpc!Sides -> Seq(RpcObjects)]
    BY <2>3, <2>5, <2>6
  <2> QED BY <1>2, <1>3, <1>6, <2>7, SideEnds
<1> QED BY <1>5, <1>6

LEMMA ReadObjectStep ==
    ASSUME RpcInv, NEW x \in Rpc!Sides, Rpc!ReadObject(x)
    PROVE  RpcInv'
<1>1. todo[x] # <<>> /\ todo[x][1].op # "answer" /\ proven' = proven /\ toRead[x] # <<>>
  BY DEF Rpc!ReadObject, Rpc!Doing
<1>2. CASE Rpc!End(x, "failed") /\ toRead' = Rpc!Dropped(x)
  BY <1>1, <1>2, DroppedTypes, SideEnds DEF RpcInv
<1>3. CASE Rpc!GoOn(x, <<>>) /\ toRead' = [toRead EXCEPT ![x] = Tail(@)]
  <2>1. toRead' \in [Rpc!Sides -> Seq(RpcObjects)]
    BY <1>1, <1>3 DEF RpcInv
  <2> QED BY <1>1, <1>3, <2>1, SideGoesOn DEF RpcInv
<1> QED BY <1>2, <1>3 DEF Rpc!ReadObject

LEMMA ReadHeaderStep ==
    ASSUME RpcInv, NEW x \in Rpc!Sides, Rpc!ReadHeader(x)
    PROVE  RpcInv'
<1>1. todo[x] # <<>> /\ todo[x][1].op = "handle" /\ proven' = proven /\ toRead[x] # <<>>
  BY DEF Rpc!ReadHeader, Rpc!Doing
<1>2. PICK command : command = toRead[x][1].value
  OBVIOUS
<1>3. command \in Rpc!Names
  <2>1. toRead[x] \in Seq(RpcObjects)
    BY DEF RpcInv
  <2>2. toRead[x][1] \in RpcObjects
    BY <1>1, <2>1
  <2> QED BY <1>2, <2>2 DEF RpcObjects
<1>4. CASE command \in Rpc!Collections[Rpc!Expected(x)]
  <2> DEFINE asked == <<[op |-> "request", type |-> Rpc!Expected(x)],
                        [op |-> "command", type |-> command]>>
  <2>1. todo' = [todo EXCEPT ![x] = asked \o Tail(todo[x])]
        /\ toRead' = [toRead EXCEPT ![x] = Tail(@)]
    BY <1>2, <1>4 DEF Rpc!ReadHeader
  <2>2. toRead' \in [Rpc!Sides -> Seq(RpcObjects)]
    BY <1>1, <2>1 DEF RpcInv
  <2>3. Guarded(asked, proven)
    <3>1. Rpc!Expected(x) \in Rpc!Names
      BY <1>1, StepTypes
    <3>2. PICK e : e = Rpc!Expected(x)
      OBVIOUS
    <3>3. asked \in Seq(Rpc!ScriptSteps) /\ Len(asked) = 2
          /\ asked[1].op = "request" /\ asked[2].op = "command"
      BY <1>3, <3>1, <3>2 DEF Rpc!ScriptSteps
    <3> HIDE DEF asked
    <3>4. \A i \in 1 .. Len(asked) : i = 1 \/ i = 2
      BY <3>3
    <3> QED BY <3>3, <3>4 DEF Guarded
  <2>4. Guarded(Tail(todo[x]), proven)
    BY <1>1, TailIsGuarded DEF RpcInv
  <2> HIDE DEF asked
  <2>5. Guarded(asked \o Tail(todo[x]), proven)
    BY <2>3, <2>4, ConcatIsGuarded, Zenon
  <2> QED BY <1>1, <2>1, <2>2, <2>5, ScriptMoves DEF RpcInv
<1>5. CASE command \notin Rpc!Collections[Rpc!Expected(x)]
  <2>1. Rpc!Object("Response", "Err") \in RpcObjects
    BY ObjectTypes, KnownNames
  <2>2. Rpc!End(x, "failed")
        /\ toRead' = [y \in Rpc!Sides |->
                        IF y # x /\ Rpc!Running(y) /\ ~broken
                        THEN Append(toRead[y], Rpc!Object("Response", "Err")) ELSE <<>>]
    BY <1>2, <1>5 DEF Rpc!ReadHeader
  <2>3. toRead' \in [Rpc!Sides -> Seq(RpcObjects)]
    BY <2>1, <2>2 DEF RpcInv
  <2> QED BY <1>1, <2>2, <2>3, SideEnds DEF RpcInv
<1> QED BY <1>4, <1>5

LEMMA ReadRequestStep ==
    ASSUME RpcInv, NEW x \in Rpc!Sides, Rpc!ReadRequest(x)
    PROVE  RpcInv'
<1>1. todo[x] # <<>> /\ todo[x][1].op = "request" /\ proven' = proven /\ toRead[x] # <<>>
  BY DEF Rpc!ReadRequest, Rpc!Doing
<1>2. PICK command : command = todo[x][2].type
  OBVIOUS
<1>3. PICK ok \in BOOLEAN : ok <=> Rpc!May(Rpc!PeerIn(Rpc!Expected(x)), Rpc!PermissionOf(command))
  BY Zenon
<1>4. PICK answer : answer = Rpc!Object("Response", IF ok THEN "Ok" ELSE "Err")
  OBVIOUS
<1>5. PICK unread : unread = [toRead EXCEPT ![x] = IF ok THEN Tail(@) ELSE <<>>]
  OBVIOUS
<1>6. PICK y : y = Rpc!Other(x)
  OBVIOUS
<1>7. /\ toRead' = IF Rpc!Running(y) THEN [unread EXCEPT ![y] = Append(@, answer)] ELSE unread
      /\ IF ok THEN todo' = [todo EXCEPT ![x] = Rpc!HandlerOf(command) \o Tail(Tail(@))]
         ELSE Rpc!End(x, "failed")
  BY <1>2, <1>3, <1>4, <1>5, <1>6 DEF Rpc!ReadRequest
<1>8. toRead' \in [Rpc!Sides -> Seq(RpcObjects)]
  <2>1. answer \in RpcObjects
    BY <1>4, ObjectTypes, KnownNames
  <2>2. y \in Rpc!Sides /\ unread \in [Rpc!Sides -> Seq(RpcObjects)]
    <3>1. y \in Rpc!Sides
      BY <1>6 DEF Rpc!Sides, Rpc!Other
    <3>2. unread \in [Rpc!Sides -> Seq(RpcObjects)]
      BY <1>1, <1>5 DEF RpcInv
    <3> QED BY <3>1, <3>2
  <2> QED BY <1>7, <2>1, <2>2
<1>9. CASE ok
  <2>1. todo[x] \in Seq(Rpc!ScriptSteps) /\ Guarded(todo[x], proven)
    BY DEF RpcInv
  <2>2. Len(todo[x]) \in Nat /\ 1 \in 1 .. Len(todo[x])
    BY <1>1, <2>1
  <2>3. 1 + 1 \in 1 .. Len(todo[x]) /\ todo[x][1 + 1].op = "command"
    BY <1>1, <2>1, <2>2 DEF Guarded
  <2>4. Guarded(Tail(todo[x]), proven)
    BY <1>1, <2>1, TailIsGuarded
  <2>5. Tail(todo[x]) # <<>> /\ Tail(todo[x])[1].op = "command"
    <3>1. PICK s : s = todo[x]
      OBVIOUS
    <3>2. s \in Seq(Rpc!ScriptSteps) /\ Len(s) \in Nat /\ 2 <= Len(s) /\ s[2].op = "command"
      BY <2>1, <2>2, <2>3, <3>1
    <3>3. Len(Tail(s)) = Len(s) - 1 /\ Tail(s)[1] = s[2] /\ Tail(s) # <<>>
      BY <3>2
    <3> QED BY <3>1, <3>2, <3>3
  <2>6. Guarded(Tail(Tail(todo[x])), proven)
    BY <2>4, <2>5, TailIsGuarded
  <2>7. Guarded(Rpc!HandlerOf(command), proven)
    BY HandlersAreGuarded
  <2>8. Guarded(Rpc!HandlerOf(command) \o Tail(Tail(todo[x])), proven)
    BY <2>6, <2>7, ConcatIsGuarded, Zenon
  <2>9. todo' = [todo EXCEPT ![x] = Rpc!HandlerOf(command) \o Tail(Tail(todo[x]))]
    BY <1>7, <1>9
  <2> QED BY <1>1, <1>8, <2>8, <2>9, ScriptMoves DEF RpcInv
<1>10. CASE ~ok
  BY <1>1, <1>7, <1>8, <1>10, SideEnds DEF RpcInv
<1> QED BY <1>9, <1>10

\* Steps that only shorten a script or end a side.
LEMMA QuietSideSteps ==
    ASSUME RpcInv, NEW x \in Rpc!Sides,
           \/ Rpc!SessionLost(x) \/ Rpc!CheckStep(x) \/ Rpc!Finish(x) \/ Rpc!StreamStatus(x)
           \/ Rpc!DrainStatus(x) \/ Rpc!CopyEnds(x) \/ Rpc!Cancel(x)
    PROVE  RpcInv'
<1>1. CASE Rpc!SessionLost(x) \/ Rpc!Finish(x)
  <2>1. PICK how : Rpc!End(x, how)
    BY <1>1 DEF Rpc!SessionLost, Rpc!Finish
  <2>2. toRead' = Rpc!Dropped(x) /\ proven' = proven
    BY <1>1 DEF Rpc!SessionLost, Rpc!Finish
  <2> QED BY <2>1, <2>2, DroppedTypes, SideEnds DEF RpcInv
<1>2. CASE Rpc!CheckStep(x)
  <2>1. proven' = proven /\ todo[x] # <<>> /\ todo[x][1].op # "answer"
    BY <1>2 DEF Rpc!CheckStep, Rpc!Doing
  <2>2. CASE Rpc!GoOn(x, <<>>) /\ UNCHANGED toRead
    BY <2>1, <2>2, SideGoesOn DEF RpcInv
  <2>3. CASE Rpc!End(x, "failed") /\ toRead' = Rpc!Dropped(x)
    BY <2>1, <2>3, DroppedTypes, SideEnds DEF RpcInv
  <2> QED BY <1>2, <2>2, <2>3 DEF Rpc!CheckStep
<1>3. CASE Rpc!StreamStatus(x)
  <2>1. Rpc!Object("RealtimeStatus", "Ok") \in RpcObjects
    BY ObjectTypes, KnownNames
  <2>2. toRead' \in [Rpc!Sides -> Seq(RpcObjects)]
    BY <1>3, <2>1, DeliverTypes DEF Rpc!StreamStatus
  <2> QED BY <1>3, <2>2, OnlyReads DEF Rpc!StreamStatus
<1>4. CASE Rpc!DrainStatus(x)
  <2>1. toRead' \in [Rpc!Sides -> Seq(RpcObjects)]
    BY <1>4 DEF Rpc!DrainStatus, RpcInv
  <2> QED BY <1>4, <2>1, OnlyReads DEF Rpc!DrainStatus
<1>5. CASE Rpc!CopyEnds(x) \/ Rpc!Cancel(x)
  <2>1. /\ proven' = proven /\ toRead' = toRead /\ Rpc!GoOn(x, <<>>)
        /\ todo[x] # <<>> /\ todo[x][1].op # "answer"
    BY <1>5 DEF Rpc!CopyEnds, Rpc!Cancel, Rpc!Doing
  <2> QED BY <2>1, SideGoesOn DEF RpcInv
<1> QED BY <1>1, <1>2, <1>3, <1>4, <1>5

LEMMA LoginSteps ==
    ASSUME RpcInv, Rpc!LoginStep
    PROVE  RpcInv'
<1>1. "handler" \in Rpc!Sides /\ "dispatcher" \in Rpc!Sides
  BY DEF Rpc!Sides
<1>2. CASE Rpc!AddSession
  <2>1. /\ proven' = proven /\ toRead' = toRead /\ Rpc!GoOn("handler", <<>>)
        /\ todo["handler"] # <<>> /\ todo["handler"][1].op # "answer"
    BY <1>2 DEF Rpc!AddSession, Rpc!Doing
  <2> QED BY <1>1, <2>1, SideGoesOn DEF RpcInv
<1>3. CASE Rpc!ListProfiles \/ Rpc!SaveProfile \/ Rpc!SaveTrustStore
  <2>1. proven' = proven /\ todo["dispatcher"] # <<>> /\ todo["dispatcher"][1].op # "answer"
    BY <1>3 DEF Rpc!ListProfiles, Rpc!SaveProfile, Rpc!SaveTrustStore, Rpc!Doing
  <2>2. CASE Rpc!GoOn("dispatcher", <<>>) /\ UNCHANGED toRead
    BY <1>1, <2>1, <2>2, SideGoesOn DEF RpcInv
  <2>3. CASE Rpc!End("dispatcher", "failed") /\ toRead' = Rpc!Dropped("dispatcher")
    BY <1>1, <2>1, <2>3, DroppedTypes, SideEnds DEF RpcInv
  <2> QED BY <1>3, <2>2, <2>3 DEF Rpc!ListProfiles, Rpc!SaveProfile, Rpc!SaveTrustStore
<1> QED BY <1>2, <1>3 DEF Rpc!LoginStep

LEMMA DispatchStep ==
    ASSUME RpcInv, NEW command \in Rpc!Commands, NEW peer, NEW forwarded, NEW password, NEW totp,
           Rpc!Dispatch(command, peer, forwarded, password, totp)
    PROVE  RpcInv'
<1>1. command \in Rpc!Names
  BY DEF Rpc!Names
<1>2. Plain(Rpc!Frame(command))
  BY <1>1, KnownNames, PlainSteps, PlainConcats DEF Rpc!Frame
<1>3. Plain(Rpc!Handle(IF command = "deauthenticate" THEN "agent" ELSE "server"))
  BY KnownNames, PlainSteps
<1>4. Plain(IF forwarded THEN Rpc!ForwardConnection ELSE <<>>)
  BY PlainScripts, EmptyIsPlain
<1>5. Plain((IF forwarded THEN Rpc!ForwardConnection ELSE <<>>)
            \o Rpc!Frame(command) \o Rpc!DispatcherOf(command))
  BY <1>2, <1>4, DispatchersArePlain, PlainConcats, Zenon
<1>6. PICK h, d : /\ Plain(h) /\ Plain(d)
                 /\ todo' = [x \in Rpc!Sides |-> IF x = "handler" THEN h ELSE d]
  BY <1>3, <1>5, Zenon DEF Rpc!Dispatch
<1>7. proven' = {} /\ toRead' = [x \in Rpc!Sides |-> <<>>]
  BY DEF Rpc!Dispatch
<1>8. toRead' \in [Rpc!Sides -> Seq(RpcObjects)]
  BY <1>7
<1>9. todo' \in [Rpc!Sides -> Seq(Rpc!ScriptSteps)]
  BY <1>6 DEF Plain
<1>10. \A x \in Rpc!Sides : Plain(todo'[x])
  BY <1>6
<1>11. \A x \in Rpc!Sides : Guarded(todo'[x], proven')
  BY <1>10, PlainIsGuarded
<1> QED BY <1>7, <1>8, <1>9, <1>11 DEF RpcInv, Guarded

LEMMA RpcNext == RpcInv /\ [Rpc!Next]_(Rpc!vars) => RpcInv'
<1> SUFFICES ASSUME RpcInv, [Rpc!Next]_(Rpc!vars) PROVE RpcInv'
  OBVIOUS
<1>1. ASSUME NEW x \in Rpc!Sides, Rpc!SideStep(x) \/ Rpc!Cancel(x)
      PROVE  RpcInv'
  BY <1>1, WriteObjectStep, WriteAnswerStep, ReadObjectStep, ReadHeaderStep, ReadRequestStep,
     QuietSideSteps DEF Rpc!SideStep
<1>2. CASE Rpc!RemoveProfile \/ UNCHANGED Rpc!vars
  <2>1. UNCHANGED <<todo, toRead, proven>>
    BY <1>2 DEF Rpc!RemoveProfile, Rpc!vars
  <2> QED BY <2>1, OnlyReads DEF RpcInv
<1>3. CASE Rpc!Break
  <2>1. PICK n \in 0 .. Len(toRead["handler"]), k \in 0 .. Len(toRead["dispatcher"]) :
          toRead' = [x \in Rpc!Sides |-> SubSeq(toRead[x], 1, IF x = "handler" THEN n ELSE k)]
    BY <1>3 DEF Rpc!Break
  <2>2. toRead["handler"] \in Seq(RpcObjects) /\ toRead["dispatcher"] \in Seq(RpcObjects)
    BY DEF RpcInv, Rpc!Sides
  <2>3. SubSeq(toRead["handler"], 1, n) \in Seq(RpcObjects)
        /\ SubSeq(toRead["dispatcher"], 1, k) \in Seq(RpcObjects)
    BY <2>2
  <2>4. toRead' \in [Rpc!Sides -> Seq(RpcObjects)]
    BY <2>1, <2>3 DEF Rpc!Sides
  <2> QED BY <1>3, <2>4, OnlyReads DEF Rpc!Break
<1>4. CASE Rpc!KillClient
  <2>1. "dispatcher" \in Rpc!Sides
    BY DEF Rpc!Sides
  <2> QED BY <1>4, <2>1, DroppedTypes, SideEnds DEF Rpc!KillClient, RpcInv
<1> QED BY <1>1, <1>2, <1>3, <1>4, LoginSteps, DispatchStep DEF Rpc!Next

LEMMA RpcStart == Rpc!Init => RpcInv
<1>1. Rpc!Init => \A x \in Rpc!Sides : Guarded(todo[x], proven)
  BY EmptyIsGuarded DEF Rpc!Init
<1> QED BY <1>1 DEF Rpc!Init, RpcInv, BothAnswers

\* A session enters the server's table only after the password and the TOTP were found
\* right in the same session, whatever commands are nested in it, however it breaks and
\* whatever a client sends instead.
THEOREM SessionsAreAlwaysProven == ProcessesSpec => SessionsAreProven
<1>1. ProcessesInit => RpcInv
  BY RpcStart DEF ProcessesInit
<1>2. [ProcessesNext]_processesVars => [Rpc!Next]_(Rpc!vars)
  BY DEF ProcessesNext, processesVars, rpcVars, Rpc!vars
<1>3. RpcInv /\ [ProcessesNext]_processesVars => RpcInv'
  BY <1>2, RpcNext
<1>4. RpcInv /\ [Rpc!Next]_(Rpc!vars) /\ stored' # stored => proven = {"AuthResult", "TotpSuccess"}
  <2> SUFFICES ASSUME RpcInv, [Rpc!Next]_(Rpc!vars), stored' # stored
               PROVE  proven = {"AuthResult", "TotpSuccess"}
    OBVIOUS
  <2>1. Rpc!AddSession
    <3>1. ASSUME NEW x \in Rpc!Sides, Rpc!SideStep(x) \/ Rpc!Cancel(x)
          PROVE  stored' = stored
      BY <3>1 DEF Rpc!onDisk, Rpc!SideStep, Rpc!WriteObject, Rpc!WriteAnswer, Rpc!ReadObject,
                  Rpc!ReadHeader, Rpc!ReadRequest, Rpc!SessionLost, Rpc!CheckStep, Rpc!Finish,
                  Rpc!StreamStatus, Rpc!DrainStatus, Rpc!CopyEnds, Rpc!Cancel
    <3>2. ASSUME NEW command, NEW peer, NEW forwarded, NEW password, NEW totp,
                 Rpc!Dispatch(command, peer, forwarded, password, totp)
          PROVE  stored' = stored
      BY <3>2 DEF Rpc!onDisk, Rpc!Dispatch
    <3>3. CASE Rpc!RemoveProfile \/ Rpc!Break \/ Rpc!KillClient \/ UNCHANGED Rpc!vars
      BY <3>3 DEF Rpc!onDisk, Rpc!RemoveProfile, Rpc!Break, Rpc!KillClient, Rpc!vars
    <3>4. CASE Rpc!ListProfiles \/ Rpc!SaveProfile \/ Rpc!SaveTrustStore
      BY <3>4 DEF Rpc!onDisk, Rpc!ListProfiles, Rpc!SaveProfile, Rpc!SaveTrustStore
    <3> QED BY <3>1, <3>2, <3>3, <3>4 DEF Rpc!Next, Rpc!LoginStep
  <2>2. todo["handler"] # <<>> /\ todo["handler"][1].op = "store"
    BY <2>1 DEF Rpc!AddSession, Rpc!Doing
  <2>3. todo["handler"] \in Seq(Rpc!ScriptSteps) /\ Guarded(todo["handler"], proven)
    BY DEF RpcInv, Rpc!Sides
  <2>4. 1 \in 1 .. Len(todo["handler"])
    BY <2>2, <2>3
  <2>5. \A a \in {"AuthResult", "TotpSuccess"} : a \in proven
    BY <2>2, <2>3, <2>4 DEF Guarded
  <2> QED BY <2>5 DEF RpcInv, BothAnswers
<1>5. RpcInv /\ [ProcessesNext]_processesVars =>
        [stored' # stored => proven = {"AuthResult", "TotpSuccess"}]_(Rpc!vars)
  BY <1>2, <1>4
<1> QED BY <1>1, <1>3, <1>5, PTL DEF ProcessesSpec, SessionsAreProven, Rpc!SessionsAreProven

-----------------------------------------------------------------------------
(* The terminal.                                                           *)

\* The bytes of a number with the top bit set, and the number they give back.
ThreeOf(n, a, b, c) ==
    /\ n \in Nat /\ n < 8388608
    /\ a = ((n + 8388608) \div 65536) % 256 /\ b = ((n + 8388608) \div 256) % 256
    /\ c = ((n + 8388608) \div 1) % 256
ThreeGive(n, a, b, c) ==
    /\ a \in Nat /\ b \in Nat /\ c \in Nat /\ a >= 128
    /\ ((a % 128) * 65536) + (b * 256) + (c * 1) = n
FourOf(n, a, b, c, d) ==
    /\ n \in Nat /\ n < 2147483648
    /\ a = ((n + 2147483648) \div 16777216) % 256 /\ b = ((n + 2147483648) \div 65536) % 256
    /\ c = ((n + 2147483648) \div 256) % 256 /\ d = ((n + 2147483648) \div 1) % 256
FourGive(n, a, b, c, d) ==
    /\ a \in Nat /\ b \in Nat /\ c \in Nat /\ d \in Nat /\ a >= 128
    /\ ((a % 128) * 16777216) + (b * 65536) + (c * 256) + (d * 1) = n

LEMMA ThreeBytes ==
    ASSUME NEW n, NEW a, NEW b, NEW c, ThreeOf(n, a, b, c) PROVE ThreeGive(n, a, b, c)
  BY SMT DEF ThreeOf, ThreeGive

LEMMA FourBytes ==
    ASSUME NEW n, NEW a, NEW b, NEW c, NEW d, FourOf(n, a, b, c, d) PROVE FourGive(n, a, b, c, d)
  BY SMT DEF FourOf, FourGive

\* Every length but Top survives its encoding.
LEMMA LengthSurvives ==
    ASSUME NEW n \in 0 .. Pty!Top, n # Pty!Top
    PROVE  Pty!ToUsize(Pty!FromUsize(n)) = n
<1>1. LengthBytes \in 2 .. 4
  BY TerminalAssumption DEF Pty!LengthsFit
<1> DEFINE top == 128 * Pty!Weight(1)
<1>2. n \in 0 .. top /\ n # top
  BY DEF Pty!Top
<1>3. PICK b : b = Pty!FromUsize(n)
  OBVIOUS
<1>4. CASE n < 128
  <2>1. b = <<n>>
    BY <1>3, <1>4 DEF Pty!FromUsize
  <2>2. b[1] < 128 /\ b[1] = n /\ Len(b) # LengthBytes
    BY <1>1, <1>4, <2>1
  <2>3. Pty!ToUsize(b) = b[1]
    BY <2>2 DEF Pty!ToUsize
  <2> QED BY <1>3, <2>2, <2>3
<1>5. CASE ~(n < 128) /\ LengthBytes = 2
  <2>1. Pty!Weight(1) = 256 /\ Pty!Weight(2) = 1
    BY <1>5 DEF Pty!Weight
  <2>2. n \in Nat /\ n < 32768
    BY <1>2, <2>1
  <2>3. b = Pty!BigEndian((n % 32768) + 32768)
    BY <1>3, <1>5, <2>1 DEF Pty!FromUsize, Pty!Top
  <2>4. b = Pty!BigEndian(n + 32768)
    BY <2>2, <2>3
  <2>5. b = [i \in 1 .. 2 |-> ((n + 32768) \div Pty!Weight(i)) % 256]
    BY <1>5, <2>4 DEF Pty!BigEndian
  <2>6. b[1] = ((n + 32768) \div 256) % 256 /\ b[2] = ((n + 32768) \div 1) % 256
    BY <2>1, <2>5
  <2>7. Len(b) = 2
    BY <2>5
  <2>8. /\ b[1] \in Nat /\ b[2] \in Nat /\ b[1] >= 128
        /\ ((b[1] % 128) * 256) + (b[2] * 1) = n
    <3>1. PICK a : a = b[1]
      OBVIOUS
    <3>2. PICK c : c = b[2]
      OBVIOUS
    <3>3. a = ((n + 32768) \div 256) % 256 /\ c = ((n + 32768) \div 1) % 256
      BY <2>6, <3>1, <3>2
    <3>4. a \in Nat /\ c \in Nat /\ a >= 128 /\ ((a % 128) * 256) + (c * 1) = n
      BY <2>2, <3>3
    <3> QED BY <3>1, <3>2, <3>4
  <2> QED BY <1>3, <1>5, <2>1, <2>2, <2>7, <2>8 DEF Pty!ToUsize
<1>6. CASE ~(n < 128) /\ LengthBytes = 3
  <2>1. Pty!Weight(1) = 65536 /\ Pty!Weight(2) = 256 /\ Pty!Weight(3) = 1
    BY <1>6 DEF Pty!Weight
  <2>2. n \in Nat /\ n < 8388608
    BY <1>2, <2>1
  <2>3. b = Pty!BigEndian((n % 8388608) + 8388608)
    BY <1>3, <1>6, <2>1 DEF Pty!FromUsize, Pty!Top
  <2>4. b = Pty!BigEndian(n + 8388608)
    BY <2>2, <2>3
  <2>5. b = [i \in 1 .. 3 |-> ((n + 8388608) \div Pty!Weight(i)) % 256]
    BY <1>6, <2>4 DEF Pty!BigEndian
  <2>6. /\ b[1] = ((n + 8388608) \div 65536) % 256 /\ b[2] = ((n + 8388608) \div 256) % 256
        /\ b[3] = ((n + 8388608) \div 1) % 256
    BY <2>1, <2>5
  <2>7. Len(b) = 3
    BY <2>5
  <2>8. /\ b[1] \in Nat /\ b[2] \in Nat /\ b[3] \in Nat /\ b[1] >= 128
        /\ ((b[1] % 128) * 65536) + (b[2] * 256) + (b[3] * 1) = n
    <3>1. ThreeOf(n, b[1], b[2], b[3])
      BY <2>2, <2>6, SMT DEF ThreeOf
    <3>2. ThreeGive(n, b[1], b[2], b[3])
      BY <3>1, ThreeBytes, Zenon
    <3> QED BY <3>2, SMT DEF ThreeGive
  <2>9. LengthBytes = 3 /\ ~(b[1] < 128) /\ Len(b) = LengthBytes
    BY <1>6, <2>7, <2>8, SMT
  <2>10. Pty!ToUsize(b) = ((b[1] % 128) * Pty!Weight(1))
                          + (IF 2 <= LengthBytes THEN b[2] * Pty!Weight(2) ELSE 0)
                          + (IF 3 <= LengthBytes THEN b[3] * Pty!Weight(3) ELSE 0)
                          + (IF 4 <= LengthBytes THEN b[4] * Pty!Weight(4) ELSE 0)
    BY <2>9 DEF Pty!ToUsize
  <2>11. 2 <= LengthBytes /\ 3 <= LengthBytes /\ ~(4 <= LengthBytes) /\ b[1] % 128 \in Int
    BY <2>8, <2>9, SMT
  <2>12. Pty!ToUsize(b) = ((b[1] % 128) * 65536) + (b[2] * 256) + (b[3] * 1)
    BY <2>1, <2>8, <2>10, <2>11, SMT
  <2> QED BY <1>3, <2>8, <2>12, SMT
<1>7. CASE ~(n < 128) /\ LengthBytes = 4
  <2>1. /\ Pty!Weight(1) = 16777216 /\ Pty!Weight(2) = 65536
        /\ Pty!Weight(3) = 256 /\ Pty!Weight(4) = 1
    BY <1>7 DEF Pty!Weight
  <2>2. n \in Nat /\ n < 2147483648
    BY <1>2, <2>1
  <2>3. b = Pty!BigEndian((n % 2147483648) + 2147483648)
    BY <1>3, <1>7, <2>1 DEF Pty!FromUsize, Pty!Top
  <2>4. b = Pty!BigEndian(n + 2147483648)
    BY <2>2, <2>3
  <2>5. b = [i \in 1 .. 4 |-> ((n + 2147483648) \div Pty!Weight(i)) % 256]
    BY <1>7, <2>4 DEF Pty!BigEndian
  <2>6. /\ b[1] = ((n + 2147483648) \div 16777216) % 256
        /\ b[2] = ((n + 2147483648) \div 65536) % 256
        /\ b[3] = ((n + 2147483648) \div 256) % 256
        /\ b[4] = ((n + 2147483648) \div 1) % 256
    BY <2>1, <2>5
  <2>7. Len(b) = 4
    BY <2>5
  <2>8. /\ b[1] \in Nat /\ b[2] \in Nat /\ b[3] \in Nat /\ b[4] \in Nat /\ b[1] >= 128
        /\ ((b[1] % 128) * 16777216) + (b[2] * 65536) + (b[3] * 256) + (b[4] * 1) = n
    <3>1. FourOf(n, b[1], b[2], b[3], b[4])
      BY <2>2, <2>6, SMT DEF FourOf
    <3>2. FourGive(n, b[1], b[2], b[3], b[4])
      BY <3>1, FourBytes, Zenon
    <3> QED BY <3>2, SMT DEF FourGive
  <2>9. LengthBytes = 4 /\ ~(b[1] < 128) /\ Len(b) = LengthBytes
    BY <1>7, <2>7, <2>8, SMT
  <2>10. Pty!ToUsize(b) = ((b[1] % 128) * Pty!Weight(1))
                          + (IF 2 <= LengthBytes THEN b[2] * Pty!Weight(2) ELSE 0)
                          + (IF 3 <= LengthBytes THEN b[3] * Pty!Weight(3) ELSE 0)
                          + (IF 4 <= LengthBytes THEN b[4] * Pty!Weight(4) ELSE 0)
    BY <2>9 DEF Pty!ToUsize
  <2>11. 2 <= LengthBytes /\ 3 <= LengthBytes /\ 4 <= LengthBytes /\ b[1] % 128 \in Int
    BY <2>8, <2>9, SMT
  <2>12. Pty!ToUsize(b) = ((b[1] % 128) * 16777216) + (b[2] * 65536) + (b[3] * 256) + (b[4] * 1)
    BY <2>1, <2>8, <2>10, <2>11, SMT
  <2> QED BY <1>3, <2>8, <2>12, SMT
<1> QED BY <1>1, <1>4, <1>5, <1>6, <1>7

\* What a side writes: the client its size, input and a Close, the agent output and at
\* last None.
Kinds(o) == IF o = "client" THEN {"size", "input", "close"} ELSE {"output", "none"}
Objects(o) == [kind : Kinds(o), size : 0 .. Pty!Top]
Lengths == { Pty!FromUsize(n) : n \in Nat }
AnyPiece(o) == [part : {"length"}, bytes : Lengths] \cup [part : {"body"}, object : Objects(o)]

\* The pieces of the objects x.
LengthPiece(object) == [part |-> "length", bytes |-> Pty!FromUsize(object.size)]
BodyPiece(object) == [part |-> "body", object |-> object]
IsPiece(piece, x, j) ==
    \A n \in DOMAIN x : /\ j = (2 * n) - 1 => piece = LengthPiece(x[n])
                        /\ j = 2 * n => piece = BodyPiece(x[n])

\* A stream is in step: what its reader has read (r, and perhaps a length g), what is in
\* the stream (p) and what its writer has still to write (w) are the pieces of the objects x.
InStep(w, p, g, r, x) ==
    LET c == (2 * Len(r)) + Len(g)
    IN /\ g # <<>> => Len(r) < Len(x) /\ g[1] = Pty!FromUsize(x[Len(r) + 1].size)
       /\ \A i \in 1 .. Len(p) : IsPiece(p[i], x, c + i)
       /\ \A i \in 1 .. Len(w) : IsPiece(w[i], x, c + Len(p) + i)
       /\ c + Len(p) + Len(w) = 2 * Len(x)

StreamTypes(o, w, p, g, r, x) ==
    /\ w \in Seq(AnyPiece(o)) /\ p \in Seq(AnyPiece(o)) /\ g \in Seq(Lengths)
    /\ r \in Seq(Objects(o)) /\ x \in Seq(Objects(o))
    /\ Len(w) <= 2 /\ Len(p) <= PipeCap /\ Len(g) <= 1

LEMMA LengthOf ==
    ASSUME NEW S, NEW s \in Seq(S)
    PROVE  Len(s) \in Nat /\ (s # <<>> <=> Len(s) > 0) /\ DOMAIN s = 1 .. Len(s)
  OBVIOUS

LEMMA TailOf ==
    ASSUME NEW S, NEW s \in Seq(S), s # <<>>
    PROVE  /\ Head(s) \in S /\ Head(s) = s[1] /\ Tail(s) \in Seq(S) /\ Len(s) > 0
           /\ Len(Tail(s)) = Len(s) - 1
           /\ \A i \in 1 .. Len(Tail(s)) : i + 1 \in 1 .. Len(s) /\ Tail(s)[i] = s[i + 1]
  OBVIOUS

LEMMA AppendOf ==
    ASSUME NEW S, NEW s \in Seq(S), NEW e \in S
    PROVE  /\ Append(s, e) \in Seq(S) /\ Len(Append(s, e)) = Len(s) + 1
           /\ Append(s, e)[Len(s) + 1] = e
           /\ \A i \in 1 .. Len(s) : Append(s, e)[i] = s[i]
  OBVIOUS

LEMMA StepWrites ==
    ASSUME NEW o, NEW w, NEW p, NEW g, NEW r, NEW x,
           StreamTypes(o, w, p, g, r, x), InStep(w, p, g, r, x), w # <<>>
    PROVE  InStep(Tail(w), Append(p, Head(w)), g, r, x)
<1>1. /\ Len(w) \in Nat /\ Len(p) \in Nat /\ Len(g) \in Nat /\ Len(r) \in Nat /\ Len(x) \in Nat
  BY LengthOf DEF StreamTypes
<1>2. /\ Len(Tail(w)) = Len(w) - 1 /\ Head(w) = w[1] /\ Len(w) > 0 /\ Head(w) \in AnyPiece(o)
      /\ \A i \in 1 .. Len(Tail(w)) : i + 1 \in 1 .. Len(w) /\ Tail(w)[i] = w[i + 1]
  BY TailOf DEF StreamTypes
<1>3. /\ Len(Append(p, Head(w))) = Len(p) + 1 /\ Append(p, Head(w))[Len(p) + 1] = w[1]
      /\ \A i \in 1 .. Len(p) : Append(p, Head(w))[i] = p[i]
  BY <1>2, AppendOf DEF StreamTypes
<1>4. PICK c \in Nat : c = (2 * Len(r)) + Len(g)
  BY <1>1
<1>5. ASSUME NEW i \in 1 .. Len(p) + 1 PROVE IsPiece(Append(p, Head(w))[i], x, c + i)
  <2>1. CASE i \in 1 .. Len(p)
    BY <1>3, <1>4, <2>1 DEF InStep
  <2>2. CASE i = Len(p) + 1
    <3>1. 1 \in 1 .. Len(w) /\ c + Len(p) + 1 = c + i
      BY <1>1, <1>2, <2>2
    <3> QED BY <1>3, <1>4, <2>2, <3>1 DEF InStep
  <2> QED BY <1>1, <2>1, <2>2
<1>6. ASSUME NEW i \in 1 .. Len(w) - 1 PROVE IsPiece(Tail(w)[i], x, c + (Len(p) + 1) + i)
  <2>1. i + 1 \in 1 .. Len(w) /\ Tail(w)[i] = w[i + 1] /\ c + Len(p) + (i + 1) = c + (Len(p) + 1) + i
    BY <1>1, <1>2
  <2> QED BY <1>4, <2>1 DEF InStep
<1>7. c + (Len(p) + 1) + (Len(w) - 1) = 2 * Len(x)
  <2>1. c + Len(p) + Len(w) = 2 * Len(x)
    BY <1>4 DEF InStep
  <2> QED BY <1>1, <2>1
<1> QED BY <1>2, <1>3, <1>4, <1>5, <1>6, <1>7 DEF InStep

LEMMA TopIsNat == Pty!Top \in Nat /\ Pty!Top >= 1
<1>1. LengthBytes \in 2 .. 4
  BY TerminalAssumption DEF Pty!LengthsFit
<1>2. Pty!Weight(1) \in {256, 65536, 16777216}
  <2>1. LengthBytes = 2 \/ LengthBytes = 3 \/ LengthBytes = 4
    BY <1>1
  <2> QED BY <2>1 DEF Pty!Weight
<1> QED BY <1>2 DEF Pty!Top

LEMMA StepBegins ==
    ASSUME NEW o, NEW p, NEW g, NEW r, NEW x, NEW object \in Objects(o),
           StreamTypes(o, <<>>, p, g, r, x), InStep(<<>>, p, g, r, x)
    PROVE  /\ InStep(Pty!Pieces(object), p, g, r, Append(x, object))
           /\ Pty!Pieces(object) \in Seq(AnyPiece(o)) /\ Len(Pty!Pieces(object)) = 2
<1>1. /\ Len(p) \in Nat /\ Len(g) \in Nat /\ Len(r) \in Nat /\ Len(x) \in Nat
      /\ DOMAIN x = 1 .. Len(x)
  BY LengthOf DEF StreamTypes
<1>2. PICK y : y = Append(x, object)
  OBVIOUS
<1>3. /\ y \in Seq(Objects(o)) /\ Len(y) = Len(x) + 1 /\ y[Len(x) + 1] = object
      /\ \A i \in 1 .. Len(x) : y[i] = x[i]
  BY <1>2, AppendOf DEF StreamTypes
<1>4. DOMAIN y = 1 .. Len(x) + 1
  BY <1>3, LengthOf
<1>5. PICK c \in Nat : c = (2 * Len(r)) + Len(g)
  BY <1>1
<1>6. c + Len(p) = 2 * Len(x)
  BY <1>1, <1>5 DEF InStep
<1>7. PICK w : w = <<LengthPiece(object), BodyPiece(object)>>
  OBVIOUS
<1>8. w = Pty!Pieces(object)
  BY <1>7 DEF Pty!Pieces, LengthPiece, BodyPiece
<1>9. LengthPiece(object) \in AnyPiece(o) /\ BodyPiece(object) \in AnyPiece(o)
  <2>1. object.size \in Nat
    BY TerminalAssumption, TopIsNat DEF Objects
  <2> QED BY <2>1 DEF LengthPiece, BodyPiece, AnyPiece, Lengths
<1>10. /\ w \in Seq(AnyPiece(o)) /\ Len(w) = 2
       /\ w[1] = LengthPiece(y[Len(x) + 1]) /\ w[2] = BodyPiece(y[Len(x) + 1])
  BY <1>3, <1>7, <1>9
<1>11. g # <<>> => Len(r) < Len(x) /\ Len(r) < Len(y) /\ y[Len(r) + 1] = x[Len(r) + 1]
  <2>1. g # <<>> => Len(r) < Len(x)
    BY DEF InStep
  <2> QED BY <1>1, <1>3, <2>1
<1>12. ASSUME NEW i \in 1 .. Len(p) PROVE IsPiece(p[i], y, c + i)
  <2>1. IsPiece(p[i], x, c + i)
    BY <1>5 DEF InStep
  <2>2. ASSUME NEW n \in 1 .. Len(x) + 1
        PROVE  /\ c + i = (2 * n) - 1 => p[i] = LengthPiece(y[n])
               /\ c + i = 2 * n => p[i] = BodyPiece(y[n])
    <3>1. CASE n \in 1 .. Len(x)
      <4>1. n \in DOMAIN x /\ y[n] = x[n]
        BY <1>1, <1>3, <3>1
      <4> QED BY <2>1, <4>1 DEF IsPiece
    <3>2. CASE n = Len(x) + 1
      <4>1. c + i <= 2 * Len(x) /\ 2 * n = (2 * Len(x)) + 2 /\ c + i \in Nat
        BY <1>1, <1>6, <3>2
      <4>2. c + i # (2 * n) - 1 /\ c + i # 2 * n
        BY <1>1, <4>1
      <4> QED BY <4>2
    <3> QED BY <1>1, <3>1, <3>2
  <2> QED BY <1>4, <2>2 DEF IsPiece
<1>13. ASSUME NEW i \in 1 .. 2 PROVE IsPiece(w[i], y, c + Len(p) + i)
  <2>1. ASSUME NEW n \in 1 .. Len(x) + 1
        PROVE  /\ c + Len(p) + i = (2 * n) - 1 => w[i] = LengthPiece(y[n])
               /\ c + Len(p) + i = 2 * n => w[i] = BodyPiece(y[n])
    <3>1. c + Len(p) + i = (2 * Len(x)) + i
      BY <1>6
    <3>2. (2 * Len(x)) + i = (2 * n) - 1 => n = Len(x) + 1 /\ i = 1
      BY <1>1
    <3>3. (2 * Len(x)) + i = 2 * n => n = Len(x) + 1 /\ i = 2
      BY <1>1
    <3> QED BY <1>10, <3>1, <3>2, <3>3
  <2> QED BY <1>4, <2>1 DEF IsPiece
<1>14. c + Len(p) + 2 = 2 * Len(y)
  BY <1>1, <1>3, <1>6
<1>15. g # <<>> => g[1] = Pty!FromUsize(x[Len(r) + 1].size)
  BY DEF InStep
<1>16. InStep(w, p, g, r, y)
  BY <1>5, <1>10, <1>11, <1>12, <1>13, <1>14, <1>15 DEF InStep
<1> QED BY <1>2, <1>8, <1>10, <1>16

LEMMA StepReadsLength ==
    ASSUME NEW o, NEW w, NEW p, NEW r, NEW x,
           StreamTypes(o, w, p, <<>>, r, x), InStep(w, p, <<>>, r, x), p # <<>>
    PROVE  Head(p).bytes \in Lengths /\ InStep(w, Tail(p), <<Head(p).bytes>>, r, x)
<1>1. /\ Len(w) \in Nat /\ Len(p) \in Nat /\ Len(r) \in Nat /\ Len(x) \in Nat
      /\ DOMAIN x = 1 .. Len(x)
  BY LengthOf DEF StreamTypes
<1>2. /\ Len(Tail(p)) = Len(p) - 1 /\ Head(p) = p[1] /\ Len(p) > 0
      /\ \A i \in 1 .. Len(Tail(p)) : i + 1 \in 1 .. Len(p) /\ Tail(p)[i] = p[i + 1]
  BY TailOf DEF StreamTypes
<1>3. PICK c \in Nat : c = 2 * Len(r)
  BY <1>1
<1>4. Len(<<>>) = 0 /\ (2 * Len(r)) + Len(<<>>) = c
  BY <1>1, <1>3
<1>5. c + Len(p) + Len(w) = 2 * Len(x)
  BY <1>4 DEF InStep
<1>6. Len(r) < Len(x) /\ Len(r) + 1 \in DOMAIN x /\ c + 1 = (2 * (Len(r) + 1)) - 1
  BY <1>1, <1>2, <1>3, <1>5
<1>7. IsPiece(p[1], x, c + 1)
  <2>1. 1 \in 1 .. Len(p)
    BY <1>1, <1>2
  <2> QED BY <1>4, <2>1 DEF InStep
<1>8. p[1] = LengthPiece(x[Len(r) + 1])
  BY <1>6, <1>7 DEF IsPiece
<1>9. PICK b : b = Head(p).bytes
  OBVIOUS
<1>10. b = Pty!FromUsize(x[Len(r) + 1].size)
  BY <1>2, <1>8, <1>9 DEF LengthPiece
<1>11. x[Len(r) + 1].size \in Nat
  <2>1. x[Len(r) + 1] \in Objects(o)
    BY <1>6 DEF StreamTypes
  <2> QED BY <2>1, TopIsNat DEF Objects
<1>12. Len(<<b>>) = 1 /\ <<b>>[1] = b /\ (2 * Len(r)) + Len(<<b>>) = c + 1
  BY <1>1, <1>3
<1>13. ASSUME NEW i \in 1 .. Len(p) - 1 PROVE IsPiece(Tail(p)[i], x, (c + 1) + i)
  <2>1. i + 1 \in 1 .. Len(p) /\ Tail(p)[i] = p[i + 1] /\ c + (i + 1) = (c + 1) + i
    BY <1>1, <1>2
  <2> QED BY <1>4, <2>1 DEF InStep
<1>14. ASSUME NEW i \in 1 .. Len(w) PROVE IsPiece(w[i], x, (c + 1) + (Len(p) - 1) + i)
  <2>1. (c + 1) + (Len(p) - 1) + i = c + Len(p) + i
    BY <1>1
  <2> QED BY <1>4, <2>1 DEF InStep
<1>15. (c + 1) + (Len(p) - 1) + Len(w) = 2 * Len(x)
  BY <1>1, <1>5
<1>16. InStep(w, Tail(p), <<b>>, r, x)
  BY <1>2, <1>6, <1>10, <1>12, <1>13, <1>14, <1>15 DEF InStep
<1> QED BY <1>9, <1>10, <1>11, <1>16 DEF Lengths

LEMMA StepReadsBody ==
    ASSUME NEW o, NEW w, NEW p, NEW g, NEW r, NEW x,
           StreamTypes(o, w, p, g, r, x), InStep(w, p, g, r, x), g # <<>>, p # <<>>
    PROVE  LET object == Head(p).object
           IN /\ Len(r) < Len(x) /\ object = x[Len(r) + 1] /\ object \in Objects(o)
              /\ g[1] = Pty!FromUsize(object.size)
              /\ InStep(w, Tail(p), <<>>, Append(r, object), x)
<1>1. /\ Len(w) \in Nat /\ Len(p) \in Nat /\ Len(r) \in Nat /\ Len(x) \in Nat /\ Len(g) = 1
      /\ DOMAIN x = 1 .. Len(x)
  <2>1. Len(g) \in Nat /\ Len(g) > 0 /\ Len(g) <= 1
    BY LengthOf DEF StreamTypes
  <2>2. Len(g) = 1
    BY <2>1
  <2> QED BY <2>2, LengthOf DEF StreamTypes
<1>2. /\ Len(Tail(p)) = Len(p) - 1 /\ Head(p) = p[1] /\ Len(p) > 0
      /\ \A i \in 1 .. Len(Tail(p)) : i + 1 \in 1 .. Len(p) /\ Tail(p)[i] = p[i + 1]
  BY TailOf DEF StreamTypes
<1>3. PICK c \in Nat : c = (2 * Len(r)) + Len(g)
  BY <1>1
<1>4. c + Len(p) + Len(w) = 2 * Len(x)
  BY <1>3 DEF InStep
<1>5. Len(r) < Len(x) /\ g[1] = Pty!FromUsize(x[Len(r) + 1].size)
  BY DEF InStep
<1>6. Len(r) + 1 \in DOMAIN x /\ c + 1 = 2 * (Len(r) + 1)
  BY <1>1, <1>3, <1>5
<1>7. IsPiece(p[1], x, c + 1)
  <2>1. 1 \in 1 .. Len(p)
    BY <1>1, <1>2
  <2> QED BY <1>3, <2>1 DEF InStep
<1>8. p[1] = BodyPiece(x[Len(r) + 1])
  BY <1>6, <1>7 DEF IsPiece
<1>9. PICK object : object = Head(p).object
  OBVIOUS
<1>10. object = x[Len(r) + 1] /\ object \in Objects(o)
  BY <1>2, <1>6, <1>8, <1>9 DEF BodyPiece, StreamTypes
<1>11. PICK q : q = Append(r, object)
  OBVIOUS
<1>12. Len(q) = Len(r) + 1
  BY <1>10, <1>11, AppendOf DEF StreamTypes
<1>13. Len(<<>>) = 0 /\ (2 * Len(q)) + Len(<<>>) = c + 1
  BY <1>1, <1>3, <1>12
<1>14. ASSUME NEW i \in 1 .. Len(p) - 1 PROVE IsPiece(Tail(p)[i], x, (c + 1) + i)
  <2>1. i + 1 \in 1 .. Len(p) /\ Tail(p)[i] = p[i + 1] /\ c + (i + 1) = (c + 1) + i
    BY <1>1, <1>2
  <2> QED BY <1>3, <2>1 DEF InStep
<1>15. ASSUME NEW i \in 1 .. Len(w) PROVE IsPiece(w[i], x, (c + 1) + (Len(p) - 1) + i)
  <2>1. (c + 1) + (Len(p) - 1) + i = c + Len(p) + i
    BY <1>1
  <2> QED BY <1>3, <2>1 DEF InStep
<1>16. (c + 1) + (Len(p) - 1) + Len(w) = 2 * Len(x)
  BY <1>1, <1>4
<1>17. InStep(w, Tail(p), <<>>, q, x)
  BY <1>2, <1>13, <1>14, <1>15, <1>16 DEF InStep
<1> QED BY <1>5, <1>9, <1>10, <1>11, <1>17

\* One direction of a terminal: whatever was read is what was written; a read is torn only
\* when a length was taken and dropped (t), and a body is misread only after a length that
\* does not survive its encoding (m).
StreamInv(o, w, p, g, r, x, t, m) ==
    /\ StreamTypes(o, w, p, g, r, x)
    /\ Len(r) <= Len(x) /\ \A i \in 1 .. Len(r) : r[i] = x[i]
    /\ g # <<>> => ~t /\ ~m
    /\ m => \E i \in DOMAIN x : x[i].size = Pty!Top
    /\ ~t /\ ~m => InStep(w, p, g, r, x)

LEMMA WritesPiece ==
    ASSUME NEW o, NEW w, NEW p, NEW g, NEW r, NEW x, NEW t, NEW m,
           StreamInv(o, w, p, g, r, x, t, m), w # <<>>, Len(p) < PipeCap
    PROVE  StreamInv(o, Tail(w), Append(p, Head(w)), g, r, x, t, m)
<1>1. StreamTypes(o, w, p, g, r, x)
  BY DEF StreamInv
<1>2. PipeCap \in Nat /\ Len(p) \in Nat /\ Len(w) \in Nat
  BY <1>1, TerminalAssumption DEF Pty!LengthsFit, StreamTypes
<1>3. /\ Tail(w) \in Seq(AnyPiece(o)) /\ Len(Tail(w)) = Len(w) - 1 /\ Head(w) \in AnyPiece(o)
  BY <1>1, TailOf DEF StreamTypes
<1>4. Append(p, Head(w)) \in Seq(AnyPiece(o)) /\ Len(Append(p, Head(w))) = Len(p) + 1
  BY <1>1, <1>3, AppendOf DEF StreamTypes
<1>5. Len(Tail(w)) <= 2 /\ Len(Append(p, Head(w))) <= PipeCap
  <2>1. Len(w) <= 2
    BY <1>1 DEF StreamTypes
  <2> QED BY <1>2, <1>3, <1>4, <2>1
<1>6. StreamTypes(o, Tail(w), Append(p, Head(w)), g, r, x)
  BY <1>1, <1>3, <1>4, <1>5 DEF StreamTypes
<1>7. ~t /\ ~m => InStep(Tail(w), Append(p, Head(w)), g, r, x)
  BY <1>1, StepWrites DEF StreamInv
<1> QED BY <1>6, <1>7 DEF StreamInv

LEMMA BeginsObject ==
    ASSUME NEW o, NEW p, NEW g, NEW r, NEW x, NEW t, NEW m, NEW object \in Objects(o),
           StreamInv(o, <<>>, p, g, r, x, t, m)
    PROVE  StreamInv(o, Pty!Pieces(object), p, g, r, Append(x, object), t, m)
<1>1. StreamTypes(o, <<>>, p, g, r, x)
  BY DEF StreamInv
<1>2. PICK y : y = Append(x, object)
  OBVIOUS
<1>3. /\ y \in Seq(Objects(o)) /\ Len(y) = Len(x) + 1 /\ \A i \in 1 .. Len(x) : y[i] = x[i]
      /\ Len(x) \in Nat /\ Len(r) \in Nat /\ DOMAIN x = 1 .. Len(x)
  BY <1>1, <1>2, AppendOf, LengthOf DEF StreamTypes
<1>4. DOMAIN y = 1 .. Len(x) + 1
  BY <1>3, LengthOf
<1>5. PICK w : w = Pty!Pieces(object)
  OBVIOUS
<1>6. w \in Seq(AnyPiece(o)) /\ Len(w) = 2
  <2>1. object.size \in Nat
    BY TopIsNat DEF Objects
  <2>2. LengthPiece(object) \in AnyPiece(o) /\ BodyPiece(object) \in AnyPiece(o)
    BY <2>1 DEF LengthPiece, BodyPiece, AnyPiece, Lengths
  <2>3. w = <<LengthPiece(object), BodyPiece(object)>>
    BY <1>5 DEF Pty!Pieces, LengthPiece, BodyPiece
  <2> QED BY <2>2, <2>3
<1>7. StreamTypes(o, w, p, g, r, y)
  BY <1>1, <1>3, <1>6 DEF StreamTypes
<1>8. Len(r) <= Len(y) /\ \A i \in 1 .. Len(r) : r[i] = y[i]
  <2>1. Len(r) <= Len(x) /\ \A i \in 1 .. Len(r) : r[i] = x[i]
    BY DEF StreamInv
  <2> QED BY <1>3, <2>1
<1>9. m => \E i \in DOMAIN y : y[i].size = Pty!Top
  <2> SUFFICES ASSUME m PROVE \E i \in DOMAIN y : y[i].size = Pty!Top
    OBVIOUS
  <2>1. PICK i \in 1 .. Len(x) : x[i].size = Pty!Top
    BY <1>3 DEF StreamInv
  <2>2. i \in DOMAIN y /\ y[i] = x[i]
    BY <1>3, <1>4
  <2> QED BY <2>1, <2>2
<1>10. ~t /\ ~m => InStep(w, p, g, r, y)
  BY <1>1, <1>2, <1>5, StepBegins DEF StreamInv
<1>11. StreamInv(o, w, p, g, r, y, t, m)
  BY <1>7, <1>8, <1>9, <1>10 DEF StreamInv
<1> QED BY <1>2, <1>5, <1>11

LEMMA ReadsLength ==
    ASSUME NEW o, NEW w, NEW p, NEW r, NEW x, NEW t, NEW m,
           StreamInv(o, w, p, <<>>, r, x, t, m), ~t, ~m, p # <<>>
    PROVE  StreamInv(o, w, Tail(p), <<Head(p).bytes>>, r, x, t, m)
<1>1. StreamTypes(o, w, p, <<>>, r, x) /\ InStep(w, p, <<>>, r, x)
  BY DEF StreamInv
<1>2. PICK b : b = Head(p).bytes
  OBVIOUS
<1>3. b \in Lengths /\ InStep(w, Tail(p), <<b>>, r, x)
  BY <1>1, <1>2, StepReadsLength
<1>4. Tail(p) \in Seq(AnyPiece(o)) /\ Len(Tail(p)) = Len(p) - 1 /\ Len(p) \in Nat
  BY <1>1, TailOf, LengthOf DEF StreamTypes
<1>5. <<b>> \in Seq(Lengths) /\ Len(<<b>>) = 1
  BY <1>3
<1>6. Len(Tail(p)) <= PipeCap
  <2>1. PipeCap \in Nat /\ Len(p) <= PipeCap
    BY <1>1, TerminalAssumption DEF Pty!LengthsFit, StreamTypes
  <2> QED BY <1>4, <2>1
<1>7. StreamTypes(o, w, Tail(p), <<b>>, r, x)
  BY <1>1, <1>4, <1>5, <1>6 DEF StreamTypes
<1> QED BY <1>2, <1>3, <1>7 DEF StreamInv

LEMMA ReadsBody ==
    ASSUME NEW o, NEW w, NEW p, NEW g, NEW r, NEW x, NEW t, NEW m,
           StreamInv(o, w, p, g, r, x, t, m), g # <<>>, p # <<>>
    PROVE  /\ Head(p).object \in Objects(o)
           /\ Pty!ToUsize(g[1]) = Head(p).object.size
                => StreamInv(o, w, Tail(p), <<>>, Append(r, Head(p).object), x, t, m)
           /\ Pty!ToUsize(g[1]) # Head(p).object.size
                => StreamInv(o, w, Tail(p), <<>>, r, x, t, TRUE)
<1>1. StreamTypes(o, w, p, g, r, x) /\ InStep(w, p, g, r, x) /\ ~t /\ ~m
  BY DEF StreamInv
<1>2. PICK object : object = Head(p).object
  OBVIOUS
<1>3. /\ Len(r) < Len(x) /\ object = x[Len(r) + 1] /\ object \in Objects(o)
      /\ g[1] = Pty!FromUsize(object.size)
      /\ InStep(w, Tail(p), <<>>, Append(r, object), x)
  BY <1>1, <1>2, StepReadsBody
<1>4. Tail(p) \in Seq(AnyPiece(o)) /\ Len(Tail(p)) = Len(p) - 1 /\ Len(p) \in Nat
  BY <1>1, TailOf, LengthOf DEF StreamTypes
<1>5. <<>> \in Seq(Lengths) /\ Len(<<>>) = 0
  OBVIOUS
<1>6. Len(Tail(p)) <= PipeCap
  <2>1. PipeCap \in Nat /\ Len(p) <= PipeCap
    BY <1>1, TerminalAssumption DEF Pty!LengthsFit, StreamTypes
  <2> QED BY <1>4, <2>1
<1>7. StreamTypes(o, w, Tail(p), <<>>, r, x)
  BY <1>1, <1>4, <1>5, <1>6 DEF StreamTypes
<1>8. PICK q : q = Append(r, object)
  OBVIOUS
<1>9. /\ q \in Seq(Objects(o)) /\ Len(q) = Len(r) + 1 /\ q[Len(r) + 1] = object
      /\ \A i \in 1 .. Len(r) : q[i] = r[i]
      /\ Len(r) \in Nat /\ Len(x) \in Nat /\ DOMAIN x = 1 .. Len(x)
  BY <1>1, <1>3, <1>8, AppendOf, LengthOf DEF StreamTypes
<1>10. StreamTypes(o, w, Tail(p), <<>>, q, x)
  BY <1>7, <1>9 DEF StreamTypes
<1>11. Len(q) <= Len(x) /\ \A i \in 1 .. Len(q) : q[i] = x[i]
  <2>1. \A i \in 1 .. Len(r) : r[i] = x[i]
    BY DEF StreamInv
  <2>2. Len(q) <= Len(x)
    BY <1>3, <1>9
  <2>3. ASSUME NEW i \in 1 .. Len(r) + 1 PROVE q[i] = x[i]
    <3>1. i \in 1 .. Len(r) \/ i = Len(r) + 1
      BY <1>9
    <3> QED BY <1>3, <1>9, <2>1, <3>1
  <2> QED BY <1>9, <2>2, <2>3
<1>12. StreamInv(o, w, Tail(p), <<>>, q, x, t, m)
  BY <1>1, <1>3, <1>8, <1>10, <1>11 DEF StreamInv
<1>13. ASSUME Pty!ToUsize(g[1]) # object.size PROVE StreamInv(o, w, Tail(p), <<>>, r, x, t, TRUE)
  <2>1. object.size = Pty!Top
    <3>1. object.size \in 0 .. Pty!Top
      BY <1>3 DEF Objects
    <3> QED BY <1>3, <1>13, <3>1, LengthSurvives
  <2>2. Len(r) + 1 \in DOMAIN x
    BY <1>3, <1>9
  <2> QED BY <1>3, <1>7, <2>1, <2>2 DEF StreamInv
<1> QED BY <1>2, <1>3, <1>8, <1>12, <1>13

LEMMA ReadsGarbage ==
    ASSUME NEW o, NEW w, NEW p, NEW g, NEW r, NEW x, NEW t, NEW m,
           StreamInv(o, w, p, g, r, x, t, m), t, p # <<>>
    PROVE  StreamInv(o, w, Tail(p), g, r, x, t, m)
<1>1. StreamTypes(o, w, p, g, r, x)
  BY DEF StreamInv
<1>2. Tail(p) \in Seq(AnyPiece(o)) /\ Len(Tail(p)) = Len(p) - 1 /\ Len(p) \in Nat
  BY <1>1, TailOf, LengthOf DEF StreamTypes
<1>3. Len(Tail(p)) <= PipeCap
  <2>1. PipeCap \in Nat /\ Len(p) <= PipeCap
    BY <1>1, TerminalAssumption DEF Pty!LengthsFit, StreamTypes
  <2> QED BY <1>2, <2>1
<1>4. StreamTypes(o, w, Tail(p), g, r, x)
  BY <1>1, <1>2, <1>3 DEF StreamTypes
<1> QED BY <1>4 DEF StreamInv

LEMMA DropsRead ==
    ASSUME NEW o, NEW w, NEW p, NEW g, NEW r, NEW x, NEW t, NEW m,
           StreamInv(o, w, p, g, r, x, t, m)
    PROVE  StreamInv(o, w, p, <<>>, r, x, t \/ g # <<>>, m)
<1>1. StreamTypes(o, w, p, <<>>, r, x)
  BY DEF StreamInv, StreamTypes
<1>2. CASE g = <<>>
  BY <1>1, <1>2 DEF StreamInv
<1>3. CASE g # <<>>
  BY <1>1, <1>3 DEF StreamInv
<1> QED BY <1>2, <1>3

Stream(s) ==
    StreamInv(Pty!Other(s), writing[Pty!Other(s)], pipe[Pty!Other(s)], got[s], received[s],
              sent[Pty!Other(s)], torn[s], misread[s])

\* A side that misread something has left its loop.
Left(s) == IF s = "client" THEN window # "run" ELSE shellTask = "ended"

PtyTypes ==
    /\ window \in {"run", "close", "ended"} /\ shellTask \in {"size", "run", "last", "ended"}
    /\ shell \in {"alive", "exited"}
    /\ writing = [s \in Pty!Sides |-> writing[s]] /\ pipe = [s \in Pty!Sides |-> pipe[s]]
    /\ got = [s \in Pty!Sides |-> got[s]] /\ received = [s \in Pty!Sides |-> received[s]]
    /\ sent = [s \in Pty!Sides |-> sent[s]] /\ torn \in [Pty!Sides -> BOOLEAN]
    /\ misread \in [Pty!Sides -> BOOLEAN] /\ cancelled \in [Pty!Sides -> BOOLEAN]

PtyInv ==
    /\ PtyTypes
    /\ \A s \in Pty!Sides : Stream(s) /\ (misread[s] => Left(s))

LEMMA TwoSides ==
    /\ \A s \in Pty!Sides : /\ s = "client" \/ s = "agent"
                            /\ Pty!Other(s) \in Pty!Sides /\ Pty!Other(s) # s
                            /\ Pty!Other(Pty!Other(s)) = s
    /\ \A s, q \in Pty!Sides : q = s \/ q = Pty!Other(s)
  BY DEF Pty!Sides, Pty!Other

\* Nothing happened to what a side reads.
LEMMA StreamKept ==
    ASSUME PtyInv, NEW s \in Pty!Sides,
           LET o == Pty!Other(s)
           IN /\ writing'[o] = writing[o] /\ pipe'[o] = pipe[o] /\ sent'[o] = sent[o]
              /\ got'[s] = got[s] /\ received'[s] = received[s]
              /\ torn'[s] = torn[s] /\ misread'[s] = misread[s]
    PROVE  Stream(s)'
  BY DEF PtyInv, Stream

\* A side begins to write an object.
LEMMA StreamBegins ==
    ASSUME PtyInv, NEW s \in Pty!Sides, NEW object \in Objects(s), writing[s] = <<>>,
           Pty!Write(s, object), pipe'[s] = pipe[s],
           LET o == Pty!Other(s)
           IN /\ got'[o] = got[o] /\ received'[o] = received[o]
              /\ torn'[o] = torn[o] /\ misread'[o] = misread[o]
    PROVE  Stream(Pty!Other(s))'
<1>1. PICK o \in Pty!Sides : o = Pty!Other(s)
  BY TwoSides
<1>2. Pty!Other(o) = s
  BY <1>1, TwoSides
<1>3. StreamInv(s, <<>>, pipe[s], got[o], received[o], sent[s], torn[o], misread[o])
  BY <1>2 DEF PtyInv, Stream
<1>4. writing'[s] = Pty!Pieces(object) /\ sent'[s] = Append(sent[s], object)
  BY DEF Pty!Write, PtyInv, PtyTypes
<1>5. StreamInv(s, writing'[s], pipe'[s], got'[o], received'[o], sent'[s], torn'[o], misread'[o])
  <2>1. StreamInv(s, Pty!Pieces(object), pipe[s], got[o], received[o], Append(sent[s], object),
                  torn[o], misread[o])
    BY <1>3, BeginsObject
  <2> QED BY <1>1, <1>4, <2>1
<1> QED BY <1>1, <1>2, <1>5 DEF Stream

\* A side leaves its loop: what the other one reads goes on with a Close, or not at all.
LEMMA LeaveStep ==
    ASSUME PtyInv, NEW s \in Pty!Sides, Pty!Selecting(s), Pty!Leave(s),
           LET o == Pty!Other(s)
           IN /\ pipe'[s] = pipe[s] /\ got'[o] = got[o] /\ received'[o] = received[o]
              /\ torn'[o] = torn[o] /\ misread'[o] = misread[o]
    PROVE  /\ Stream(Pty!Other(s))' /\ \A q \in Pty!Sides : Left(q) => Left(q)'
           /\ Left(s)' /\ writing'[Pty!Other(s)] = writing[Pty!Other(s)]
           /\ sent'[Pty!Other(s)] = sent[Pty!Other(s)]
           /\ window' \in {"run", "close", "ended"}
           /\ shellTask' \in {"size", "run", "last", "ended"}
           /\ writing' = [q \in Pty!Sides |-> writing'[q]] /\ sent' = [q \in Pty!Sides |-> sent'[q]]
<1>1. CASE s = "client"
  <2>1. PICK object : object = Pty!Object("close", 1)
    OBVIOUS
  <2>2. object \in Objects(s)
    BY <1>1, <2>1, TopIsNat DEF Pty!Object, Objects, Kinds
  <2>3. Pty!Write(s, object) /\ window' = "close" /\ shellTask' = shellTask
    BY <1>1, <2>1 DEF Pty!Leave
  <2>4. writing[s] = <<>>
    BY DEF Pty!Selecting
  <2>5. Stream(Pty!Other(s))'
    BY <2>2, <2>3, <2>4, StreamBegins
  <2>6. /\ writing' = [writing EXCEPT ![s] = Pty!Pieces(object)]
        /\ sent' = [sent EXCEPT ![s] = Append(@, object)]
    BY <2>3 DEF Pty!Write
  <2>7. /\ writing'[Pty!Other(s)] = writing[Pty!Other(s)] /\ sent'[Pty!Other(s)] = sent[Pty!Other(s)]
        /\ writing' = [q \in Pty!Sides |-> writing'[q]] /\ sent' = [q \in Pty!Sides |-> sent'[q]]
    BY <2>6, TwoSides DEF PtyInv, PtyTypes
  <2> QED BY <1>1, <2>3, <2>5, <2>7 DEF Left, PtyInv, PtyTypes
<1>2. CASE s = "agent"
  <2>1. shellTask' = "ended" /\ UNCHANGED <<window, writing, sent>>
    BY <1>2 DEF Pty!Leave
  <2>2. Stream(Pty!Other(s))'
    <3>1. PICK o \in Pty!Sides : o = Pty!Other(s)
      BY TwoSides
    <3>2. Pty!Other(o) = s
      BY <3>1, TwoSides
    <3> QED BY <2>1, <3>1, <3>2 DEF PtyInv, Stream
  <2> QED BY <1>2, <2>1, <2>2 DEF Left, PtyInv, PtyTypes
<1> QED BY <1>1, <1>2, TwoSides

LEMMA WritePieceStep ==
    ASSUME PtyInv, NEW s \in Pty!Sides, Pty!WritePiece(s) PROVE PtyInv'
<1>1. PICK o \in Pty!Sides : o = Pty!Other(s)
  BY TwoSides
<1>2. Pty!Other(o) = s /\ o # s
  BY <1>1, TwoSides
<1>3. /\ writing' = [writing EXCEPT ![s] = Tail(@)]
      /\ pipe' = [pipe EXCEPT ![s] = Append(@, Head(writing[s]))]
      /\ UNCHANGED <<got, torn, misread, sent, received, cancelled, shell>>
      /\ writing[s] # <<>> /\ Len(pipe[s]) < PipeCap /\ ~Pty!Over(s)
  BY DEF Pty!WritePiece
<1>4. /\ writing'[s] = Tail(writing[s]) /\ pipe'[s] = Append(pipe[s], Head(writing[s]))
      /\ writing'[o] = writing[o] /\ pipe'[o] = pipe[o]
      /\ writing' = [q \in Pty!Sides |-> writing'[q]] /\ pipe' = [q \in Pty!Sides |-> pipe'[q]]
  BY <1>2, <1>3 DEF PtyInv, PtyTypes
<1>5. Stream(o)'
  <2>1. StreamInv(s, writing[s], pipe[s], got[o], received[o], sent[s], torn[o], misread[o])
    BY <1>2 DEF PtyInv, Stream
  <2>2. StreamInv(s, Tail(writing[s]), Append(pipe[s], Head(writing[s])), got[o], received[o],
                  sent[s], torn[o], misread[o])
    BY <1>3, <2>1, WritesPiece
  <2> QED BY <1>2, <1>3, <1>4, <2>2 DEF Stream
<1>6. Stream(s)'
  BY <1>1, <1>3, <1>4, StreamKept
<1>7. /\ window' \in {window, "ended"} /\ shellTask' \in {shellTask, "ended"}
  BY DEF Pty!WritePiece
<1>8. PtyTypes'
  BY <1>3, <1>4, <1>7 DEF PtyInv, PtyTypes
<1>9. \A q \in Pty!Sides : Left(q) => Left(q)'
  BY <1>7 DEF Left
<1>10. \A q \in Pty!Sides : Stream(q)' /\ (misread[q] => Left(q))'
  BY <1>1, <1>3, <1>5, <1>6, <1>9, TwoSides DEF PtyInv
<1> QED BY <1>8, <1>10 DEF PtyInv

LEMMA QuietPtySteps ==
    ASSUME PtyInv, NEW s \in Pty!Sides, Pty!WriteFails(s) \/ Pty!Cancel(s) \/ Pty!ShellExits
    PROVE  PtyInv'
<1>1. UNCHANGED <<writing, pipe, got, torn, misread, sent, received>>
  BY DEF Pty!WriteFails, Pty!Cancel, Pty!ShellExits
<1>2. \A q \in Pty!Sides : Stream(q)'
  BY <1>1, StreamKept
<1>3. window' \in {window, "ended"} /\ shellTask' \in {shellTask, "ended"}
  BY DEF Pty!WriteFails, Pty!Cancel, Pty!ShellExits
<1>4. PtyTypes'
  BY <1>1, <1>3 DEF PtyInv, PtyTypes, Pty!WriteFails, Pty!Cancel, Pty!ShellExits
<1>5. \A q \in Pty!Sides : Left(q) => Left(q)'
  BY <1>3 DEF Left
<1> QED BY <1>1, <1>2, <1>4, <1>5 DEF PtyInv

LEMMA ReadLengthStep ==
    ASSUME PtyInv, NEW s \in Pty!Sides, Pty!ReadLength(s) PROVE PtyInv'
<1>1. PICK o \in Pty!Sides : o = Pty!Other(s)
  BY TwoSides
<1>2. Pty!Other(o) = s /\ o # s
  BY <1>1, TwoSides
<1>3. /\ got' = [got EXCEPT ![s] = <<Head(pipe[o]).bytes>>]
      /\ pipe' = [pipe EXCEPT ![o] = Tail(@)]
      /\ UNCHANGED <<window, shellTask, writing, torn, misread, sent, received, cancelled, shell>>
      /\ ~torn[s] /\ got[s] = <<>> /\ pipe[o] # <<>>
  BY <1>1 DEF Pty!ReadLength
<1>4. /\ got'[s] = <<Head(pipe[o]).bytes>> /\ pipe'[o] = Tail(pipe[o])
      /\ got'[o] = got[o] /\ pipe'[s] = pipe[s]
      /\ got' = [q \in Pty!Sides |-> got'[q]] /\ pipe' = [q \in Pty!Sides |-> pipe'[q]]
  BY <1>2, <1>3 DEF PtyInv, PtyTypes
<1>5. ~misread[s]
  <2>1. ~Left(s)
    BY DEF Pty!ReadLength, Pty!Selecting, Left
  <2> QED BY <2>1 DEF PtyInv
<1>6. Stream(s)'
  <2>1. StreamInv(o, writing[o], pipe[o], <<>>, received[s], sent[o], torn[s], misread[s])
    BY <1>1, <1>3 DEF PtyInv, Stream
  <2>2. StreamInv(o, writing[o], Tail(pipe[o]), <<Head(pipe[o]).bytes>>, received[s], sent[o],
                  torn[s], misread[s])
    BY <1>3, <1>5, <2>1, ReadsLength
  <2> QED BY <1>1, <1>3, <1>4, <2>2 DEF Stream
<1>7. Stream(o)'
  BY <1>2, <1>3, <1>4, StreamKept
<1>8. PtyTypes'
  BY <1>3, <1>4 DEF PtyInv, PtyTypes
<1>9. \A q \in Pty!Sides : Left(q) <=> Left(q)'
  BY <1>3 DEF Left
<1>10. \A q \in Pty!Sides : Stream(q)' /\ (misread[q] => Left(q))'
  BY <1>1, <1>3, <1>6, <1>7, <1>9, TwoSides DEF PtyInv
<1> QED BY <1>8, <1>10 DEF PtyInv

LEMMA ReadGarbageStep ==
    ASSUME PtyInv, NEW s \in Pty!Sides, Pty!ReadGarbage(s) PROVE PtyInv'
<1>1. PICK o \in Pty!Sides : o = Pty!Other(s)
  BY TwoSides
<1>2. Pty!Other(o) = s /\ o # s
  BY <1>1, TwoSides
<1>3. /\ pipe' = [pipe EXCEPT ![o] = Tail(@)] /\ torn[s] /\ pipe[o] # <<>>
      /\ UNCHANGED <<window, shellTask, writing, got, torn, misread, sent, received, cancelled,
                     shell>>
  BY <1>1 DEF Pty!ReadGarbage
<1>4. /\ pipe'[o] = Tail(pipe[o]) /\ pipe'[s] = pipe[s] /\ pipe' = [q \in Pty!Sides |-> pipe'[q]]
  BY <1>2, <1>3 DEF PtyInv, PtyTypes
<1>5. Stream(s)'
  <2>1. StreamInv(o, writing[o], pipe[o], got[s], received[s], sent[o], torn[s], misread[s])
    BY <1>1 DEF PtyInv, Stream
  <2>2. StreamInv(o, writing[o], Tail(pipe[o]), got[s], received[s], sent[o], torn[s], misread[s])
    BY <1>3, <2>1, ReadsGarbage
  <2> QED BY <1>1, <1>3, <1>4, <2>2 DEF Stream
<1>6. Stream(o)'
  BY <1>2, <1>3, <1>4, StreamKept
<1>7. PtyTypes'
  BY <1>3, <1>4 DEF PtyInv, PtyTypes
<1>8. \A q \in Pty!Sides : Left(q) <=> Left(q)'
  BY <1>3 DEF Left
<1>9. \A q \in Pty!Sides : Stream(q)' /\ (misread[q] => Left(q))'
  BY <1>1, <1>3, <1>5, <1>6, <1>8, TwoSides DEF PtyInv
<1> QED BY <1>7, <1>9 DEF PtyInv

LEMMA LeavingSteps ==
    ASSUME PtyInv, NEW s \in Pty!Sides, Pty!ReadFails(s) \/ Pty!SeeCancelled(s) PROVE PtyInv'
<1>1. PICK o \in Pty!Sides : o = Pty!Other(s)
  BY TwoSides
<1>2. /\ Pty!Selecting(s) /\ Pty!Leave(s)
      /\ UNCHANGED <<pipe, got, torn, misread, received, cancelled, shell>>
  BY DEF Pty!ReadFails, Pty!SeeCancelled
<1>3. /\ Stream(o)' /\ \A q \in Pty!Sides : Left(q) => Left(q)'
      /\ writing'[o] = writing[o] /\ sent'[o] = sent[o]
      /\ window' \in {"run", "close", "ended"} /\ shellTask' \in {"size", "run", "last", "ended"}
      /\ writing' = [q \in Pty!Sides |-> writing'[q]] /\ sent' = [q \in Pty!Sides |-> sent'[q]]
  BY <1>1, <1>2, LeaveStep
<1>4. Stream(s)'
  BY <1>1, <1>2, <1>3, StreamKept
<1>5. PtyTypes'
  BY <1>2, <1>3 DEF PtyInv, PtyTypes
<1>6. \A q \in Pty!Sides : Stream(q)' /\ (misread[q] => Left(q))'
  BY <1>1, <1>2, <1>3, <1>4, TwoSides DEF PtyInv
<1> QED BY <1>5, <1>6 DEF PtyInv

LEMMA ReadBodyStep ==
    ASSUME PtyInv, NEW s \in Pty!Sides, Pty!ReadBody(s) PROVE PtyInv'
<1>1. PICK o \in Pty!Sides : o = Pty!Other(s)
  BY TwoSides
<1>2. Pty!Other(o) = s /\ o # s
  BY <1>1, TwoSides
<1>3. PICK object : object = Head(pipe[o]).object
  OBVIOUS
<1>4. /\ pipe' = [pipe EXCEPT ![o] = Tail(@)] /\ got' = [got EXCEPT ![s] = <<>>]
      /\ UNCHANGED <<torn, cancelled, shell>> /\ Pty!Selecting(s) /\ got[s] # <<>> /\ pipe[o] # <<>>
  BY <1>1 DEF Pty!ReadBody
<1>5. \/ /\ Pty!ToUsize(got[s][1]) = object.size
         /\ received' = [received EXCEPT ![s] = Append(@, object)]
         /\ Pty!Handle(s, object.kind) /\ misread' = misread
      \/ /\ Pty!ToUsize(got[s][1]) # object.size
         /\ misread' = [misread EXCEPT ![s] = TRUE]
         /\ Pty!Leave(s) /\ received' = received
  BY <1>1, <1>3 DEF Pty!ReadBody
<1>6. /\ pipe'[o] = Tail(pipe[o]) /\ pipe'[s] = pipe[s] /\ got'[s] = <<>> /\ got'[o] = got[o]
      /\ pipe' = [q \in Pty!Sides |-> pipe'[q]] /\ got' = [q \in Pty!Sides |-> got'[q]]
  BY <1>2, <1>4 DEF PtyInv, PtyTypes
<1>7. StreamInv(o, writing[o], pipe[o], got[s], received[s], sent[o], torn[s], misread[s])
  BY <1>1 DEF PtyInv, Stream
<1>8. /\ object \in Objects(o)
      /\ Pty!ToUsize(got[s][1]) = object.size
           => StreamInv(o, writing[o], Tail(pipe[o]), <<>>, Append(received[s], object), sent[o],
                        torn[s], misread[s])
      /\ Pty!ToUsize(got[s][1]) # object.size
           => StreamInv(o, writing[o], Tail(pipe[o]), <<>>, received[s], sent[o], torn[s], TRUE)
  BY <1>3, <1>4, <1>7, ReadsBody
<1>9. ~misread[s]
  BY <1>4, <1>7 DEF StreamInv
<1>10. CASE Pty!ToUsize(got[s][1]) # object.size
  <2>1. misread' = [misread EXCEPT ![s] = TRUE] /\ Pty!Leave(s) /\ received' = received
    BY <1>5, <1>10
  <2>2. misread'[s] = TRUE /\ misread'[o] = misread[o] /\ misread' \in [Pty!Sides -> BOOLEAN]
    BY <1>2, <2>1 DEF PtyInv, PtyTypes
  <2>3. /\ Stream(o)' /\ \A q \in Pty!Sides : Left(q) => Left(q)'
        /\ Left(s)' /\ writing'[o] = writing[o] /\ sent'[o] = sent[o]
        /\ window' \in {"run", "close", "ended"} /\ shellTask' \in {"size", "run", "last", "ended"}
        /\ writing' = [q \in Pty!Sides |-> writing'[q]] /\ sent' = [q \in Pty!Sides |-> sent'[q]]
    BY <1>1, <1>4, <1>6, <2>1, <2>2, LeaveStep
  <2>4. Stream(s)'
    BY <1>1, <1>4, <1>6, <1>8, <1>10, <2>1, <2>2, <2>3 DEF Stream
  <2>5. PtyTypes'
    BY <1>4, <1>6, <2>1, <2>2, <2>3 DEF PtyInv, PtyTypes
  <2>6. \A q \in Pty!Sides : Stream(q)' /\ (misread[q] => Left(q))'
    BY <1>1, <2>2, <2>3, <2>4, TwoSides DEF PtyInv
  <2> QED BY <2>5, <2>6 DEF PtyInv
<1>11. CASE Pty!ToUsize(got[s][1]) = object.size
  <2>1. /\ received' = [received EXCEPT ![s] = Append(@, object)]
        /\ Pty!Handle(s, object.kind) /\ misread' = misread
    BY <1>5, <1>11
  <2>2. /\ received'[s] = Append(received[s], object) /\ received'[o] = received[o]
        /\ received' = [q \in Pty!Sides |-> received'[q]]
    BY <1>2, <2>1 DEF PtyInv, PtyTypes
  <2>3. /\ Stream(o)' /\ \A q \in Pty!Sides : misread[q] /\ Left(q) => Left(q)'
        /\ writing'[o] = writing[o] /\ sent'[o] = sent[o]
        /\ window' \in {"run", "close", "ended"} /\ shellTask' \in {"size", "run", "last", "ended"}
        /\ writing' = [q \in Pty!Sides |-> writing'[q]] /\ sent' = [q \in Pty!Sides |-> sent'[q]]
    <3>1. CASE Pty!Leave(s)
      BY <1>1, <1>4, <1>6, <2>1, <2>2, <3>1, LeaveStep
    <3>2. CASE /\ UNCHANGED <<window, writing, sent>> /\ shellTask' \in {"size", "run", "last", "ended"}
               /\ s = "client" => shellTask' = shellTask
      <4>1. Stream(o)'
        BY <1>2, <1>4, <1>6, <2>1, <2>2, <3>2, StreamKept
      <4>2. \A q \in Pty!Sides : misread[q] /\ Left(q) => Left(q)'
        <5>1. Left("client") => Left("client")'
          BY <3>2 DEF Left
        <5>2. misread["agent"] /\ Left("agent") => Left("agent")'
          <6>1. CASE s = "client"
            BY <3>2, <6>1 DEF Left
          <6>2. CASE s = "agent"
            BY <1>9, <6>2
          <6> QED BY <6>1, <6>2, TwoSides
        <5> QED BY <5>1, <5>2, TwoSides
      <4> QED BY <3>2, <4>1, <4>2 DEF PtyInv, PtyTypes
    <3>3. object.kind \in Kinds(o)
      BY <1>8 DEF Objects
    <3>4. s = "client" => object.kind \notin {"size", "input"}
      BY <1>1, <3>3 DEF Kinds, Pty!Other
    <3>5. CASE object.kind \in {"size", "input", "output"}
      <4>1. shellTask \in {"size", "run", "last", "ended"}
        BY DEF PtyInv, PtyTypes
      <4>2. CASE object.kind = "size"
        BY <2>1, <3>2, <3>4, <4>2 DEF Pty!Handle
      <4>3. CASE object.kind = "input"
        BY <2>1, <3>2, <3>4, <4>1, <4>3 DEF Pty!Handle
      <4>4. CASE object.kind = "output"
        BY <2>1, <3>2, <4>1, <4>4 DEF Pty!Handle
      <4> QED BY <3>5, <4>2, <4>3, <4>4
    <3> QED BY <2>1, <3>1, <3>5 DEF Pty!Handle
  <2>4. Stream(s)'
    BY <1>1, <1>4, <1>6, <1>8, <1>11, <2>1, <2>2, <2>3 DEF Stream
  <2>5. PtyTypes'
    BY <1>4, <1>6, <2>1, <2>2, <2>3 DEF PtyInv, PtyTypes
  <2>6. \A q \in Pty!Sides : Stream(q)' /\ (misread[q] => Left(q))'
    BY <1>1, <2>1, <2>3, <2>4, TwoSides DEF PtyInv
  <2> QED BY <2>5, <2>6 DEF PtyInv
<1> QED BY <1>10, <1>11

\* A branch of select! other than the read wins.
LEMMA WritingSteps ==
    ASSUME PtyInv, Pty!ClientInput \/ Pty!AgentOutput PROVE PtyInv'
<1>1. PICK s \in Pty!Sides : \/ s = "client" /\ Pty!ClientInput
                             \/ s = "agent" /\ Pty!AgentOutput
  BY DEF Pty!Sides
<1>2. PICK o \in Pty!Sides : o = Pty!Other(s)
  BY TwoSides
<1>3. Pty!Other(o) = s /\ o # s
  BY <1>2, TwoSides
<1>4. PICK object \in Objects(s) : Pty!Write(s, object)
  <2>1. \A k \in Kinds(s), z \in Sizes \cup {1} : Pty!Object(k, z) \in Objects(s)
    BY TopIsNat, TerminalAssumption DEF Pty!Object, Objects, Pty!LengthsFit
  <2>2. CASE s = "client"
    <3>1. PICK z \in Sizes : Pty!Write("client", Pty!Object("input", z))
      BY <1>1, <2>2 DEF Pty!ClientInput
    <3> QED BY <2>1, <2>2, <3>1 DEF Kinds
  <2>3. CASE s = "agent"
    <3>1. PICK k \in Kinds(s), z \in Sizes \cup {1} : Pty!Write("agent", Pty!Object(k, z))
      BY <1>1, <2>3 DEF Pty!AgentOutput, Kinds
    <3> QED BY <2>1, <2>3, <3>1
  <2> QED BY <2>2, <2>3, TwoSides
<1>5. /\ writing[s] = <<>> /\ UNCHANGED <<window, pipe, misread, received, cancelled, shell>>
      /\ torn' = [torn EXCEPT ![s] = @ \/ got[s] # <<>>] /\ got' = [got EXCEPT ![s] = <<>>]
      /\ shellTask' = shellTask \/ (shellTask # "ended" /\ shellTask' = "last")
  BY <1>1 DEF Pty!ClientInput, Pty!AgentOutput, Pty!Selecting, Pty!DropRead
<1>6. /\ torn'[s] = (torn[s] \/ got[s] # <<>>) /\ got'[s] = <<>>
      /\ torn'[o] = torn[o] /\ got'[o] = got[o]
      /\ torn' \in [Pty!Sides -> BOOLEAN] /\ got' = [q \in Pty!Sides |-> got'[q]]
  BY <1>3, <1>5 DEF PtyInv, PtyTypes
<1>7. /\ writing' = [writing EXCEPT ![s] = Pty!Pieces(object)]
      /\ sent' = [sent EXCEPT ![s] = Append(@, object)]
  BY <1>4 DEF Pty!Write
<1>8. /\ writing'[o] = writing[o] /\ sent'[o] = sent[o]
      /\ writing' = [q \in Pty!Sides |-> writing'[q]] /\ sent' = [q \in Pty!Sides |-> sent'[q]]
  BY <1>3, <1>7 DEF PtyInv, PtyTypes
<1>9. Stream(o)'
  BY <1>2, <1>4, <1>5, <1>6, StreamBegins
<1>10. Stream(s)'
  <2>1. StreamInv(o, writing[o], pipe[o], got[s], received[s], sent[o], torn[s], misread[s])
    BY <1>2 DEF PtyInv, Stream
  <2>2. StreamInv(o, writing[o], pipe[o], <<>>, received[s], sent[o], torn[s] \/ got[s] # <<>>,
                  misread[s])
    BY <2>1, DropsRead
  <2> QED BY <1>2, <1>5, <1>6, <1>8, <2>2 DEF Stream
<1>11. PtyTypes'
  BY <1>5, <1>6, <1>8 DEF PtyInv, PtyTypes
<1>12. \A q \in Pty!Sides : Left(q) => Left(q)'
  BY <1>5 DEF Left
<1>13. \A q \in Pty!Sides : Stream(q)' /\ (misread[q] => Left(q))'
  BY <1>2, <1>5, <1>9, <1>10, <1>12, TwoSides DEF PtyInv
<1> QED BY <1>11, <1>13 DEF PtyInv

LEMMA PtyStep == PtyInv /\ [Pty!Next]_(Pty!vars) => PtyInv'
<1> SUFFICES ASSUME PtyInv, [Pty!Next]_(Pty!vars) PROVE PtyInv'
  OBVIOUS
<1>1. CASE UNCHANGED Pty!vars
  <2>1. UNCHANGED <<window, shellTask, writing, pipe, got, torn, misread, sent, received, cancelled,
                    shell>>
    BY <1>1 DEF Pty!vars
  <2>2. \A q \in Pty!Sides : Stream(q)'
    BY <2>1, StreamKept
  <2> QED BY <2>1, <2>2 DEF PtyInv, PtyTypes, Left
<1>2. CASE Pty!ShellExits
  BY <1>2, QuietPtySteps DEF Pty!Sides
<1>3. CASE Pty!ClientInput \/ Pty!AgentOutput
  BY <1>3, WritingSteps
<1>4. ASSUME NEW s \in Pty!Sides, Pty!Cancel(s) \/ Pty!Step(s) \/ Pty!SeeCancelled(s) PROVE PtyInv'
  BY <1>4, QuietPtySteps, WritePieceStep, ReadLengthStep, ReadBodyStep, ReadGarbageStep,
     LeavingSteps DEF Pty!Step
<1> QED BY <1>1, <1>2, <1>3, <1>4 DEF Pty!Next

LEMMA PtyStart == Pty!Init \/ PtyOff => PtyInv
<1>1. \A o : InStep(<<>>, <<>>, <<>>, <<>>, <<>>) /\ StreamTypes(o, <<>>, <<>>, <<>>, <<>>, <<>>)
  <2>1. PipeCap \in Nat /\ Len(<<>>) = 0
    BY TerminalAssumption DEF Pty!LengthsFit
  <2> QED BY <2>1 DEF InStep, StreamTypes
<1>2. \A o : StreamInv(o, <<>>, <<>>, <<>>, <<>>, <<>>, FALSE, FALSE)
  BY <1>1 DEF StreamInv
<1>3. CASE PtyOff
  <2>1. \A s \in Pty!Sides : Stream(s)
    BY <1>2, <1>3, TwoSides DEF PtyOff, Stream
  <2> QED BY <1>3, <2>1 DEF PtyOff, PtyInv, PtyTypes
<1>4. CASE Pty!Init
  <2>1. PICK object : object = Pty!Object("size", 1)
    OBVIOUS
  <2>2. object \in Objects("client")
    BY <2>1, TopIsNat DEF Pty!Object, Objects, Kinds
  <2>3. Append(<<>>, object) = <<object>>
    OBVIOUS
  <2>4. StreamInv("client", Pty!Pieces(object), <<>>, <<>>, <<>>, <<object>>, FALSE, FALSE)
    BY <1>2, <2>2, <2>3, BeginsObject
  <2>5. Stream("agent")
    BY <1>4, <2>1, <2>4 DEF Pty!Init, Pty!Sides, Pty!Other, Stream
  <2>6. Stream("client")
    BY <1>2, <1>4 DEF Pty!Init, Pty!Sides, Pty!Other, Stream
  <2>7. \A s \in Pty!Sides : Stream(s)
    BY <2>5, <2>6, TwoSides
  <2> QED BY <1>4, <2>7 DEF Pty!Init, PtyInv, PtyTypes
<1> QED BY <1>3, <1>4

\* A terminal reads what the other side wrote, in order, whatever branches of select! win and
\* whatever is cancelled, as long as no read was torn; and of all lengths of objects only Top
\* does not survive its encoding.
THEOREM AlwaysReadsWhatWasWritten == ProcessesSpec => []ReadsWhatWasWritten
<1>1. ProcessesInit => PtyInv
  BY PtyStart DEF ProcessesInit
<1>2. PtyInv /\ [ProcessesNext]_processesVars => PtyInv'
  <2>1. [ProcessesNext]_processesVars => [Pty!Next]_(Pty!vars)
    BY DEF ProcessesNext, processesVars, ptyVars, Pty!vars
  <2> QED BY <2>1, PtyStep
<1>3. PtyInv => ReadsWhatWasWritten
  <2> SUFFICES ASSUME PtyInv PROVE Pty!ReadsWhatWasWritten
    BY DEF ReadsWhatWasWritten
  <2>1. ASSUME NEW s \in Pty!Sides,
               ~(\E i \in DOMAIN sent[Pty!Other(s)] : sent[Pty!Other(s)][i].size = Pty!Top)
        PROVE  ~misread[s] /\ Pty!IsPrefix(received[s], sent[Pty!Other(s)])
    <3>1. PICK r, x : r = received[s] /\ x = sent[Pty!Other(s)]
      OBVIOUS
    <3>2. PICK o : o = Pty!Other(s)
      OBVIOUS
    <3>3. /\ r \in Seq(Objects(o)) /\ x \in Seq(Objects(o))
          /\ Len(r) <= Len(x) /\ \A i \in 1 .. Len(r) : r[i] = x[i]
          /\ misread[s] => \E i \in DOMAIN x : x[i].size = Pty!Top
      BY <3>1, <3>2 DEF PtyInv, Stream, StreamInv, StreamTypes
    <3>4. SubSeq(r, 1, Len(r)) = SubSeq(x, 1, Len(r))
      BY <3>3
    <3> QED BY <2>1, <3>1, <3>3, <3>4 DEF Pty!IsPrefix
  <2> QED BY <2>1 DEF Pty!ReadsWhatWasWritten
<1> QED BY <1>1, <1>2, <1>3, PTL DEF ProcessesSpec

-----------------------------------------------------------------------------
(* Types of all five parts.                                                *)

\* A port is bound once, and who waits for a tunnel's end waits for one in the list.
PortsInv ==
    /\ manager \in BOOLEAN /\ waiter \subseteq listed
    /\ \A t, u \in TunnelIds : t # u /\ LocalPort[t] = LocalPort[u]
                               => ~(listener[t] = "run" /\ listener[u] = "run")

LEMMA PortsNext ==
    ASSUME TunnelInv, PortsInv, [Tunnel!Next]_(Tunnel!vars)
    PROVE  PortsInv'
<1>1. listener \in [TunnelIds -> {"off", "run", "ended"}]
  BY DEF TunnelInv, TunnelTypes
<1>2. ASSUME NEW t \in TunnelIds, Tunnel!Open(t) PROVE PortsInv'
  <2>1. \A u \in TunnelIds : LocalPort[u] = LocalPort[t] => listener[u] # "run"
    BY <1>2 DEF Tunnel!Open
  <2>2. \A u \in TunnelIds : listener'[u] = "run" => u = t \/ listener[u] = "run"
    BY <1>1, <1>2 DEF Tunnel!Open
  <2>3. manager' \in BOOLEAN /\ waiter' \subseteq listed'
    BY <1>2 DEF Tunnel!Open, PortsInv
  <2> QED BY <2>1, <2>2, <2>3 DEF PortsInv
<1>3. ASSUME \/ UNCHANGED Tunnel!vars \/ Tunnel!DropManager
             \/ \E t \in TunnelIds :
                   \/ Tunnel!CloseTunnel(t) \/ Tunnel!AcceptFails(t) \/ Tunnel!ActiveChanged(t)
                   \/ Tunnel!RemoveTunnel(t) \/ \E x \in Streams : Tunnel!Accept(t, x)
             \/ \E x \in Streams : \/ Tunnel!AnswerOk(x) \/ Tunnel!StreamEnds(x)
                                   \/ Tunnel!StreamChanged(x)
      PROVE  PortsInv'
  <2>1. \A u \in TunnelIds : listener'[u] = "run" => listener[u] = "run"
    BY <1>1, <1>3 DEF Tunnel!vars, Tunnel!DropManager, Tunnel!CloseTunnel, Tunnel!AcceptFails,
       Tunnel!ActiveChanged, Tunnel!RemoveTunnel, Tunnel!Accept, Tunnel!AnswerOk,
       Tunnel!StreamEnds, Tunnel!StreamChanged
  <2>2. manager' \in BOOLEAN /\ waiter' \subseteq listed'
    BY <1>3 DEF PortsInv, Tunnel!vars, Tunnel!DropManager, Tunnel!CloseTunnel,
       Tunnel!AcceptFails, Tunnel!ActiveChanged, Tunnel!RemoveTunnel, Tunnel!Accept,
       Tunnel!AnswerOk, Tunnel!StreamEnds, Tunnel!StreamChanged
  <2> QED BY <2>1, <2>2 DEF PortsInv
<1> QED BY <1>2, <1>3 DEF Tunnel!Next

\* A stream of none is not of a tunnel.
StreamsInv ==
    \A x \in Streams : \/ stream[x] = Tunnel!NoStream
                       \/ stream[x].tunnel \in TunnelIds /\ stream[x].at # "none"

LEMMA StreamsNext ==
    ASSUME TunnelInv, StreamsInv, "none" \notin TunnelIds, [Tunnel!Next]_(Tunnel!vars)
    PROVE  StreamsInv'
<1>1. TunnelTypes
  BY DEF TunnelInv
<1>2. ASSUME NEW T \in SUBSET TunnelIds, Tunnel!Send(T, FALSE) PROVE StreamsInv'
  <2>1. PICK R \in SUBSET T : R = {t \in T : listener[t] = "run" \/ Tunnel!StreamsOf(t) # {}}
    OBVIOUS
  <2>2. stream' = [x \in Streams |->
                     [stream[x] EXCEPT !.unseen = stream[x].unseen \/ stream[x].tunnel \in R]]
    BY <1>2, <2>1 DEF Tunnel!Send
  <2>3. ASSUME NEW x \in Streams
        PROVE  \/ stream'[x] = Tunnel!NoStream
               \/ stream'[x].tunnel \in TunnelIds /\ stream'[x].at # "none"
    <3>1. CASE stream[x] = Tunnel!NoStream
      <4>1. /\ stream[x].tunnel \notin R
            /\ stream'[x] = [Tunnel!NoStream EXCEPT !.unseen = FALSE \/ stream[x].tunnel \in R]
        BY <2>1, <2>2, <3>1 DEF Tunnel!NoStream
      <4>2. stream'[x] = [Tunnel!NoStream EXCEPT !.unseen = FALSE]
        BY <4>1
      <4> QED BY <4>2 DEF Tunnel!NoStream
    <3>2. CASE stream[x].tunnel \in TunnelIds /\ stream[x].at # "none"
      <4>1. stream'[x].tunnel = stream[x].tunnel /\ stream'[x].at = stream[x].at
        BY <1>1, <2>2 DEF TunnelTypes
      <4> QED BY <3>2, <4>1
    <3> QED BY <3>1, <3>2 DEF StreamsInv
  <2> QED BY <2>3 DEF StreamsInv
<1>3. ASSUME NEW t \in TunnelIds, Tunnel!CloseTunnel(t) \/ Tunnel!RemoveTunnel(t)
      PROVE  StreamsInv'
  BY <1>2, <1>3 DEF Tunnel!CloseTunnel, Tunnel!RemoveTunnel
<1>4. CASE Tunnel!DropManager
  BY <1>1, <1>2, <1>4 DEF Tunnel!DropManager, TunnelTypes
<1>5. ASSUME NEW t \in TunnelIds, NEW x \in Streams, Tunnel!Accept(t, x) PROVE StreamsInv'
  <2>1. PICK r : r = [tunnel |-> t, at |-> "opening", unseen |-> unseen[t]]
    OBVIOUS
  <2>2. r.tunnel = t /\ r.at = "opening"
    BY <2>1
  <2>3. stream' = [stream EXCEPT ![x] = r] \/ stream' = stream
    BY <1>5, <2>1 DEF Tunnel!Accept
  <2>4. \A y \in Streams : stream'[y] = stream[y] \/ stream'[y] = r
    BY <1>1, <2>3 DEF TunnelTypes
  <2> QED BY <2>2, <2>4 DEF StreamsInv
<1>6. ASSUME NEW x \in Streams,
             Tunnel!AnswerOk(x) \/ Tunnel!StreamEnds(x) \/ Tunnel!StreamChanged(x)
      PROVE  StreamsInv'
  <2>1. PICK a \in {"copy", "ended", "panicked"} : stream' = [stream EXCEPT ![x].at = a]
    BY <1>6 DEF Tunnel!AnswerOk, Tunnel!StreamEnds, Tunnel!StreamChanged
  <2>2. /\ stream'[x].tunnel = stream[x].tunnel /\ stream'[x].at = a
        /\ \A y \in Streams \ {x} : stream'[y] = stream[y]
    BY <1>1, <2>1 DEF TunnelTypes
  <2>3. stream[x].at # "none"
    BY <1>6 DEF Tunnel!AnswerOk, Tunnel!StreamEnds, Tunnel!StreamChanged
  <2>4. stream[x].tunnel \in TunnelIds
    BY <2>3 DEF StreamsInv, Tunnel!NoStream
  <2> QED BY <2>2, <2>4 DEF StreamsInv
<1>7. ASSUME \/ UNCHANGED Tunnel!vars
             \/ \E t \in TunnelIds : \/ Tunnel!Open(t) \/ Tunnel!AcceptFails(t)
                                     \/ Tunnel!ActiveChanged(t)
      PROVE  StreamsInv'
  <2>1. UNCHANGED stream
    BY <1>7 DEF Tunnel!vars, Tunnel!Open, Tunnel!AcceptFails, Tunnel!ActiveChanged
  <2> QED BY <2>1 DEF StreamsInv
<1> QED BY <1>3, <1>4, <1>5, <1>6, <1>7 DEF Tunnel!Next

LEMMA TunnelTypesOK == TunnelInv /\ PortsInv /\ StreamsInv => Tunnel!TypeOK
BY DEF TunnelInv, TunnelTypes, PortsInv, StreamsInv, Tunnel!TypeOK

LEMMA PtyTypesOK == PtyInv => Pty!TypeOK
<1> SUFFICES ASSUME PtyInv PROVE Pty!TypeOK
  OBVIOUS
<1>1. ASSUME NEW s \in Pty!Sides
      PROVE  /\ Len(writing[s]) <= 2 /\ Len(pipe[s]) <= PipeCap
             /\ Len(got[s]) <= 1 /\ Len(received[s]) <= Len(sent[Pty!Other(s)])
  <2>1. PICK o \in Pty!Sides : o = Pty!Other(s) /\ Pty!Other(o) = s
    BY TwoSides
  <2>2. Stream(s) /\ Stream(o)
    BY DEF PtyInv
  <2> QED BY <2>1, <2>2 DEF Stream, StreamInv, StreamTypes
<1> QED BY <1>1 DEF PtyInv, PtyTypes, Pty!TypeOK

\* The steps of the two sides.  What a login brings with it appears only once there was one.
ClientSteps(n) ==
    {s \in Rpc!ScriptSteps :
        /\ s.op \in {"write", "read", "await", "check", "header", "list_profiles",
                     "save_profile", "save_trust", "drain", "copy"}
        /\ s.op = "write" => s.type \notin {"Header", "Response", "SessionResult"}
        /\ s.op = "drain" => s.type = "RealtimeStatus"
        /\ s.op = "header" => s.type \in Rpc!Commands
        /\ s.type = "login" => n > 0}
ServerSteps(n) ==
    {s \in Rpc!ScriptSteps :
        /\ s.op \in {"write", "read", "answer", "check", "handle", "request", "command",
                     "store", "stream", "copy"}
        /\ s.op \in {"write", "answer"} => s.type \notin {"Header", "Response"}
        /\ s.op = "write" => s.type # "SessionResult"
        /\ s.op = "stream" => s.type = "RealtimeStatus"
        /\ s.op \in {"handle", "request"} => s.type \in {"server", "agent", "public", "endToEnd"}
        /\ s.op = "command" => s.type \in Rpc!Commands
        /\ s.op = "store" \/ s.type = "login" => n > 0}
StepsOf(x) == IF x = "handler" THEN ServerSteps(logins) ELSE ClientSteps(logins)

LEMMA ServerScripts ==
    ASSUME NEW n \in Nat, NEW command \in Rpc!Commands, command = "login" => n > 0
    PROVE  /\ Rpc!HandlerOf(command) \in Seq(ServerSteps(n))
           /\ Rpc!Handle("agent") \in Seq(ServerSteps(n))
           /\ Rpc!Handle("server") \in Seq(ServerSteps(n))
<1> DEFINE S(s) == s \in Seq(ServerSteps(n))
           T == Rpc!Names \ {"login", "Header", "Response", "SessionResult"}
<1>1. \A s, t : S(s) /\ S(t) => S(s \o t)
  OBVIOUS
<1>2. S(<<>>)
  OBVIOUS
<1>3. ASSUME NEW s \in ServerSteps(n) PROVE S(<<s>>)
  OBVIOUS
<1>4. /\ \A t \in T : S(Rpc!Write(t)) /\ S(Rpc!Read(t)) /\ S(Rpc!Answer(t))
      /\ S(Rpc!Answer("SessionResult")) /\ S(Rpc!Check) /\ S(Rpc!Step("copy", "none"))
      /\ S(Rpc!Step("stream", "RealtimeStatus"))
      /\ \A t \in {"server", "agent", "public", "endToEnd"} : S(Rpc!Handle(t))
      /\ n > 0 => S(Rpc!StoreSession)
  <2>2. ASSUME NEW op, NEW type, [op |-> op, type |-> type] \in ServerSteps(n)
        PROVE  S(Rpc!Step(op, type))
    BY <1>3, <2>2 DEF Rpc!Step
  <2> HIDE DEF S
  <2>3. \A t \in T : S(Rpc!Write(t)) /\ S(Rpc!Read(t)) /\ S(Rpc!Answer(t))
    BY <2>2 DEF ServerSteps, Rpc!ScriptSteps, Rpc!Write, Rpc!Read, Rpc!Answer
  <2>4. S(Rpc!Answer("SessionResult")) /\ S(Rpc!Check) /\ S(Rpc!Step("copy", "none"))
        /\ S(Rpc!Step("stream", "RealtimeStatus")) /\ (n > 0 => S(Rpc!StoreSession))
    BY <2>2, KnownNames DEF ServerSteps, Rpc!ScriptSteps, Rpc!Answer, Rpc!Check, Rpc!StoreSession
  <2>5. \A t \in {"server", "agent", "public", "endToEnd"} : S(Rpc!Handle(t))
    BY <2>2, KnownNames DEF ServerSteps, Rpc!ScriptSteps, Rpc!Handle
  <2> QED BY <2>3, <2>4, <2>5
<1>5. /\ "Ok" \in T /\ "none" \in T /\ "Request" \in T /\ "ClientHello" \in T
      /\ "ServerFinished" \in T /\ "ClientFinished" \in T /\ "TempCertificate" \in T
      /\ "Nonce" \in T /\ "ClientInfo" \in T /\ "PublicKey" \in T /\ "Authenticator" \in T
      /\ "AuthResult" \in T /\ "StrongUsername" \in T /\ "StrongClientInfo" \in T
      /\ "Totp" \in T /\ "TotpSuccess" \in T /\ "LoginApproval" \in T /\ "Certificate" \in T
      /\ "Ping" \in T /\ "PublicStatus" \in T /\ "KeyPackages" \in T /\ "UserCredential" \in T
      /\ "ChainResult" \in T /\ "Unit" \in T /\ "UpdateResult" \in T /\ "TcpResult" \in T
      /\ "ForwardResult" \in T
  BY KnownNames
<1> HIDE DEF S, T
<1>6. S(Rpc!TlsServer)
  BY <1>1, <1>4, <1>5 DEF Rpc!TlsServer
<1>7. S(Rpc!ServerPreshared)
  BY <1>1, <1>4, <1>5, <1>6 DEF Rpc!ServerPreshared, Rpc!ExchangeTempCredentials
<1>8. S(Rpc!AucPaceServer)
  BY <1>1, <1>4, <1>5, <1>7 DEF Rpc!AucPaceServer
<1>9. /\ S(Rpc!LoginTlsHandler) /\ S(Rpc!LoginAugmentHandler) /\ S(Rpc!LoginCpaceHandler)
      /\ S(Rpc!LoginTotpHandler)
  BY <1>1, <1>4, <1>5, <1>6, <1>7 DEF Rpc!LoginTlsHandler, Rpc!LoginAugmentHandler,
     Rpc!LoginCpaceHandler, Rpc!LoginTotpHandler
<1>10. n > 0 => S(Rpc!LoginHandler)
  BY <1>1, <1>4, <1>5, <1>9 DEF Rpc!LoginHandler, Rpc!LoginApproveHandler
<1>11. /\ S(Rpc!PingHandler) /\ S(Rpc!PublicStatusHandler) /\ S(Rpc!GetUserCredentialHandler)
       /\ S(Rpc!LoadCertificateChainHandler) /\ S(Rpc!GetKeyPackagesHandler)
       /\ S(Rpc!RealtimeStatusHandler) /\ S(Rpc!TcpForwardHandler) /\ S(Rpc!UpdateAgentHandler)
       /\ S(Rpc!RequestSystemReportHandler) /\ S(Rpc!ForwardHandler) /\ S(Rpc!E2EHandler)
       /\ S(Rpc!DeauthenticateHandler)
  BY <1>1, <1>4, <1>5, <1>6
     DEF Rpc!PublicStatusHandler, Rpc!GetUserCredentialHandler, Rpc!LoadCertificateChainHandler,
         Rpc!GetKeyPackagesHandler, Rpc!RealtimeStatusHandler, Rpc!TcpForwardHandler,
         Rpc!UpdateAgentHandler, Rpc!RequestSystemReportHandler, Rpc!DeauthenticateHandler,
         Rpc!PingHandler, Rpc!ForwardHandler, Rpc!E2EHandler
<1>12. S(Rpc!HandlerOf(command))
  BY <1>2, <1>8, <1>10, <1>11 DEF Rpc!HandlerOf
<1> QED BY <1>4, <1>12 DEF S

LEMMA ClientScripts ==
    ASSUME NEW n \in Nat, NEW command \in Rpc!Commands, command = "login" => n > 0
    PROVE  /\ Rpc!DispatcherOf(command) \in Seq(ClientSteps(n))
           /\ Rpc!Frame(command) \in Seq(ClientSteps(n))
           /\ Rpc!ForwardConnection \in Seq(ClientSteps(n))
<1> DEFINE S(s) == s \in Seq(ClientSteps(n))
           T == Rpc!Names \ {"login", "Header", "Response", "SessionResult"}
<1>1. \A s, t : S(s) /\ S(t) => S(s \o t)
  OBVIOUS
<1>2. S(<<>>)
  OBVIOUS
<1>3. ASSUME NEW s \in ClientSteps(n) PROVE S(<<s>>)
  OBVIOUS
<1>4. command \in Rpc!Names /\ \A c \in {"forward", "e2e"} : c \in Rpc!Commands \cap Rpc!Names
  BY DEF Rpc!Names, Rpc!Commands, Rpc!ServerCommands, Rpc!PublicCommands
<1>5. /\ \A t \in T : S(Rpc!Write(t)) /\ S(Rpc!Read(t)) /\ S(Rpc!Await(t))
      /\ S(Rpc!Await("SessionResult")) /\ S(Rpc!Await("Response")) /\ S(Rpc!Check)
      /\ S(Rpc!Step("copy", "none")) /\ S(Rpc!Step("drain", "RealtimeStatus"))
      /\ S(Rpc!Step("list_profiles", "none")) /\ S(Rpc!Step("save_profile", "none"))
      /\ S(Rpc!Step("save_trust", "none"))
      /\ \A c \in {command, "forward", "e2e"} : S(Rpc!Step("header", c))
  <2>1. ASSUME NEW op, NEW type, [op |-> op, type |-> type] \in ClientSteps(n)
        PROVE  S(Rpc!Step(op, type))
    BY <1>3, <2>1 DEF Rpc!Step
  <2> HIDE DEF S
  <2>2. \A t \in T : S(Rpc!Write(t)) /\ S(Rpc!Read(t)) /\ S(Rpc!Await(t))
    BY <2>1 DEF ClientSteps, Rpc!ScriptSteps, Rpc!Write, Rpc!Read, Rpc!Await
  <2>3. /\ S(Rpc!Await("SessionResult")) /\ S(Rpc!Await("Response")) /\ S(Rpc!Check)
        /\ S(Rpc!Step("copy", "none")) /\ S(Rpc!Step("drain", "RealtimeStatus"))
        /\ S(Rpc!Step("list_profiles", "none")) /\ S(Rpc!Step("save_profile", "none"))
        /\ S(Rpc!Step("save_trust", "none"))
    BY <2>1, KnownNames DEF ClientSteps, Rpc!ScriptSteps, Rpc!Await, Rpc!Check
  <2>4. \A c \in {command, "forward", "e2e"} : S(Rpc!Step("header", c))
    BY <1>4, <2>1 DEF ClientSteps, Rpc!ScriptSteps
  <2> QED BY <2>2, <2>3, <2>4
<1>6. /\ "Ok" \in T /\ "none" \in T /\ "Request" \in T /\ "ClientHello" \in T
      /\ "ServerFinished" \in T /\ "ClientFinished" \in T /\ "TempCertificate" \in T
      /\ "Nonce" \in T /\ "ClientInfo" \in T /\ "PublicKey" \in T /\ "Authenticator" \in T
      /\ "AuthResult" \in T /\ "StrongUsername" \in T /\ "StrongClientInfo" \in T
      /\ "Totp" \in T /\ "TotpSuccess" \in T /\ "LoginApproval" \in T /\ "Certificate" \in T
      /\ "Ping" \in T /\ "PublicStatus" \in T /\ "KeyPackages" \in T /\ "UserCredential" \in T
      /\ "ChainResult" \in T /\ "Unit" \in T /\ "UpdateResult" \in T /\ "TcpResult" \in T
      /\ "ForwardResult" \in T
  BY KnownNames
<1> HIDE DEF S, T
<1>7. S(Rpc!Frame(command)) /\ S(Rpc!Frame("forward")) /\ S(Rpc!Frame("e2e"))
  BY <1>1, <1>5, <1>6 DEF Rpc!Frame
<1>8. S(Rpc!TlsClient)
  BY <1>1, <1>5, <1>6 DEF Rpc!TlsClient
<1>9. S(Rpc!ClientPreshared)
  BY <1>1, <1>5, <1>6, <1>8 DEF Rpc!ClientPreshared, Rpc!ExchangeTempCredentials
<1>10. S(Rpc!AucPaceClient)
  BY <1>1, <1>5, <1>6, <1>9 DEF Rpc!AucPaceClient
<1>11. S(Rpc!LoginTls) /\ S(Rpc!LoginAugment) /\ S(Rpc!LoginCpace) /\ S(Rpc!LoginTotp)
       /\ S(Rpc!LoginApprove) /\ S(Rpc!AddProfile)
  BY <1>1, <1>5, <1>6, <1>8, <1>9 DEF Rpc!LoginTls, Rpc!LoginAugment, Rpc!LoginCpace,
     Rpc!LoginTotp, Rpc!LoginApprove, Rpc!AddProfile
<1>12. S(Rpc!Login)
  BY <1>1, <1>11 DEF Rpc!Login
<1>13. /\ S(Rpc!Ping) /\ S(Rpc!GetPublicStatus) /\ S(Rpc!GetUserCredential) /\ S(Rpc!ChainRequest)
       /\ S(Rpc!GetKeyPackages) /\ S(Rpc!SubscribeRealtimeStatus) /\ S(Rpc!TcpForward)
       /\ S(Rpc!UpdateAgent) /\ S(Rpc!RequestSystemReport)
  BY <1>1, <1>5, <1>6 DEF Rpc!Ping, Rpc!GetPublicStatus, Rpc!GetUserCredential,
     Rpc!ChainRequest, Rpc!GetKeyPackages, Rpc!SubscribeRealtimeStatus, Rpc!TcpForward,
     Rpc!UpdateAgent, Rpc!RequestSystemReport
<1>14. S(Rpc!DispatcherOf(command))
  BY <1>2, <1>10, <1>12, <1>13 DEF Rpc!DispatcherOf
<1>15. S(Rpc!ForwardConnection)
  BY <1>1, <1>5, <1>6, <1>7, <1>8 DEF Rpc!ForwardConnection
<1> QED BY <1>7, <1>14, <1>15 DEF S

\* Objects: a login is named only once there was one.
Mentions == {o \in RpcObjects : o.value = "login" => logins > 0}

SessionTypes ==
    /\ rpc.command \in Rpc!Commands /\ rpc.peer \in Rpc!Peers /\ rpc.forwarded \in BOOLEAN
    /\ rpc.command = "login" => logins > 0
    /\ side \in [Rpc!Sides -> {"idle", "run", "done", "failed"}]
    /\ broken \in BOOLEAN /\ logins \in 0 .. MaxLogins
    /\ (\A x \in Rpc!Sides : side[x] = "idle") => logins = 0
    /\ todo \in [Rpc!Sides -> Seq(Rpc!ScriptSteps)]
    /\ toRead \in [Rpc!Sides -> Seq(Mentions)]
    /\ \A x \in Rpc!Sides :
          /\ todo[x] \in Seq(StepsOf(x))
          /\ side[x] # "run" => todo[x] = <<>> /\ toRead[x] = <<>>

\* What is on disk, and the count of faults.
DiskTypes ==
    /\ sessionFaults \in 0 .. MaxBreaks
    /\ stored \subseteq 1 .. logins
    /\ profile \in [credential : 0 .. logins, trust : 0 .. logins]
    /\ profileDir \subseteq [name : {"profile"}, separator : {":", "+"}]

\* Side x takes a step or ends.
Moves(x) ==
    /\ Rpc!Running(x)
    /\ toRead' \in [Rpc!Sides -> Seq(Mentions)]
    /\ \A y \in Rpc!Sides \ {x} : ~Rpc!Running(y) => toRead'[y] = toRead[y]
    /\ \/ \E script \in Seq(StepsOf(x)) : todo' = [todo EXCEPT ![x] = script] /\ side' = side
       \/ \E how \in {"done", "failed"} : Rpc!End(x, how) /\ toRead'[x] = <<>>

LEMMA OtherSide ==
    ASSUME NEW x \in Rpc!Sides
    PROVE  /\ Rpc!Other(x) \in Rpc!Sides /\ Rpc!Other(x) # x /\ Rpc!Other(Rpc!Other(x)) = x
           /\ \A y \in Rpc!Sides : y = x \/ y = Rpc!Other(x)
BY DEF Rpc!Sides, Rpc!Other

LEMMA StepsAreSteps ==
    /\ \A x \in Rpc!Sides : StepsOf(x) \subseteq Rpc!ScriptSteps
    /\ \A x \in Rpc!Sides : <<>> \in Seq(StepsOf(x))
<1>1. \A x \in Rpc!Sides : StepsOf(x) \subseteq Rpc!ScriptSteps
  BY DEF StepsOf, ClientSteps, ServerSteps
<1> QED BY <1>1

\* What may become of what is on its way.
LEMMA QueueMoves ==
    ASSUME SessionTypes, NEW x \in Rpc!Sides,
           \/ toRead' = toRead
           \/ toRead[x] # <<>> /\ toRead' = [toRead EXCEPT ![x] = Tail(@)]
           \/ toRead' = Rpc!Dropped(x)
           \/ \E o \in Mentions : Rpc!Deliver(x, o)
           \/ \E o \in Mentions : \E d \in [Rpc!Sides -> Seq(Mentions)] :
                 /\ \A y \in Rpc!Sides \ {x} : d[y] = toRead[y]
                 /\ toRead' = [d EXCEPT ![Rpc!Other(x)] =
                                IF Rpc!Running(Rpc!Other(x)) THEN Append(@, o) ELSE @]
    PROVE  /\ toRead' \in [Rpc!Sides -> Seq(Mentions)]
           /\ \A y \in Rpc!Sides \ {x} : ~Rpc!Running(y) => toRead'[y] = toRead[y]
<1>1. toRead \in [Rpc!Sides -> Seq(Mentions)]
  BY DEF SessionTypes
<1>2. PICK z : z = Rpc!Other(x) /\ z \in Rpc!Sides /\ z # x
                /\ \A y \in Rpc!Sides : y = x \/ y = z
  BY OtherSide
<1>3. CASE toRead' = toRead
  BY <1>1, <1>3
<1>4. CASE toRead[x] # <<>> /\ toRead' = [toRead EXCEPT ![x] = Tail(@)]
  <2>1. Tail(toRead[x]) \in Seq(Mentions)
    BY <1>1, <1>4
  <2> QED BY <1>1, <1>4, <2>1
<1>5. CASE toRead' = Rpc!Dropped(x)
  BY <1>1, <1>5 DEF Rpc!Dropped
<1>6. ASSUME NEW o \in Mentions, Rpc!Deliver(x, o)
      PROVE  /\ toRead' \in [Rpc!Sides -> Seq(Mentions)]
             /\ \A y \in Rpc!Sides \ {x} : ~Rpc!Running(y) => toRead'[y] = toRead[y]
  <2>1. toRead' = IF Rpc!Running(z) THEN [toRead EXCEPT ![z] = Append(@, o)] ELSE toRead
    BY <1>2, <1>6 DEF Rpc!Deliver
  <2>2. Append(toRead[z], o) \in Seq(Mentions)
    BY <1>1, <1>2
  <2> QED BY <1>1, <1>2, <2>1, <2>2
<1>7. ASSUME NEW o \in Mentions, NEW d \in [Rpc!Sides -> Seq(Mentions)],
             \A y \in Rpc!Sides \ {x} : d[y] = toRead[y],
             toRead' = [d EXCEPT ![Rpc!Other(x)] =
                          IF Rpc!Running(Rpc!Other(x)) THEN Append(@, o) ELSE @]
      PROVE  /\ toRead' \in [Rpc!Sides -> Seq(Mentions)]
             /\ \A y \in Rpc!Sides \ {x} : ~Rpc!Running(y) => toRead'[y] = toRead[y]
  <2>1. toRead' = [d EXCEPT ![z] = IF Rpc!Running(z) THEN Append(@, o) ELSE @]
    BY <1>2, <1>7
  <2>2. Append(d[z], o) \in Seq(Mentions)
    BY <1>2
  <2> QED BY <1>2, <1>7, <2>1, <2>2
<1> QED BY <1>3, <1>4, <1>5, <1>6, <1>7

LEMMA GoOnMoves ==
    ASSUME SessionTypes, NEW x \in Rpc!Sides, NEW op, Rpc!Doing(x, op), Rpc!GoOn(x, <<>>),
           \/ toRead' = toRead
           \/ toRead[x] # <<>> /\ toRead' = [toRead EXCEPT ![x] = Tail(@)]
           \/ \E o \in Mentions : Rpc!Deliver(x, o)
    PROVE  Moves(x)
<1>1. todo[x] \in Seq(StepsOf(x)) /\ todo[x] # <<>> /\ Rpc!Running(x)
  BY DEF SessionTypes, Rpc!Doing
<1>2. Tail(todo[x]) \in Seq(StepsOf(x)) /\ <<>> \o Tail(todo[x]) = Tail(todo[x])
  BY <1>1
<1>3. todo' = [todo EXCEPT ![x] = Tail(todo[x])] /\ side' = side
  BY <1>2 DEF Rpc!GoOn
<1>4. /\ toRead' \in [Rpc!Sides -> Seq(Mentions)]
      /\ \A y \in Rpc!Sides \ {x} : ~Rpc!Running(y) => toRead'[y] = toRead[y]
  BY QueueMoves
<1> QED BY <1>1, <1>2, <1>3, <1>4 DEF Moves

LEMMA EndMoves ==
    ASSUME SessionTypes, NEW x \in Rpc!Sides, Rpc!Running(x), NEW how \in {"done", "failed"},
           Rpc!End(x, how), toRead' = Rpc!Dropped(x)
    PROVE  Moves(x)
<1>1. /\ toRead' \in [Rpc!Sides -> Seq(Mentions)]
      /\ \A y \in Rpc!Sides \ {x} : ~Rpc!Running(y) => toRead'[y] = toRead[y]
  BY QueueMoves
<1>2. toRead'[x] = <<>>
  BY DEF Rpc!Dropped, SessionTypes
<1> QED BY <1>1, <1>2 DEF Moves

\* What a step of a side names.
LEMMA StepMentions ==
    ASSUME SessionTypes, NEW x \in Rpc!Sides, todo[x] # <<>>
    PROVE  /\ todo[x][1] \in StepsOf(x) /\ todo[x][1] \in Rpc!ScriptSteps
           /\ Rpc!Expected(x) \in Rpc!Names /\ (Rpc!Expected(x) = "login" => logins > 0)
           /\ \A v \in {"Ok", "Err"} : Rpc!Object(Rpc!Expected(x), v) \in Mentions
           /\ Rpc!Object("Header", Rpc!Expected(x)) \in Mentions
           /\ \A v \in {"Ok", "Err"} : Rpc!Object("Response", v) \in Mentions
<1>1. todo[x] \in Seq(StepsOf(x))
  BY DEF SessionTypes
<1>2. todo[x][1] \in StepsOf(x)
  BY <1>1
<1>3. PICK s : s = todo[x][1]
  OBVIOUS
<1>4. s \in Rpc!ScriptSteps /\ s.type \in Rpc!Names /\ (s.type = "login" => logins > 0)
  BY <1>2, <1>3 DEF StepsOf, ClientSteps, ServerSteps, Rpc!ScriptSteps
<1>5. Rpc!Expected(x) = s.type
  BY <1>3 DEF Rpc!Expected
<1> QED BY <1>2, <1>3, <1>4, <1>5, KnownNames, ObjectTypes DEF Mentions, Rpc!Object

LEMMA SimpleMoves ==
    ASSUME SessionTypes, NEW x \in Rpc!Sides,
           \/ Rpc!WriteObject(x) \/ Rpc!ReadObject(x) \/ Rpc!SessionLost(x) \/ Rpc!CheckStep(x)
           \/ Rpc!Finish(x) \/ Rpc!CopyEnds(x) \/ Rpc!Cancel(x)
    PROVE  Moves(x)
<1>1. CASE Rpc!WriteObject(x)
  <2>1. todo[x] # <<>>
    BY <1>1 DEF Rpc!WriteObject, Rpc!Doing
  <2>2. PICK op : Rpc!Doing(x, op) /\ \E o \in Mentions : Rpc!Deliver(x, o)
    BY <1>1, <2>1, StepMentions DEF Rpc!WriteObject
  <2> QED BY <1>1, <2>2, GoOnMoves DEF Rpc!WriteObject
<1>2. CASE Rpc!ReadObject(x)
  <2>1. PICK op : Rpc!Doing(x, op) /\ Rpc!Running(x)
    BY <1>2 DEF Rpc!ReadObject, Rpc!Doing
  <2> QED BY <1>2, <2>1, GoOnMoves, EndMoves DEF Rpc!ReadObject
<1>3. CASE Rpc!SessionLost(x)
  <2>1. Rpc!Running(x) /\ Rpc!End(x, "failed") /\ toRead' = Rpc!Dropped(x)
    BY <1>3 DEF Rpc!SessionLost, Rpc!Doing
  <2> QED BY <2>1, EndMoves
<1>4. CASE Rpc!CheckStep(x)
  <2>1. Rpc!Doing(x, "check") /\ Rpc!Running(x)
    BY <1>4 DEF Rpc!CheckStep, Rpc!Doing
  <2> QED BY <1>4, <2>1, GoOnMoves, EndMoves DEF Rpc!CheckStep
<1>5. CASE Rpc!Finish(x)
  <2>1. Rpc!Running(x) /\ Rpc!End(x, "done") /\ toRead' = Rpc!Dropped(x)
    BY <1>5 DEF Rpc!Finish
  <2> QED BY <2>1, EndMoves
<1>6. CASE Rpc!CopyEnds(x) \/ Rpc!Cancel(x)
  <2>1. PICK op : Rpc!Doing(x, op) /\ Rpc!GoOn(x, <<>>) /\ toRead' = toRead
    BY <1>6 DEF Rpc!CopyEnds, Rpc!Cancel
  <2> QED BY <2>1, GoOnMoves
<1> QED BY <1>1, <1>2, <1>3, <1>4, <1>5, <1>6

LEMMA StreamMoves ==
    ASSUME SessionTypes, NEW x \in Rpc!Sides, Rpc!StreamStatus(x) \/ Rpc!DrainStatus(x)
    PROVE  Moves(x)
<1>1. Rpc!Running(x) /\ todo' = todo /\ side' = side
  BY DEF Rpc!StreamStatus, Rpc!DrainStatus, Rpc!Doing
<1>2. Rpc!Object("RealtimeStatus", "Ok") \in Mentions
  BY ObjectTypes, KnownNames DEF Mentions, Rpc!Object
<1>3. /\ toRead' \in [Rpc!Sides -> Seq(Mentions)]
      /\ \A y \in Rpc!Sides \ {x} : ~Rpc!Running(y) => toRead'[y] = toRead[y]
  BY <1>2, QueueMoves DEF Rpc!StreamStatus, Rpc!DrainStatus
<1>4. todo[x] \in Seq(StepsOf(x)) /\ todo' = [todo EXCEPT ![x] = todo[x]]
  BY <1>1 DEF SessionTypes
<1> QED BY <1>1, <1>3, <1>4 DEF Moves

LEMMA AnswerMoves ==
    ASSUME SessionTypes, NEW x \in Rpc!Sides, Rpc!WriteAnswer(x)
    PROVE  Moves(x)
<1>1. todo[x] # <<>> /\ Rpc!Doing(x, "answer") /\ Rpc!Running(x)
  BY DEF Rpc!WriteAnswer, Rpc!Doing
<1>2. PICK e : e = Rpc!Expected(x)
  OBVIOUS
<1>3. Rpc!Object(e, "Ok") \in Mentions /\ Rpc!Object(e, "Err") \in Mentions
  BY <1>1, <1>2, StepMentions
<1>4. CASE Rpc!Deliver(x, Rpc!Object(e, "Ok")) /\ Rpc!GoOn(x, <<>>)
  BY <1>1, <1>3, <1>4, GoOnMoves
<1>5. CASE /\ toRead' = [[toRead EXCEPT ![x] = <<>>] EXCEPT ![Rpc!Other(x)] =
                          IF Rpc!Running(Rpc!Other(x)) THEN Append(@, Rpc!Object(e, "Err"))
                          ELSE @]
           /\ Rpc!End(x, "failed")
  <2>1. PICK d : d = [toRead EXCEPT ![x] = <<>>]
    OBVIOUS
  <2>2. d \in [Rpc!Sides -> Seq(Mentions)] /\ d[x] = <<>> /\ \A y \in Rpc!Sides \ {x} : d[y] = toRead[y]
    BY <2>1 DEF SessionTypes
  <2>3. toRead' = [d EXCEPT ![Rpc!Other(x)] =
                     IF Rpc!Running(Rpc!Other(x)) THEN Append(@, Rpc!Object(e, "Err")) ELSE @]
    BY <1>5, <2>1
  <2>4. /\ toRead' \in [Rpc!Sides -> Seq(Mentions)]
        /\ \A y \in Rpc!Sides \ {x} : ~Rpc!Running(y) => toRead'[y] = toRead[y]
    BY <1>3, <2>2, <2>3, QueueMoves
  <2>5. toRead'[x] = <<>>
    BY <2>2, <2>3, OtherSide
  <2> QED BY <1>1, <1>5, <2>4, <2>5 DEF Moves
<1> QED BY <1>2, <1>4, <1>5 DEF Rpc!WriteAnswer

\* The command of an object that is read, and of a script that follows it.
LEMMA HeaderMoves ==
    ASSUME SessionTypes, NEW x \in Rpc!Sides, Rpc!ReadHeader(x)
    PROVE  Moves(x)
<1>1. todo[x] # <<>> /\ todo[x][1].op = "handle" /\ Rpc!Running(x) /\ toRead[x] # <<>>
  BY DEF Rpc!ReadHeader, Rpc!Doing
<1>2. PICK e, command : e = Rpc!Expected(x) /\ command = toRead[x][1].value
  OBVIOUS
<1>3. x = "handler" /\ e \in {"server", "agent", "public", "endToEnd"} /\ e \in Rpc!Names
  BY <1>1, <1>2, StepMentions DEF StepsOf, ClientSteps, ServerSteps, Rpc!Expected
<1>4. command = "login" => logins > 0
  <2>1. toRead[x] \in Seq(Mentions)
    BY DEF SessionTypes
  <2>2. toRead[x][1] \in Mentions
    BY <1>1, <2>1
  <2> QED BY <1>2, <2>2 DEF Mentions
<1>5. CASE command \in Rpc!Collections[e]
  <2> DEFINE asked == <<[op |-> "request", type |-> e], [op |-> "command", type |-> command]>>
  <2>1. /\ todo' = [todo EXCEPT ![x] = asked \o Tail(todo[x])] /\ side' = side
        /\ toRead' = [toRead EXCEPT ![x] = Tail(@)]
    BY <1>2, <1>5 DEF Rpc!ReadHeader
  <2>2. command \in Rpc!Commands /\ command \in Rpc!Names
    BY <1>3, <1>5 DEF Rpc!Collections, Rpc!Commands, Rpc!Names
  <2>3. [op |-> "request", type |-> e] \in StepsOf(x)
    <3>1. e # "login"
      BY <1>3
    <3> QED BY <1>3, <3>1 DEF StepsOf, ServerSteps, Rpc!ScriptSteps
  <2>4. [op |-> "command", type |-> command] \in StepsOf(x)
    BY <1>3, <1>4, <2>2 DEF StepsOf, ServerSteps, Rpc!ScriptSteps
  <2>5. asked \in Seq(StepsOf(x))
    BY <2>3, <2>4
  <2>6. Tail(todo[x]) \in Seq(StepsOf(x))
    <3>1. todo[x] \in Seq(StepsOf(x))
      BY DEF SessionTypes
    <3> QED BY <1>1, <3>1
  <2> HIDE DEF asked
  <2>7. asked \o Tail(todo[x]) \in Seq(StepsOf(x))
    BY <2>5, <2>6
  <2>8. /\ toRead' \in [Rpc!Sides -> Seq(Mentions)]
        /\ \A y \in Rpc!Sides \ {x} : ~Rpc!Running(y) => toRead'[y] = toRead[y]
    BY <1>1, <2>1, QueueMoves
  <2> QED BY <1>1, <2>1, <2>7, <2>8 DEF Moves
<1>6. CASE command \notin Rpc!Collections[e]
  <2>1. PICK o \in Mentions : o = Rpc!Object("Response", "Err")
    BY <1>1, StepMentions
  <2>2. /\ Rpc!End(x, "failed")
        /\ toRead' = [y \in Rpc!Sides |-> IF y # x /\ Rpc!Running(y) /\ ~broken
                                          THEN Append(toRead[y], o) ELSE <<>>]
    BY <1>2, <1>6, <2>1 DEF Rpc!ReadHeader
  <2>3. \A y \in Rpc!Sides : Append(toRead[y], o) \in Seq(Mentions)
    BY DEF SessionTypes
  <2>4. toRead' \in [Rpc!Sides -> Seq(Mentions)] /\ toRead'[x] = <<>>
    BY <2>2, <2>3
  <2>5. \A y \in Rpc!Sides \ {x} : ~Rpc!Running(y) => toRead'[y] = toRead[y]
    BY <2>2 DEF SessionTypes, Rpc!Running
  <2> QED BY <1>1, <2>2, <2>4, <2>5 DEF Moves
<1> QED BY <1>5, <1>6

LEMMA RequestMoves ==
    ASSUME SessionTypes, RpcInv, NEW x \in Rpc!Sides, Rpc!ReadRequest(x)
    PROVE  Moves(x)
<1>1. todo[x] # <<>> /\ todo[x][1].op = "request" /\ Rpc!Running(x) /\ toRead[x] # <<>>
  BY DEF Rpc!ReadRequest, Rpc!Doing
<1>2. x = "handler"
  BY <1>1, StepMentions DEF StepsOf, ClientSteps
<1>3. PICK command : command = todo[x][2].type
  OBVIOUS
<1>4. PICK ok \in BOOLEAN : ok <=> Rpc!May(Rpc!PeerIn(Rpc!Expected(x)), Rpc!PermissionOf(command))
  BY Zenon
<1>5. PICK o \in Mentions : o = Rpc!Object("Response", IF ok THEN "Ok" ELSE "Err")
  BY <1>1, StepMentions
<1>6. PICK d : d = [toRead EXCEPT ![x] = IF ok THEN Tail(@) ELSE <<>>]
  OBVIOUS
<1>7. PICK z : z = Rpc!Other(x) /\ z \in Rpc!Sides /\ z # x
  BY OtherSide
<1>8. /\ toRead' = IF Rpc!Running(z) THEN [d EXCEPT ![z] = Append(@, o)] ELSE d
      /\ IF ok THEN todo' = [todo EXCEPT ![x] = Rpc!HandlerOf(command) \o Tail(Tail(@))]
                    /\ side' = side
         ELSE Rpc!End(x, "failed")
  BY <1>3, <1>4, <1>5, <1>6, <1>7 DEF Rpc!ReadRequest
<1>9. /\ d \in [Rpc!Sides -> Seq(Mentions)] /\ \A y \in Rpc!Sides \ {x} : d[y] = toRead[y]
      /\ ~ok => d[x] = <<>>
  <2>1. toRead \in [Rpc!Sides -> Seq(Mentions)]
    BY DEF SessionTypes
  <2>2. Tail(toRead[x]) \in Seq(Mentions)
    BY <1>1, <2>1
  <2> QED BY <1>6, <2>1, <2>2
<1>10. toRead' = [d EXCEPT ![z] = IF Rpc!Running(z) THEN Append(@, o) ELSE @]
  BY <1>7, <1>8, <1>9
<1>11. /\ toRead' \in [Rpc!Sides -> Seq(Mentions)]
       /\ \A y \in Rpc!Sides \ {x} : ~Rpc!Running(y) => toRead'[y] = toRead[y]
  BY <1>7, <1>9, <1>10, QueueMoves
<1>12. CASE ok
  <2>1. PICK s : s = todo[x]
    OBVIOUS
  <2>2. s \in Seq(StepsOf(x)) /\ Guarded(s, proven) /\ Len(s) \in Nat /\ 1 \in 1 .. Len(s)
    <3>1. s \in Seq(StepsOf(x)) /\ Guarded(s, proven)
      BY <2>1 DEF SessionTypes, RpcInv
    <3> QED BY <1>1, <2>1, <3>1
  <2>3. 1 + 1 \in 1 .. Len(s) /\ s[1 + 1].op = "command"
    BY <1>1, <2>1, <2>2 DEF Guarded
  <2>4. 2 <= Len(s) /\ s[2] \in StepsOf(x) /\ s[2].op = "command"
    BY <2>2, <2>3
  <2>5. Tail(Tail(s)) \in Seq(StepsOf(x))
    <3>1. Tail(s) \in Seq(StepsOf(x)) /\ Len(Tail(s)) = Len(s) - 1
      BY <2>2, <2>4
    <3>2. PICK m \in Nat : m = Len(s) /\ 2 <= m
      BY <2>2, <2>4
    <3>3. Len(Tail(s)) # 0
      BY <3>1, <3>2
    <3>4. Tail(s) # <<>>
      BY <3>3
    <3> QED BY <3>1, <3>4
  <2>6. command \in Rpc!Commands /\ (command = "login" => logins > 0)
    BY <1>2, <1>3, <2>1, <2>4 DEF StepsOf, ServerSteps
  <2>7. Rpc!HandlerOf(command) \in Seq(StepsOf(x))
    <3>1. StepsOf(x) = ServerSteps(logins) /\ logins \in Nat
      BY <1>2, SessionsAssumption DEF StepsOf, SessionTypes
    <3> QED BY <2>6, <3>1, ServerScripts
  <2>8. Rpc!HandlerOf(command) \o Tail(Tail(s)) \in Seq(StepsOf(x))
    BY <2>5, <2>7
  <2>9. todo' = [todo EXCEPT ![x] = Rpc!HandlerOf(command) \o Tail(Tail(s))] /\ side' = side
    BY <1>8, <1>12, <2>1
  <2> QED BY <1>1, <1>11, <2>8, <2>9 DEF Moves
<1>13. CASE ~ok
  BY <1>1, <1>7, <1>8, <1>9, <1>10, <1>11, <1>13 DEF Moves
<1> QED BY <1>12, <1>13

LEMMA LoginMoves ==
    ASSUME SessionTypes
    PROVE  /\ Rpc!AddSession => Moves("handler")
           /\ Rpc!ListProfiles \/ Rpc!SaveProfile \/ Rpc!SaveTrustStore \/ Rpc!KillClient
              => Moves("dispatcher")
<1>1. "handler" \in Rpc!Sides /\ "dispatcher" \in Rpc!Sides
  BY DEF Rpc!Sides
<1>2. ASSUME Rpc!AddSession PROVE Moves("handler")
  BY <1>1, <1>2, GoOnMoves DEF Rpc!AddSession
<1>3. ASSUME Rpc!SaveProfile \/ Rpc!SaveTrustStore PROVE Moves("dispatcher")
  <2>1. PICK op : Rpc!Doing("dispatcher", op) /\ Rpc!GoOn("dispatcher", <<>>) /\ toRead' = toRead
    BY <1>3 DEF Rpc!SaveProfile, Rpc!SaveTrustStore
  <2> QED BY <1>1, <2>1, GoOnMoves
<1>4. ASSUME Rpc!ListProfiles PROVE Moves("dispatcher")
  <2>1. Rpc!Running("dispatcher") /\ Rpc!Doing("dispatcher", "list_profiles")
    BY <1>4 DEF Rpc!ListProfiles, Rpc!Doing
  <2> QED BY <1>1, <1>4, <2>1, GoOnMoves, EndMoves DEF Rpc!ListProfiles
<1>5. ASSUME Rpc!KillClient PROVE Moves("dispatcher")
  BY <1>1, <1>5, EndMoves DEF Rpc!KillClient
<1> QED BY <1>2, <1>3, <1>4, <1>5

LEMMA MovesTypes ==
    ASSUME SessionTypes, NEW x \in Rpc!Sides, Moves(x), UNCHANGED <<rpc, broken, logins>>
    PROVE  SessionTypes'
<1>1. PICK script \in Seq(StepsOf(x)) :
        /\ todo' = [todo EXCEPT ![x] = script]
        /\ \/ side' = side
           \/ \E how \in {"done", "failed"} :
                 side' = [side EXCEPT ![x] = how] /\ toRead'[x] = <<>> /\ script = <<>>
  BY StepsAreSteps DEF Moves, Rpc!End
<1>2. script \in Seq(Rpc!ScriptSteps)
  BY StepsAreSteps
<1>3. todo' \in [Rpc!Sides -> Seq(Rpc!ScriptSteps)]
  BY <1>1, <1>2 DEF SessionTypes
<1>4. Mentions' = Mentions /\ \A y \in Rpc!Sides : StepsOf(y)' = StepsOf(y)
  BY DEF Mentions, StepsOf
<1>5. toRead' \in [Rpc!Sides -> Seq(Mentions')]
  BY <1>4 DEF Moves
<1>6. side' \in [Rpc!Sides -> {"idle", "run", "done", "failed"}]
  BY <1>1 DEF SessionTypes
<1>7. side[x] = "run" /\ side'[x] # "idle"
  BY <1>1 DEF SessionTypes, Moves, Rpc!Running
<1>8. ASSUME NEW y \in Rpc!Sides
      PROVE  /\ todo'[y] \in Seq(StepsOf(y)')
             /\ side'[y] # "run" => todo'[y] = <<>> /\ toRead'[y] = <<>>
  <2>1. CASE y = x
    BY <1>1, <1>4, <1>7, <2>1 DEF SessionTypes
  <2>2. CASE y # x
    <3>1. todo'[y] = todo[y] /\ side'[y] = side[y]
      BY <1>1, <2>2 DEF SessionTypes
    <3>2. side[y] # "run" => toRead'[y] = toRead[y]
      BY <2>2 DEF Moves, Rpc!Running
    <3> QED BY <1>4, <3>1, <3>2 DEF SessionTypes
  <2> QED BY <2>1, <2>2
<1> QED BY <1>3, <1>5, <1>6, <1>7, <1>8 DEF SessionTypes

LEMMA DispatchTypes ==
    ASSUME SessionTypes, NEW command \in Rpc!Commands, NEW peer \in Rpc!Peers,
           NEW forwarded \in BOOLEAN, NEW password, NEW totp,
           Rpc!Dispatch(command, peer, forwarded, password, totp)
    PROVE  SessionTypes' /\ logins' \in 0 .. MaxLogins /\ logins <= logins'
<1>1. logins \in 0 .. MaxLogins /\ MaxLogins \in Nat \ {0}
  BY SessionsAssumption DEF SessionTypes
<1>2. /\ logins' = IF command = "login" THEN logins + 1 ELSE logins
      /\ (\A x \in Rpc!Sides : side[x] = "idle") \/ logins \in 1 .. MaxLogins - 1
  BY DEF Rpc!Dispatch
<1>3. (\A x \in Rpc!Sides : side[x] = "idle") => logins = 0
  BY DEF SessionTypes
<1>4. logins' \in 0 .. MaxLogins /\ logins <= logins' /\ (command = "login" => logins' > 0)
  BY <1>1, <1>2, <1>3
<1>5. PICK n \in Nat : n = logins'
  BY <1>1, <1>4
<1>6. StepsOf("handler")' = ServerSteps(n) /\ StepsOf("dispatcher")' = ClientSteps(n)
  BY <1>5 DEF StepsOf
<1>7. PICK h \in Seq(ServerSteps(n)) :
        h = Rpc!Handle(IF command = "deauthenticate" THEN "agent" ELSE "server")
  BY <1>4, <1>5, ServerScripts
<1>8. PICK d \in Seq(ClientSteps(n)) :
        d = (IF forwarded THEN Rpc!ForwardConnection ELSE <<>>)
            \o Rpc!Frame(command) \o Rpc!DispatcherOf(command)
  <2>1. /\ Rpc!ForwardConnection \in Seq(ClientSteps(n)) /\ Rpc!Frame(command) \in Seq(ClientSteps(n))
        /\ Rpc!DispatcherOf(command) \in Seq(ClientSteps(n)) /\ <<>> \in Seq(ClientSteps(n))
    BY <1>4, <1>5, ClientScripts
  <2>2. PICK f \in Seq(ClientSteps(n)) : f = IF forwarded THEN Rpc!ForwardConnection ELSE <<>>
    BY <2>1
  <2>3. f \o Rpc!Frame(command) \o Rpc!DispatcherOf(command) \in Seq(ClientSteps(n))
    BY <2>1
  <2> QED BY <2>2, <2>3
<1>9. /\ rpc' = [command |-> command, peer |-> peer, forwarded |-> forwarded,
                 password |-> password, totp |-> totp]
      /\ todo' = [x \in Rpc!Sides |-> IF x = "handler" THEN h ELSE d]
      /\ side' = [x \in Rpc!Sides |-> "run"] /\ toRead' = [x \in Rpc!Sides |-> <<>>]
      /\ broken' = FALSE
  BY <1>7, <1>8, Zenon DEF Rpc!Dispatch
<1>10. h \in Seq(Rpc!ScriptSteps) /\ d \in Seq(Rpc!ScriptSteps)
  BY DEF ServerSteps, ClientSteps
<1>11. todo' \in [Rpc!Sides -> Seq(Rpc!ScriptSteps)] /\ toRead' \in [Rpc!Sides -> Seq(Mentions')]
  BY <1>9, <1>10
<1>12. todo'["handler"] \in Seq(StepsOf("handler")') /\ todo'["dispatcher"] \in Seq(StepsOf("dispatcher")')
  BY <1>6, <1>9 DEF Rpc!Sides
<1>13. \A x \in Rpc!Sides : todo'[x] \in Seq(StepsOf(x)')
  BY <1>12 DEF Rpc!Sides
<1>14. /\ \A x \in Rpc!Sides : side'[x] = "run"
       /\ side' \in [Rpc!Sides -> {"idle", "run", "done", "failed"}]
       /\ "handler" \in Rpc!Sides
  BY <1>9 DEF Rpc!Sides
<1>15. rpc'.command = command /\ rpc'.peer = peer /\ rpc'.forwarded = forwarded
  BY <1>9
<1> QED BY <1>4, <1>9, <1>11, <1>13, <1>14, <1>15 DEF SessionTypes

\* The types are kept by every step of a session.
LEMMA SessionTypesNext ==
    ASSUME RpcInv, SessionTypes, DiskTypes, [Rpc!Next]_(Rpc!vars)
    PROVE  SessionTypes' /\ DiskTypes'
<1>1. ASSUME NEW x \in Rpc!Sides, Rpc!SideStep(x) \/ Rpc!Cancel(x)
      PROVE  SessionTypes' /\ DiskTypes'
  <2>1. Moves(x)
    BY <1>1, SimpleMoves, StreamMoves, AnswerMoves, HeaderMoves, RequestMoves DEF Rpc!SideStep
  <2>2. UNCHANGED <<rpc, broken, logins, stored, profile, profileDir, sessionFaults>>
    BY <1>1 DEF Rpc!onDisk, Rpc!SideStep, Rpc!WriteObject, Rpc!WriteAnswer, Rpc!ReadObject,
                Rpc!ReadHeader, Rpc!ReadRequest, Rpc!SessionLost, Rpc!CheckStep, Rpc!Finish,
                Rpc!StreamStatus, Rpc!DrainStatus, Rpc!CopyEnds, Rpc!Cancel
  <2> QED BY <2>1, <2>2, MovesTypes DEF DiskTypes
<1>2. CASE Rpc!LoginStep \/ Rpc!KillClient
  <2>1. "handler" \in Rpc!Sides /\ "dispatcher" \in Rpc!Sides
    BY DEF Rpc!Sides
  <2>2. PICK x \in Rpc!Sides : Moves(x)
    BY <1>2, <2>1, LoginMoves DEF Rpc!LoginStep
  <2>3. UNCHANGED <<rpc, broken, logins>>
    BY <1>2 DEF Rpc!LoginStep, Rpc!AddSession, Rpc!ListProfiles, Rpc!SaveProfile,
       Rpc!SaveTrustStore, Rpc!KillClient
  <2>4. CASE Rpc!AddSession
    <3>1. todo["handler"] # <<>> /\ todo["handler"][1].op = "store"
      BY <2>4 DEF Rpc!AddSession, Rpc!Doing
    <3>2. logins > 0
      BY <2>1, <3>1, StepMentions DEF StepsOf, ServerSteps
    <3>3. stored' \subseteq 1 .. logins
      BY <2>4, <3>2 DEF Rpc!AddSession, SessionTypes, DiskTypes
    <3> QED BY <2>2, <2>3, <2>4, <3>3, MovesTypes DEF Rpc!AddSession, DiskTypes
  <2>5. CASE Rpc!ListProfiles
    BY <2>2, <2>3, <2>5, MovesTypes DEF Rpc!ListProfiles, Rpc!onDisk, DiskTypes
  <2>6. CASE Rpc!SaveProfile \/ Rpc!SaveTrustStore
    <3>1. profile' \in [credential : 0 .. logins, trust : 0 .. logins]
      BY <2>6 DEF Rpc!SaveProfile, Rpc!SaveTrustStore, SessionTypes, DiskTypes
    <3>2. profileDir' \subseteq [name : {"profile"}, separator : {":", "+"}]
      BY <2>6 DEF Rpc!SaveProfile, Rpc!SaveTrustStore, DiskTypes, Rpc!ProfileDir, Rpc!ProfileName
    <3>3. UNCHANGED <<stored, sessionFaults>>
      BY <2>6 DEF Rpc!SaveProfile, Rpc!SaveTrustStore
    <3> QED BY <2>2, <2>3, <3>1, <3>2, <3>3, MovesTypes DEF DiskTypes
  <2>7. CASE Rpc!KillClient
    <3>1. sessionFaults' \in 0 .. MaxBreaks
      BY <2>7, SetupAssumption DEF Rpc!KillClient, DiskTypes
    <3> QED BY <2>2, <2>3, <2>7, <3>1, MovesTypes DEF Rpc!KillClient, Rpc!onDisk, DiskTypes
  <2> QED BY <1>2, <2>4, <2>5, <2>6, <2>7 DEF Rpc!LoginStep
<1>3. CASE Rpc!Break
  <2>1. PICK n \in 0 .. Len(toRead["handler"]), k \in 0 .. Len(toRead["dispatcher"]) :
          toRead' = [x \in Rpc!Sides |-> SubSeq(toRead[x], 1, IF x = "handler" THEN n ELSE k)]
    BY <1>3 DEF Rpc!Break
  <2>2. /\ UNCHANGED <<rpc, todo, side, logins, stored, profile, profileDir>> /\ broken' = TRUE
        /\ sessionFaults < MaxBreaks /\ sessionFaults' = sessionFaults + 1
    BY <1>3 DEF Rpc!Break, Rpc!onDisk
  <2>3. Mentions' = Mentions /\ \A y \in Rpc!Sides : StepsOf(y)' = StepsOf(y)
    BY <2>2 DEF Mentions, StepsOf
  <2>4. toRead["handler"] \in Seq(Mentions) /\ toRead["dispatcher"] \in Seq(Mentions)
    BY DEF SessionTypes, Rpc!Sides
  <2>5. SubSeq(toRead["handler"], 1, n) \in Seq(Mentions)
        /\ SubSeq(toRead["dispatcher"], 1, k) \in Seq(Mentions)
    BY <2>4
  <2>6. toRead' \in [Rpc!Sides -> Seq(Mentions)]
    BY <2>1, <2>5 DEF Rpc!Sides
  <2>7. /\ toRead["handler"] = <<>> => SubSeq(toRead["handler"], 1, n) = <<>>
        /\ toRead["dispatcher"] = <<>> => SubSeq(toRead["dispatcher"], 1, k) = <<>>
    BY <2>4
  <2>8. \A x \in Rpc!Sides : toRead[x] = <<>> => toRead'[x] = <<>>
    BY <2>1, <2>7 DEF Rpc!Sides
  <2>9. sessionFaults' \in 0 .. MaxBreaks
    BY <2>2, SetupAssumption DEF DiskTypes
  <2> QED BY <2>2, <2>3, <2>6, <2>8, <2>9 DEF SessionTypes, DiskTypes
<1>4. CASE Rpc!RemoveProfile
  <2>1. /\ UNCHANGED <<rpc, todo, side, toRead, broken, logins, stored, sessionFaults>>
        /\ profileDir' = {} /\ profile' = [credential |-> 0, trust |-> 0]
    BY <1>4 DEF Rpc!RemoveProfile, Rpc!NoLogin
  <2>2. Mentions' = Mentions /\ \A y \in Rpc!Sides : StepsOf(y)' = StepsOf(y)
    BY <2>1 DEF Mentions, StepsOf
  <2>3. profile' \in [credential : 0 .. logins, trust : 0 .. logins]
    BY <2>1 DEF SessionTypes
  <2> QED BY <2>1, <2>2, <2>3 DEF SessionTypes, DiskTypes
<1>5. CASE UNCHANGED Rpc!vars
  <2>1. UNCHANGED <<rpc, todo, side, toRead, broken, logins, stored, profile, profileDir,
                    sessionFaults>>
    BY <1>5 DEF Rpc!vars
  <2>2. Mentions' = Mentions /\ \A y \in Rpc!Sides : StepsOf(y)' = StepsOf(y)
    BY <2>1 DEF Mentions, StepsOf
  <2> QED BY <2>1, <2>2 DEF SessionTypes, DiskTypes
<1>6. ASSUME NEW command \in Rpc!Commands, NEW peer \in Rpc!Peers, NEW forwarded \in BOOLEAN,
             NEW password \in BOOLEAN, NEW totp \in BOOLEAN,
             Rpc!Dispatch(command, peer, forwarded, password, totp)
      PROVE  SessionTypes' /\ DiskTypes'
  <2>1. SessionTypes' /\ logins' \in 0 .. MaxLogins /\ logins <= logins'
    BY <1>6, DispatchTypes
  <2>2. UNCHANGED <<stored, profile, profileDir, sessionFaults>>
    BY <1>6 DEF Rpc!Dispatch, Rpc!onDisk
  <2>3. logins \in Nat /\ logins' \in Nat
    BY <2>1, SessionsAssumption DEF SessionTypes
  <2>4. stored' \subseteq 1 .. logins'
    BY <2>1, <2>2, <2>3 DEF DiskTypes
  <2>5. profile' \in [credential : 0 .. logins', trust : 0 .. logins']
    BY <2>1, <2>2, <2>3 DEF DiskTypes
  <2> QED BY <2>1, <2>2, <2>4, <2>5 DEF DiskTypes
<1> QED BY <1>1, <1>2, <1>3, <1>4, <1>5, <1>6 DEF Rpc!Next

LEMMA SessionTypesStart == Rpc!Init => SessionTypes /\ DiskTypes
<1> SUFFICES ASSUME Rpc!Init PROVE SessionTypes /\ DiskTypes
  OBVIOUS
<1>1. rpc.command \in Rpc!Commands /\ rpc.peer \in Rpc!Peers /\ rpc.forwarded \in BOOLEAN
      /\ rpc.command = "ping"
  BY DEF Rpc!Init, Rpc!Commands, Rpc!ServerCommands, Rpc!Peers
<1>2. \A x \in Rpc!Sides : todo[x] = <<>> /\ toRead[x] = <<>> /\ side[x] = "idle"
  BY DEF Rpc!Init
<1>3. /\ todo \in [Rpc!Sides -> Seq(Rpc!ScriptSteps)] /\ toRead \in [Rpc!Sides -> Seq(Mentions)]
      /\ side \in [Rpc!Sides -> {"idle", "run", "done", "failed"}]
  BY DEF Rpc!Init
<1>4. broken \in BOOLEAN /\ logins = 0 /\ 0 \in 0 .. MaxLogins
  <2>1. broken = FALSE /\ logins = 0
    BY DEF Rpc!Init
  <2>2. 0 \in 0 .. MaxLogins
    BY SessionsAssumption
  <2> QED BY <2>1, <2>2
<1>5. SessionTypes
  BY <1>1, <1>2, <1>3, <1>4, StepsAreSteps DEF SessionTypes
<1>6. DiskTypes
  BY <1>4, SetupAssumption DEF DiskTypes, Rpc!Init, Rpc!NoLogin
<1> QED BY <1>5, <1>6

LEMMA SessionTypesOK == RpcInv /\ SessionTypes /\ DiskTypes => Rpc!TypeOK
<1> SUFFICES ASSUME RpcInv, SessionTypes, DiskTypes PROVE Rpc!TypeOK
  OBVIOUS
<1>1. ASSUME NEW x \in Rpc!Sides, NEW i \in DOMAIN todo[x] PROVE todo[x][i] \in Rpc!ScriptSteps
  <2>1. todo[x] \in Seq(Rpc!ScriptSteps)
    BY DEF SessionTypes
  <2>2. i \in 1 .. Len(todo[x])
    BY <2>1
  <2> QED BY <2>1, <2>2
<1> QED BY <1>1 DEF RpcInv, BothAnswers, SessionTypes, DiskTypes, Rpc!TypeOK

\* The theorems about TrustSync, for the client that adds agents.
TrustP == INSTANCE TrustSyncProofs
    WITH Clients <- TrustClients, Started <- TrustClients, handler <- adding, stops <- nodeStops

\* Both instances of TrustSync are the same.
LEMMA SameTrust ==
    /\ Trust!Init => TrustP!Init
    /\ Trust!Next => TrustP!Next
    /\ TrustP!TypeOK => Trust!TypeOK
<1> USE DEF Trust!NoBlock, TrustP!NoBlock, Trust!Sequence, TrustP!Sequence,
           Trust!PreviousBlock, TrustP!PreviousBlock, Trust!Transaction, TrustP!Transaction,
           Trust!ResultingState, TrustP!ResultingState, Trust!Import, TrustP!Import,
           Trust!StateCheck, TrustP!StateCheck, Trust!StateApply, TrustP!StateApply,
           Trust!Package, TrustP!Package, Trust!Check, TrustP!Check, Trust!ApplyPanics,
           TrustP!ApplyPanics, Trust!Apply, TrustP!Apply, Trust!Digest, TrustP!Digest,
           Trust!serverVars, TrustP!serverVars, Trust!feedVars, TrustP!feedVars,
           Trust!diskVars, TrustP!diskVars, Trust!nodeVars, TrustP!nodeVars, Trust!Nodes,
           TrustP!Nodes, Trust!Members, TrustP!Members, Trust!Certs, TrustP!Certs,
           Trust!Running, TrustP!Running, Trust!Block, TrustP!Block, Trust!Genesis,
           TrustP!Genesis, Trust!NoChain, TrustP!NoChain, Trust!Idle, TrustP!Idle,
           Trust!NoAdd, TrustP!NoAdd, Trust!NoReceiver, TrustP!NoReceiver, Trust!Message,
           TrustP!Message, Trust!Update, TrustP!Update, Trust!HasRow, TrustP!HasRow,
           Trust!RowsAfter, TrustP!RowsAfter, Trust!MaxSequence, TrustP!MaxSequence,
           Trust!TableAccepts, TrustP!TableAccepts, Trust!TableAdd, TrustP!TableAdd,
           Trust!Answer, TrustP!Answer, Trust!InsertAccepted, TrustP!InsertAccepted,
           Trust!Subscribed, TrustP!Subscribed, Trust!Enqueue, TrustP!Enqueue, Trust!Send,
           TrustP!Send, Trust!Deliver, TrustP!Deliver, Trust!Replayed, TrustP!Replayed,
           Trust!ReplayAccepted, TrustP!ReplayAccepted, Trust!EndSession, TrustP!EndSession,
           Trust!Reads, TrustP!Reads, Trust!ApplyAt, TrustP!ApplyAt, Trust!AddFails,
           TrustP!AddFails, Trust!ChainType, TrustP!ChainType, Trust!HandlerType,
           TrustP!HandlerType, Trust!ReceiverType, TrustP!ReceiverType, Trust!PendType,
           TrustP!PendType, Trust!AddType, TrustP!AddType, Trust!StatusType,
           TrustP!StatusType, Trust!Max, TrustP!Max, Trust!Last, TrustP!Last,
           Trust!Cardinality, TrustP!Cardinality
<1>1. Trust!Init => TrustP!Init
  BY DEF Trust!Init, TrustP!Init
<1>2. TrustP!TypeOK => Trust!TypeOK
  BY DEF Trust!TypeOK, TrustP!TypeOK
<1>3. ASSUME NEW c, Trust!ServerStep(c) PROVE TrustP!ServerStep(c)
  <2>1. Trust!HandlerCheck(c) => TrustP!HandlerCheck(c)
    BY DEF Trust!HandlerCheck, TrustP!HandlerCheck
  <2>2. Trust!HandlerInsert(c) => TrustP!HandlerInsert(c)
    BY DEF Trust!HandlerInsert, TrustP!HandlerInsert
  <2>3. Trust!HandlerPublish(c) => TrustP!HandlerPublish(c)
    BY DEF Trust!HandlerPublish, TrustP!HandlerPublish
  <2>4. Trust!HandlerApply(c) => TrustP!HandlerApply(c)
    BY DEF Trust!HandlerApply, TrustP!HandlerApply
  <2> QED BY <1>3, <2>1, <2>2, <2>3, <2>4 DEF Trust!ServerStep, TrustP!ServerStep
<1>4. ASSUME NEW c, Trust!AddStep(c) PROVE TrustP!AddStep(c)
  <2>1. Trust!PackageAndSend(c) => TrustP!PackageAndSend(c)
    BY DEF Trust!PackageAndSend, TrustP!PackageAndSend
  <2>2. Trust!AddAnswered(c) => TrustP!AddAnswered(c)
    BY DEF Trust!AddAnswered, TrustP!AddAnswered
  <2>3. Trust!AddStore(c) => TrustP!AddStore(c)
    BY DEF Trust!AddStore, TrustP!AddStore
  <2>4. Trust!AddApply(c) => TrustP!AddApply(c)
    BY DEF Trust!AddApply, TrustP!AddApply
  <2> QED BY <1>4, <2>1, <2>2, <2>3, <2>4 DEF Trust!AddStep, TrustP!AddStep
<1>5. ASSUME NEW n, Trust!FeedStep(n) PROVE TrustP!FeedStep(n)
  <2>1. Trust!Subscribe(n) => TrustP!Subscribe(n)
    BY DEF Trust!Subscribe, TrustP!Subscribe
  <2>2. Trust!Select(n) => TrustP!Select(n)
    BY DEF Trust!Select, TrustP!Select
  <2>3. Trust!SendCurrent(n) => TrustP!SendCurrent(n)
    BY DEF Trust!SendCurrent, TrustP!SendCurrent
  <2>4. Trust!Drain(n) => TrustP!Drain(n)
    BY DEF Trust!Drain, TrustP!Drain
  <2>5. Trust!SendUpToDate(n) => TrustP!SendUpToDate(n)
    BY DEF Trust!SendUpToDate, TrustP!SendUpToDate
  <2>6. Trust!Forward(n) => TrustP!Forward(n)
    BY DEF Trust!Forward, TrustP!Forward
  <2> QED BY <1>5, <2>1, <2>2, <2>3, <2>4, <2>5, <2>6 DEF Trust!FeedStep, TrustP!FeedStep
<1>6. ASSUME NEW n, Trust!FollowStep(n) PROVE TrustP!FollowStep(n)
  <2>1. Trust!ReadTransaction(n) => TrustP!ReadTransaction(n)
    BY DEF Trust!ReadTransaction, TrustP!ReadTransaction
  <2>2. Trust!StoreBlock(n) => TrustP!StoreBlock(n)
    BY DEF Trust!StoreBlock, TrustP!StoreBlock
  <2>3. Trust!ApplyBlock(n) => TrustP!ApplyBlock(n)
    BY DEF Trust!ApplyBlock, TrustP!ApplyBlock
  <2>4. Trust!ReadUpToDate(n) => TrustP!ReadUpToDate(n)
    BY DEF Trust!ReadUpToDate, TrustP!ReadUpToDate
  <2>5. Trust!ReadClose(n) => TrustP!ReadClose(n)
    BY DEF Trust!ReadClose, TrustP!ReadClose
  <2> QED BY <1>6, <2>1, <2>2, <2>3, <2>4, <2>5 DEF Trust!FollowStep, TrustP!FollowStep
<1>7. ASSUME NEW n, Trust!Start(n) \/ Trust!Save(n) \/ Trust!Stop(n)
      PROVE  TrustP!Start(n) \/ TrustP!Save(n) \/ TrustP!Stop(n)
  <2>1. Trust!Start(n) => TrustP!Start(n)
    BY DEF Trust!Start, TrustP!Start
  <2>2. Trust!Save(n) => TrustP!Save(n)
    BY DEF Trust!Save, TrustP!Save
  <2>3. Trust!Stop(n) => TrustP!Stop(n)
    BY DEF Trust!Stop, TrustP!Stop
  <2> QED BY <1>7, <2>1, <2>2, <2>3
<1>8. ASSUME NEW c, NEW a, Trust!Enroll(c, a) PROVE TrustP!Enroll(c, a)
  BY <1>8 DEF Trust!Enroll, TrustP!Enroll
<1>9. Trust!RestartServer => TrustP!RestartServer
  BY DEF Trust!RestartServer, TrustP!RestartServer
<1>10. Trust!Nodes = TrustP!Nodes
  OBVIOUS
<1>11. Trust!Next => TrustP!Next
  <2> HIDE DEF Trust!NoBlock, TrustP!NoBlock, Trust!Sequence, TrustP!Sequence,
               Trust!PreviousBlock, TrustP!PreviousBlock, Trust!Transaction,
               TrustP!Transaction, Trust!ResultingState, TrustP!ResultingState,
               Trust!Import, TrustP!Import, Trust!StateCheck, TrustP!StateCheck,
               Trust!StateApply, TrustP!StateApply, Trust!Package, TrustP!Package,
               Trust!Check, TrustP!Check, Trust!ApplyPanics, TrustP!ApplyPanics,
               Trust!Apply, TrustP!Apply, Trust!Digest, TrustP!Digest, Trust!serverVars,
               TrustP!serverVars, Trust!feedVars, TrustP!feedVars, Trust!diskVars,
               TrustP!diskVars, Trust!nodeVars, TrustP!nodeVars, Trust!Nodes, TrustP!Nodes,
               Trust!Members, TrustP!Members, Trust!Certs, TrustP!Certs, Trust!Running,
               TrustP!Running, Trust!Block, TrustP!Block, Trust!Genesis, TrustP!Genesis,
               Trust!NoChain, TrustP!NoChain, Trust!Idle, TrustP!Idle, Trust!NoAdd,
               TrustP!NoAdd, Trust!NoReceiver, TrustP!NoReceiver, Trust!Message,
               TrustP!Message, Trust!Update, TrustP!Update, Trust!HasRow, TrustP!HasRow,
               Trust!RowsAfter, TrustP!RowsAfter, Trust!MaxSequence, TrustP!MaxSequence,
               Trust!TableAccepts, TrustP!TableAccepts, Trust!TableAdd, TrustP!TableAdd,
               Trust!Answer, TrustP!Answer, Trust!InsertAccepted, TrustP!InsertAccepted,
               Trust!Subscribed, TrustP!Subscribed, Trust!Enqueue, TrustP!Enqueue,
               Trust!Send, TrustP!Send, Trust!Deliver, TrustP!Deliver, Trust!Replayed,
               TrustP!Replayed, Trust!ReplayAccepted, TrustP!ReplayAccepted,
               Trust!EndSession, TrustP!EndSession, Trust!Reads, TrustP!Reads,
               Trust!ApplyAt, TrustP!ApplyAt, Trust!AddFails, TrustP!AddFails,
               Trust!ChainType, TrustP!ChainType, Trust!HandlerType, TrustP!HandlerType,
               Trust!ReceiverType, TrustP!ReceiverType, Trust!PendType, TrustP!PendType,
               Trust!AddType, TrustP!AddType, Trust!StatusType, TrustP!StatusType,
               Trust!Max, TrustP!Max, Trust!Last, TrustP!Last, Trust!Cardinality,
               TrustP!Cardinality
  <2> QED BY <1>3, <1>4, <1>5, <1>6, <1>7, <1>8, <1>9, <1>10 DEF Trust!Next, TrustP!Next
<1> QED BY <1>1, <1>2, <1>11

LEMMA PortsStart == Tunnel!Init => PortsInv /\ StreamsInv
<1>1. Tunnel!Init => PortsInv
  BY DEF Tunnel!Init, PortsInv
<1>2. Tunnel!Init => StreamsInv
  BY DEF Tunnel!Init, StreamsInv
<1> QED BY <1>1, <1>2

LEMMA TrustTypes ==
    /\ Trust!Init => TrustP!TypeInv
    /\ TrustP!TypeInv /\ [Trust!Next]_(Trust!vars) => TrustP!TypeInv'
    /\ TrustP!TypeInv => Trust!TypeOK
<1>1. TrustP!ConstantsAssumption
  BY TrustAssumption, SetupAssumption DEF TrustP!ConstantsAssumption
<1>2. Trust!Init => TrustP!TypeInv
  BY <1>1, SameTrust, TrustP!InitType DEF TrustP!ConstantsAssumption
<1>3. Trust!vars = TrustP!vars /\ (UNCHANGED Trust!vars => UNCHANGED TrustP!vars)
  BY DEF Trust!vars, Trust!serverVars, Trust!feedVars, Trust!diskVars, Trust!nodeVars,
         TrustP!vars, TrustP!serverVars, TrustP!feedVars, TrustP!diskVars, TrustP!nodeVars
<1>4. [Trust!Next]_(Trust!vars) => [TrustP!Next]_(TrustP!vars)
  BY <1>3, SameTrust
<1>5. TrustP!TypeInv /\ [Trust!Next]_(Trust!vars) => TrustP!TypeInv'
  BY <1>1, <1>4, TrustP!NextType DEF TrustP!ConstantsAssumption
<1>6. TrustP!TypeInv => Trust!TypeOK
  BY SameTrust DEF TrustP!TypeInv
<1> QED BY <1>2, <1>5, <1>6

\* Every state the five exchanges reach is well typed: no port has two listeners, no stream
\* holds more than its capacity, a side that has ended has nothing left to do or to read, and
\* a profile or an entry of the server's table is of a login there was.
THEOREM ProcessesTypesAreCorrect == ProcessesSpec => []ProcessesTypeOK
<1> DEFINE TypesInv == /\ SetupInv /\ RpcInv /\ SessionTypes /\ DiskTypes
                       /\ TunnelInv /\ PortsInv /\ StreamsInv /\ PtyInv /\ TrustP!TypeInv
<1>1. ProcessesInit => TypesInv
  BY InitInv, RpcStart, SessionTypesStart, TunnelStart, PortsStart, PtyStart, TrustTypes
     DEF ProcessesInit
<1>2. TypesInv /\ [ProcessesNext]_processesVars => TypesInv'
  <2> SUFFICES ASSUME TypesInv, [ProcessesNext]_processesVars PROVE TypesInv'
    OBVIOUS
  <2>1. /\ [Next]_vars /\ [Rpc!Next]_(Rpc!vars) /\ [Tunnel!Next]_(Tunnel!vars)
        /\ [Pty!Next]_(Pty!vars) /\ [Trust!Next]_(Trust!vars)
    BY DEF ProcessesNext, processesVars, vars, rpcVars, Rpc!vars, tunnelVars, Tunnel!vars,
           ptyVars, Pty!vars, trustVars, Trust!vars, Trust!serverVars, Trust!feedVars,
           Trust!diskVars, Trust!nodeVars
  <2>2. SetupInv' /\ RpcInv' /\ TunnelInv' /\ PtyInv' /\ TrustP!TypeInv'
    BY <2>1, NextInv, RpcNext, TunnelNext, PtyStep, TrustTypes
  <2>3. SessionTypes' /\ DiskTypes'
    BY <2>1, SessionTypesNext
  <2>4. PortsInv' /\ StreamsInv'
    BY <2>1, PortsNext, StreamsNext, TunnelsAssumption
  <2> QED BY <2>2, <2>3, <2>4
<1>3. TypesInv => ProcessesTypeOK
  BY SessionTypesOK, TunnelTypesOK, PtyTypesOK, TrustTypes DEF SetupInv, ProcessesTypeOK
<1> HIDE DEF TypesInv
<1> QED BY <1>1, <1>2, <1>3, PTL DEF ProcessesSpec
================================================================================

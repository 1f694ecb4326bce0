----------------------------- MODULE UserMlsProofs -----------------------------
(***************************************************************************)
(* Safety of the MLS state a user keeps on the server, for any number of   *)
(* messages, sessions, key packages and restarts.                          *)
(*                                                                         *)
(* update_mls_data replaces the saved state blindly and the messages are   *)
(* acknowledged in a step of their own, so the proof rests on what is on   *)
(* its way between a client and its handler.  While a session holds the    *)
(* user's lock, the states it works with are ordered:                      *)
(*                                                                         *)
(*    saved, pending, the updates in up, the client's local state          *)
(*                                                                         *)
(* each contain the one before (OrderInv), and what one of them has        *)
(* processed beyond the saved state is acknowledged by it or by an update  *)
(* before it (CoverInv).                                                   *)
(***************************************************************************)
EXTENDS UserMls, MessageStoreProofs

Active == {"loop", "packages", "save", "acknowledge"}
Working == {"read", "result", "garbled"}

\* The state x is contained in the state y.
Below(x, y) == x.seen \subseteq y.seen /\ x.keys \subseteq y.keys

IsUpdate(object) == object.kind = "update"

\* An update acknowledges only what its state has processed, and offers only
\* key packages its state can open.
Sound(update) == update.acks \subseteq update.state.seen /\ update.keys \subseteq update.state.keys

\* The updates of a queue, from the state low on, each contain the one before.
Ordered(q, low) ==
    \A i \in 1 .. Len(q) : IsUpdate(q[i]) =>
        /\ Sound(q[i])
        /\ Below(low, q[i].state)
        /\ \A j \in 1 .. Len(q) : i < j /\ IsUpdate(q[j]) => Below(q[i].state, q[j].state)

\* All of them are contained in the state high.
Bounded(q, high) == \A i \in 1 .. Len(q) : IsUpdate(q[i]) => Below(q[i].state, high)

\* What the updates of a queue acknowledge, up to the i-th.
Acked(q, i) == {m \in Messages : \E j \in 1 .. i : IsUpdate(q[j]) /\ m \in q[j].acks}

\* Of the messages M, those an update has processed are in base or are
\* acknowledged by it or by one before it.
Covered(q, base, M) ==
    \A i \in 1 .. Len(q) : IsUpdate(q[i]) =>
        q[i].state.seen \cap M \subseteq base \cup Acked(q, i)

OwedToUser == {m \in Messages : <<m, User>> \in owed}

\* The state the handler has or is about to save, and what it acknowledges.
Low(s) == IF Updating(s) THEN pending[s].state ELSE saved
Base(s) == IF Updating(s) THEN pending[s].acks ELSE {}

\* Who holds the lock, and what a session has before it is served.
LockInv(s) ==
    /\ srv[s] \in Active => lock = s
    /\ srv[s] \notin Active => up[s] = << >>
    /\ Updating(s) <=> pending[s] # NoUpdate
    /\ srv[s] \in {"off", "lock"} => down[s] = << >> /\ cl[s] \in {"off", "state", "ended"}
    /\ cl[s] \in {"off", "state"} => up[s] = << >> /\ pending[s] = NoUpdate
    /\ cl[s] = "state" /\ srv[s] \in Active => down[s] # << >>
    /\ cl[s] = "state" /\ down[s] # << >> =>
           /\ Head(down[s]).kind = "state"
           /\ srv[s] \in Active => Head(down[s]).state = saved

OrderInv(s) ==
    /\ Updating(s) => /\ Sound(pending[s])
                      /\ Below(saved, pending[s].state)
                      /\ srv[s] = "acknowledge" => saved = pending[s].state
    /\ srv[s] \in Active => Ordered(up[s], Low(s))
    /\ srv[s] \in Active /\ cl[s] \in Working =>
           Bounded(up[s], local[s]) /\ Below(Low(s), local[s])
    /\ cl[s] \in Working => done[s] \subseteq local[s].seen
    /\ cl[s] \notin Working => done[s] = {}

\* No object was lost by an interrupted read: such a one stays at the head.
Intact(s) == up[s] # << >> => Head(up[s]).kind # "damaged"

CoverInv(s) ==
    ~broken /\ srv[s] \in Active =>
        /\ Updating(s) => pending[s].state.seen \cap OwedToUser \subseteq pending[s].acks
        /\ srv[s] \in {"packages", "save"} => pool \subseteq pending[s].state.keys
        /\ Intact(s) =>
               /\ Covered(up[s], Base(s), OwedToUser)
               /\ cl[s] \in Working =>
                      local[s].seen \cap OwedToUser
                          \subseteq done[s] \cup Base(s) \cup Acked(up[s], Len(up[s]))

\* Only what is stored is on its way, processed or saved.
DownKnown(q, C) ==
    \A i \in 1 .. Len(q) : /\ q[i].kind = "message" => q[i].msg \in C
                           /\ q[i].kind = "state" => q[i].state.seen \subseteq C
UpKnown(q, C) == \A i \in 1 .. Len(q) : IsUpdate(q[i]) => q[i].state.seen \subseteq C

FeedKnown(s) == Within(batch[s], Committed) /\ Within(channel[s], Committed)

SessionKnown(s) ==
    /\ DownKnown(down[s], Committed)
    /\ UpKnown(up[s], Committed)
    /\ pending[s] # NoUpdate => pending[s].state.seen \subseteq Committed
    /\ local[s].seen \subseteq Committed

KnownInv ==
    /\ StoreKnown
    /\ saved.seen \subseteq Committed
    /\ \A s \in Streams : FeedKnown(s) /\ SessionKnown(s)

UserInv ==
    /\ StateIsComplete
    /\ KnownInv
    /\ \A s \in Streams : LockInv(s) /\ OrderInv(s) /\ CoverInv(s)

(***************************************************************************)
(* Types.                                                                  *)
(***************************************************************************)
LEMMA ObjectFacts ==
    /\ \A x \in MlsState : [kind |-> "state", state |-> x] \in Down
    /\ \A m \in Messages : [kind |-> "message", msg |-> m] \in Down
    /\ [kind |-> "result"] \in Down /\ [kind |-> "goodbye"] \in Down
    /\ \A x \in MlsState, K \in SUBSET Packages, M \in SUBSET Messages :
          /\ [kind |-> "update", state |-> x, keys |-> K, acks |-> M] \in StateUpdates
          /\ [kind |-> "update", state |-> x, keys |-> K, acks |-> M] \in Up
    /\ [kind |-> "goodbye"] \in Up /\ [kind |-> "damaged"] \in Up
    /\ Empty \in MlsState
BY DEF Down, Up, StateUpdates, MlsState, Empty

LEMMA CountFacts ==
    ASSUME NEW T \in SUBSET Packages
    PROVE  /\ Cardinality(T) \in 0 .. Cardinality(Packages)
           /\ [kind |-> "count", n |-> Cardinality(T)] \in Down
<1>1. Cardinality(T) \in Nat /\ Cardinality(Packages) \in Nat
      /\ Cardinality(T) <= Cardinality(Packages)
  BY UserAssumption, FS_Subset, FS_CardinalityType
<1>2. Cardinality(T) \in 0 .. Cardinality(Packages)
  BY <1>1
<1> QED BY <1>2 DEF Down

\* Every object the server writes is of one kind.
LEMMA DownFacts ==
    ASSUME NEW x \in Down
    PROVE  /\ x.kind \in {"state", "message", "count", "result", "goodbye"}
           /\ x.kind = "state" => x.state \in MlsState
           /\ x.kind = "message" => x.msg \in Messages
BY DEF Down

LEMMA UpFacts ==
    ASSUME NEW x \in Up
    PROVE  /\ x.kind \in {"update", "goodbye", "damaged"}
           /\ x.kind = "update" => x \in StateUpdates
BY DEF Up, StateUpdates

LEMMA UpdateFacts ==
    ASSUME NEW x \in StateUpdates
    PROVE  /\ x.kind = "update" /\ x.state \in MlsState /\ x \in Up /\ x # NoUpdate
           /\ x.keys \in SUBSET Packages /\ x.acks \in SUBSET Messages
BY DEF Up, StateUpdates, NoUpdate

LEMMA ToClientType ==
    ASSUME TypeOK, NEW s \in Streams, NEW x \in Down, ToClient(s, x)
    PROVE  down' \in [Streams -> Seq(Down)]
<1>1. Append(down[s], x) \in Seq(Down)
  BY DEF TypeOK
<1> QED BY <1>1 DEF ToClient, TypeOK

LEMMA ToServerType ==
    ASSUME TypeOK, NEW s \in Streams, NEW x \in Up, ToServer(s, x)
    PROVE  up' \in [Streams -> Seq(Up)]
<1>1. Append(up[s], x) \in Seq(Up)
  BY DEF TypeOK
<1> QED BY <1>1 DEF ToServer, TypeOK

LEMMA ReadType ==
    ASSUME TypeOK, NEW s \in Streams, Read(s), down[s] # << >>
    PROVE  down' \in [Streams -> Seq(Down)]
<1>1. down[s] \in Seq(Down)
  BY DEF TypeOK
<1>2. Tail(down[s]) \in Seq(Down)
  BY <1>1
<1> QED BY <1>2 DEF Read, TypeOK

LEMMA InterruptedType ==
    ASSUME TypeOK, NEW s \in Streams, NEW u \in Interrupted(s),
           up' = [up EXCEPT ![s] = u]
    PROVE  up' \in [Streams -> Seq(Up)]
<1>1. up[s] \in Seq(Up) /\ [kind |-> "damaged"] \in Up
  BY ObjectFacts DEF TypeOK
<1>2. up[s] # << >> => <<[kind |-> "damaged"]>> \o Tail(up[s]) \in Seq(Up)
  <2>1. <<[kind |-> "damaged"]>> \in Seq(Up)
    BY <1>1
  <2> QED BY <1>1, <2>1
<1>3. u \in Seq(Up)
  BY <1>1, <1>2 DEF Interrupted
<1> QED BY <1>3 DEF TypeOK

\* What has arrived is a number, so that the bound on it is one.
LEMMA ArrivedFacts ==
    ASSUME TypeOK, MayArrive
    PROVE  counts + 1 \in 0 .. MaxArrivals /\ restarts + 1 \in 0 .. MaxArrivals
<1> DEFINE M == {m \in Messages : adding[m] # "new"}
           S == {s \in Streams : srv[s] # "off"}
<1>1. Cardinality(M) \in Nat
  <2>1. M \in SUBSET Messages
    OBVIOUS
  <2>2. IsFiniteSet(M)
    BY <2>1, StoreAssumption, FS_Subset
  <2> QED BY <2>2, FS_CardinalityType
<1>2. Cardinality(S) \in Nat
  <2>1. S \in SUBSET Streams
    OBVIOUS
  <2>2. IsFiniteSet(S)
    BY <2>1, StoreAssumption, FS_Subset
  <2> QED BY <2>2, FS_CardinalityType
<1>3. Cardinality(M) + Cardinality(S) + counts + restarts < MaxArrivals
  BY DEF MayArrive
<1>4. counts \in Nat /\ restarts \in Nat /\ MaxArrivals \in Nat
  BY UserAssumption DEF TypeOK
<1> HIDE DEF M, S
<1> QED BY <1>1, <1>2, <1>3, <1>4

LEMMA InitType == Init => TypeOK /\ StoreKnown
<1> SUFFICES ASSUME Init PROVE TypeOK /\ StoreKnown
  OBVIOUS
<1>1. /\ << >> \in Seq(Messages) /\ << >> \in Seq(Down) /\ << >> \in Seq(Up) /\ Len(<< >>) = 0
      /\ Empty \in MlsState
  BY ObjectFacts
<1>2. StoreTypeOK /\ StoreKnown
  BY StoreInitType DEF Init
<1>3. 0 \in 0 .. MaxArrivals /\ 0 <= ForwardCap
  BY UserAssumption
<1>4. \A s \in Streams : Len(channel[s]) <= ForwardCap
  BY <1>1, <1>3 DEF Init
<1>5. lock \in Streams \cup {None} /\ pool \subseteq Packages /\ made \subseteq Packages
  BY DEF Init
<1> QED BY <1>1, <1>2, <1>3, <1>4, <1>5 DEF Init, TypeOK

(* The task that streams the messages *)

LEMMA LoadType ==
    ASSUME TypeOK, StoreKnown, NEW s \in Streams, Load(s) \/ LoadFails(s)
    PROVE  TypeOK' /\ StoreKnown' /\ Committed' = Committed
<1>1. StoreTypeOK' /\ StoreKnown' /\ Committed' = Committed
  BY StoreFrame DEF TypeOK, Load, LoadFails
<1>2. batch' \in [Streams -> Seq(Messages)]
  <2>1. OwedTo(User) \in SUBSET Messages
    BY DEF TypeOK, StoreTypeOK, OwedTo
  <2>2. \A f \in Loads(OwedTo(User)) : f \in Seq(Messages)
    BY <2>1, LoadsFacts
  <2> QED BY <2>2 DEF TypeOK, Load, LoadFails
<1> QED BY <1>1, <1>2 DEF TypeOK, Load, LoadFails, feedFrame

LEMMA SubscribeType ==
    ASSUME TypeOK, StoreKnown, NEW s \in Streams, Subscribe(s)
    PROVE  TypeOK' /\ StoreKnown' /\ Committed' = Committed
<1>1. StoreTypeOK' /\ StoreKnown' /\ Committed' = Committed
  BY SubscribeStore DEF TypeOK, Subscribe
<1> QED BY <1>1 DEF TypeOK, Subscribe, feedFrame

\* A message joins the channel to the handler, which has room for it.
LEMMA ChannelType ==
    ASSUME TypeOK, NEW s \in Streams, NEW m \in Messages, HasRoom(s),
           channel' = [channel EXCEPT ![s] = Append(@, m)]
    PROVE  /\ channel' \in [Streams -> Seq(Messages)]
           /\ \A t \in Streams : Len(channel'[t]) <= ForwardCap
<1>1. channel[s] \in Seq(Messages) /\ Len(channel[s]) < ForwardCap /\ ForwardCap \in Nat
  BY UserAssumption DEF TypeOK, HasRoom
<1>2. Append(channel[s], m) \in Seq(Messages) /\ Len(Append(channel[s], m)) <= ForwardCap
  BY <1>1
<1> QED BY <1>2 DEF TypeOK

LEMMA ForwardType ==
    ASSUME TypeOK, StoreKnown, NEW s \in Streams,
           ForwardLoaded(s) \/ ForwardLive(s) \/ Unfed(s)
    PROVE  TypeOK' /\ StoreKnown' /\ Committed' = Committed
<1>1. StoreTypeOK' /\ StoreKnown' /\ Committed' = Committed
  <2>1. StoreTypeOK
    BY DEF TypeOK
  <2> QED BY <2>1, SubStore DEF ForwardLoaded, ForwardLive, Unfed
<1>2. batch[s] \in Seq(Messages) /\ sub[s].queue \in Seq(Messages)
  BY DEF TypeOK, StoreTypeOK
<1>3. batch' \in [Streams -> Seq(Messages)]
  <2>1. << >> \in Seq(Messages) /\ (batch[s] # << >> => Tail(batch[s]) \in Seq(Messages))
    BY <1>2
  <2> QED BY <2>1 DEF TypeOK, ForwardLoaded, ForwardLive, Unfed
<1>4. /\ channel' \in [Streams -> Seq(Messages)]
      /\ \A t \in Streams : Len(channel'[t]) <= ForwardCap
  <2>1. CASE channel' = channel
    BY <2>1 DEF TypeOK
  <2>2. CASE channel' = [channel EXCEPT ![s] = Append(@, Head(batch[s]))] /\ HasRoom(s)
             /\ batch[s] # << >>
    <3>1. Head(batch[s]) \in Messages
      BY <1>2, <2>2
    <3> QED BY <2>2, <3>1, ChannelType
  <2>3. CASE channel' = [channel EXCEPT ![s] = Append(@, Head(sub[s].queue))] /\ HasRoom(s)
             /\ sub[s].queue # << >>
    <3>1. Head(sub[s].queue) \in Messages
      BY <1>2, <2>3
    <3> QED BY <2>3, <3>1, ChannelType
  <2> QED BY <2>1, <2>2, <2>3 DEF ForwardLoaded, ForwardLive, Unfed
<1>5. /\ feed' \in [Streams -> {"off", "load", "subscribe", "forward", "ended"}]
      /\ UNCHANGED feedFrame
  BY DEF TypeOK, ForwardLoaded, ForwardLive, Unfed
<1> QED BY <1>1, <1>3, <1>4, <1>5 DEF TypeOK, feedFrame

(* The handler *)

LEMMA ConnectType ==
    ASSUME TypeOK, StoreKnown, NEW s \in Streams, Connect(s) \/ Lock(s)
    PROVE  TypeOK' /\ StoreKnown' /\ Committed' = Committed
<1>1. StoreTypeOK' /\ StoreKnown' /\ Committed' = Committed
  BY StoreFrame DEF TypeOK, Connect, Lock
<1>2. CASE Connect(s)
  BY <1>1, <1>2 DEF TypeOK, Connect
<1>3. CASE Lock(s)
  <2>1. [kind |-> "state", state |-> saved] \in Down
    BY ObjectFacts DEF TypeOK
  <2>2. down' \in [Streams -> Seq(Down)]
    BY <1>3, <2>1, ToClientType DEF Lock
  <2> QED BY <1>1, <1>3, <2>2 DEF TypeOK, Lock
<1> QED BY <1>2, <1>3

LEMMA SendType ==
    ASSUME TypeOK, StoreKnown, NEW s \in Streams, SendMessage(s) \/ SendCount(s)
    PROVE  TypeOK' /\ StoreKnown' /\ Committed' = Committed
<1>1. StoreTypeOK' /\ StoreKnown' /\ Committed' = Committed
  BY StoreFrame DEF TypeOK, SendMessage, SendCount
<1>2. up' \in [Streams -> Seq(Up)]
  BY InterruptedType DEF SendMessage, SendCount
<1>3. CASE SendMessage(s)
  <2>1. channel[s] \in Seq(Messages) /\ channel[s] # << >> /\ Len(channel[s]) <= ForwardCap
        /\ ForwardCap \in Nat
    BY <1>3, UserAssumption DEF TypeOK, SendMessage
  <2>2. /\ Head(channel[s]) \in Messages /\ Tail(channel[s]) \in Seq(Messages)
        /\ Len(Tail(channel[s])) <= ForwardCap
    BY <2>1, TailQueue
  <2>3. down' \in [Streams -> Seq(Down)]
    BY <1>3, <2>2, ObjectFacts, ToClientType DEF SendMessage
  <2> QED BY <1>1, <1>2, <1>3, <2>2, <2>3 DEF TypeOK, SendMessage
<1>4. CASE SendCount(s)
  <2>1. down' \in [Streams -> Seq(Down)]
    BY <1>4, CountFacts, ToClientType DEF SendCount, TypeOK
  <2>2. counts' \in 0 .. MaxArrivals
    BY <1>4, ArrivedFacts DEF SendCount
  <2> QED BY <1>1, <1>2, <1>4, <2>1, <2>2 DEF TypeOK, SendCount
<1> QED BY <1>3, <1>4

LEMMA ReleaseType ==
    ASSUME TypeOK, NEW s \in Streams, Release(s)
    PROVE  /\ srv' \in [Streams -> {"off", "lock", "loop", "packages", "save", "acknowledge",
                                    "ended"}]
           /\ lock' \in Streams \cup {None}
           /\ pending' \in [Streams -> StateUpdates \cup {NoUpdate}]
           /\ channel' \in [Streams -> Seq(Messages)]
           /\ \A t \in Streams : Len(channel'[t]) <= ForwardCap
           /\ up' \in [Streams -> Seq(Up)]
<1>1. << >> \in Seq(Messages) /\ << >> \in Seq(Up) /\ Len(<< >>) = 0 /\ ForwardCap \in Nat
  BY UserAssumption
<1> QED BY <1>1 DEF TypeOK, Release

LEMMA EndType ==
    ASSUME TypeOK, StoreKnown, NEW s \in Streams,
           Finish(s) \/ Fail(s) \/ ClientLost(s) \/ UpdateFails(s)
    PROVE  TypeOK' /\ StoreKnown' /\ Committed' = Committed
<1>1. StoreTypeOK' /\ StoreKnown' /\ Committed' = Committed
  BY StoreFrame DEF TypeOK, Finish, Fail, ClientLost, UpdateFails, returnFrame
<1>2. Release(s)
  BY DEF Finish, Fail, ClientLost, UpdateFails
<1>3. down' \in [Streams -> Seq(Down)]
  <2>1. down' = down => down' \in [Streams -> Seq(Down)]
    BY DEF TypeOK
  <2> QED BY <2>1, ObjectFacts, ToClientType DEF Finish, Fail, ClientLost, UpdateFails
<1>4. /\ UNCHANGED <<saved, pool, feed, batch, cl, local, done, made, counts, restarts>>
      /\ broken' \in BOOLEAN
  BY DEF TypeOK, Finish, Fail, ClientLost, UpdateFails, returnFrame
<1> QED BY <1>1, <1>2, <1>3, <1>4, ReleaseType DEF TypeOK

LEMMA ReadUpdateType ==
    ASSUME TypeOK, StoreKnown, NEW s \in Streams, ReadUpdate(s)
    PROVE  TypeOK' /\ StoreKnown' /\ Committed' = Committed
<1>1. StoreTypeOK' /\ StoreKnown' /\ Committed' = Committed
  BY StoreFrame DEF TypeOK, ReadUpdate
<1>2. up[s] \in Seq(Up) /\ up[s] # << >>
  BY DEF TypeOK, ReadUpdate
<1>3. Head(up[s]) \in StateUpdates /\ Tail(up[s]) \in Seq(Up)
  BY <1>2, TailQueue, UpFacts DEF ReadUpdate
<1> QED BY <1>1, <1>3 DEF TypeOK, ReadUpdate

LEMMA UpdateStepType ==
    ASSUME TypeOK, StoreKnown, NEW s \in Streams, UpdateStep(s), pending[s] # NoUpdate
    PROVE  TypeOK' /\ StoreKnown' /\ Committed' = Committed
<1>1. /\ pending[s] \in StateUpdates /\ pending[s].state \in MlsState
      /\ pending[s].keys \in SUBSET Packages
  BY UpdateFacts DEF TypeOK
<1>2. CASE AddKeyPackage(s)
  <2>1. StoreTypeOK' /\ StoreKnown' /\ Committed' = Committed
    BY <1>2, StoreFrame DEF TypeOK, AddKeyPackage
  <2>2. \A K \in SUBSET Packages : [pending[s] EXCEPT !.keys = K] \in StateUpdates
    BY <1>1 DEF StateUpdates
  <2>3. pending' \in [Streams -> StateUpdates \cup {NoUpdate}]
    <3>1. CASE pending' = pending
      BY <3>1 DEF TypeOK
    <3>2. ASSUME NEW k \in pending[s].keys,
                 pending' = [pending EXCEPT ![s].keys = @ \ {k}]
          PROVE  pending' \in [Streams -> StateUpdates \cup {NoUpdate}]
      <4>1. [pending[s] EXCEPT !.keys = pending[s].keys \ {k}] \in StateUpdates
        BY <1>1, <2>2
      <4> QED BY <3>2, <4>1 DEF TypeOK
    <3> QED BY <1>2, <3>1, <3>2 DEF AddKeyPackage
  <2>4. pool' \subseteq Packages
    BY <1>1, <1>2 DEF TypeOK, AddKeyPackage
  <2>5. srv' \in [Streams -> {"off", "lock", "loop", "packages", "save", "acknowledge", "ended"}]
    BY <1>2 DEF TypeOK, AddKeyPackage
  <2> QED BY <1>2, <2>1, <2>3, <2>4, <2>5 DEF TypeOK, AddKeyPackage
<1>3. CASE Save(s)
  <2>1. StoreTypeOK' /\ StoreKnown' /\ Committed' = Committed
    BY <1>3, StoreFrame DEF TypeOK, Save
  <2> QED BY <1>1, <1>3, <2>1 DEF TypeOK, Save
<1>4. CASE Acknowledge(s)
  <2>1. StoreTypeOK' /\ StoreKnown' /\ Committed' = Committed
    BY <1>4, DeleteStore DEF TypeOK, Acknowledge, DropReceivers, DropMessages
  <2>2. down' \in [Streams -> Seq(Down)]
    BY <1>4, ObjectFacts, ToClientType DEF Acknowledge
  <2> QED BY <1>4, <2>1, <2>2 DEF TypeOK, Acknowledge
<1> QED BY <1>2, <1>3, <1>4 DEF UpdateStep

(* The client *)

LEMMA SendUpdateType ==
    ASSUME TypeOK, NEW s \in Streams, NEW x \in MlsState, NEW M \in SUBSET Messages,
           NEW K \in SUBSET Packages, SendUpdate(s, x, M, K)
    PROVE  /\ up' \in [Streams -> Seq(Up)]
           /\ done' \in [Streams -> SUBSET Messages]
           /\ cl' \in [Streams -> {"off", "state", "read", "result", "garbled", "ended"}]
<1>1. [kind |-> "update", state |-> x, keys |-> K, acks |-> M] \in Up
  BY ObjectFacts
<1>2. up' \in [Streams -> Seq(Up)]
  BY <1>1, ToServerType DEF SendUpdate
<1> QED BY <1>2 DEF SendUpdate, TypeOK

LEMMA ClientEndsType ==
    ASSUME TypeOK, NEW s \in Streams, ClientEnds(s)
    PROVE  /\ cl' \in [Streams -> {"off", "state", "read", "result", "garbled", "ended"}]
           /\ down' \in [Streams -> Seq(Down)]
           /\ local' \in [Streams -> MlsState]
           /\ done' \in [Streams -> SUBSET Messages]
<1>1. << >> \in Seq(Down) /\ Empty \in MlsState
  BY ObjectFacts
<1> QED BY <1>1 DEF ClientEnds, TypeOK

\* A step of the client changes what is its own, and writes to the handler.
LEMMA ClientFrameType ==
    ASSUME TypeOK, StoreKnown, UNCHANGED clientFrame,
           up' \in [Streams -> Seq(Up)],
           down' \in [Streams -> Seq(Down)],
           cl' \in [Streams -> {"off", "state", "read", "result", "garbled", "ended"}],
           local' \in [Streams -> MlsState],
           done' \in [Streams -> SUBSET Messages],
           made' \subseteq Packages
    PROVE  TypeOK' /\ StoreKnown' /\ Committed' = Committed
<1>1. StoreTypeOK' /\ StoreKnown' /\ Committed' = Committed
  BY StoreFrame DEF TypeOK, clientFrame
<1> QED BY <1>1 DEF TypeOK, clientFrame

LEMMA ReadStateType ==
    ASSUME TypeOK, StoreKnown, NEW s \in Streams, ReadState(s), Head(down[s]).kind = "state"
    PROVE  TypeOK' /\ StoreKnown' /\ Committed' = Committed
<1>1. down[s] \in Seq(Down) /\ down[s] # << >>
  BY DEF TypeOK, ReadState
<1>2. Head(down[s]).state \in MlsState
  BY <1>1, TailQueue, DownFacts
<1>3. local' \in [Streams -> MlsState]
  BY <1>2 DEF TypeOK, ReadState
<1>4. down' \in [Streams -> Seq(Down)]
  BY <1>1, ReadType DEF ReadState
<1>5. /\ UNCHANGED <<clientFrame, up, done, made>>
      /\ cl' \in [Streams -> {"off", "state", "read", "result", "garbled", "ended"}]
  BY DEF TypeOK, ReadState
<1> QED BY <1>3, <1>4, <1>5, ClientFrameType DEF TypeOK

\* The states a client works on after a message and after new key packages.
Saw(x, m) == [x EXCEPT !.seen = @ \cup {m}]
Holds(x, K) == [x EXCEPT !.keys = @ \cup K]

LEMMA StateFacts ==
    ASSUME NEW x \in MlsState, NEW m \in Messages, NEW K \in SUBSET Packages
    PROVE  /\ Saw(x, m) \in MlsState /\ Saw(x, m).seen = x.seen \cup {m} /\ Saw(x, m).keys = x.keys
           /\ Holds(x, K) \in MlsState /\ Holds(x, K).keys = x.keys \cup K
           /\ Holds(x, K).seen = x.seen
           /\ Below(x, Saw(x, m)) /\ Below(x, Holds(x, K))
BY DEF MlsState, Saw, Holds, Below

\* What a client does with a message.
Processes(s, m) ==
    /\ cl[s] = "read" /\ down[s] # << >> /\ Head(down[s]).kind = "message"
    /\ m = Head(down[s]).msg /\ m \in Messages /\ m \notin local[s].seen
    /\ local' = [local EXCEPT ![s] = Saw(local[s], m)]
    /\ \/ SendUpdate(s, Saw(local[s], m), done[s] \cup {m}, {})
       \/ done' = [done EXCEPT ![s] = @ \cup {m}] /\ UNCHANGED <<up, cl>>
    /\ Read(s)
    /\ UNCHANGED <<clientFrame, made>>

LEMMA ReadMessageIs ==
    ASSUME TypeOK, NEW s \in Streams, ReadMessage(s)
    PROVE  \E m \in Messages : Processes(s, m)
<1>1. down[s] \in Seq(Down) /\ down[s] # << >> /\ Head(down[s]).kind = "message"
  BY DEF TypeOK, ReadMessage
<1>2. PICK m \in Messages : m = Head(down[s]).msg
  BY <1>1, TailQueue, DownFacts
<1>3. Processes(s, m)
  BY <1>1, <1>2 DEF ReadMessage, Processes, Saw
<1> QED BY <1>3

LEMMA ReadMessageType ==
    ASSUME TypeOK, StoreKnown, NEW s \in Streams, ReadMessage(s)
    PROVE  TypeOK' /\ StoreKnown' /\ Committed' = Committed
<1>1. PICK m \in Messages : Processes(s, m)
  BY ReadMessageIs
<1>2. /\ local[s] \in MlsState /\ Saw(local[s], m) \in MlsState
      /\ done[s] \cup {m} \in SUBSET Messages /\ {} \in SUBSET Packages
  BY StateFacts DEF TypeOK
<1>3. local' \in [Streams -> MlsState]
  BY <1>1, <1>2 DEF TypeOK, Processes
<1>4. down' \in [Streams -> Seq(Down)]
  BY <1>1, ReadType DEF Processes
<1>5. /\ up' \in [Streams -> Seq(Up)]
      /\ done' \in [Streams -> SUBSET Messages]
      /\ cl' \in [Streams -> {"off", "state", "read", "result", "garbled", "ended"}]
  <2>1. CASE SendUpdate(s, Saw(local[s], m), done[s] \cup {m}, {})
    BY <1>2, <2>1, SendUpdateType
  <2>2. CASE done' = [done EXCEPT ![s] = @ \cup {m}] /\ UNCHANGED <<up, cl>>
    BY <1>2, <2>2 DEF TypeOK
  <2> QED BY <1>1, <2>1, <2>2 DEF Processes
<1>6. UNCHANGED clientFrame /\ made' \subseteq Packages
  BY <1>1 DEF TypeOK, Processes
<1> QED BY <1>3, <1>4, <1>5, <1>6, ClientFrameType

\* What a client does with a number of key packages that is too low.
Refills(s, K) ==
    /\ local' = [local EXCEPT ![s] = Holds(local[s], K)]
    /\ SendUpdate(s, Holds(local[s], K), done[s], K)
    /\ made' = made \cup K

LEMMA ReadCountIs ==
    ASSUME NEW s \in Streams, ReadCount(s)
    PROVE  /\ cl[s] = "read" /\ down[s] # << >> /\ Head(down[s]).kind = "count"
           /\ \/ \E K \in SUBSET Packages : Refills(s, K)
              \/ UNCHANGED <<local, up, done, made, cl>>
           /\ Read(s)
           /\ UNCHANGED clientFrame
<1>1. /\ cl[s] = "read" /\ down[s] # << >> /\ Head(down[s]).kind = "count"
      /\ Read(s) /\ UNCHANGED clientFrame
  BY DEF ReadCount
<1>2. ASSUME NEW K \in SUBSET (Packages \ made),
             local' = [local EXCEPT ![s] = [local[s] EXCEPT !.keys = @ \cup K]],
             SendUpdate(s, [local[s] EXCEPT !.keys = @ \cup K], done[s], K),
             made' = made \cup K
      PROVE  Refills(s, K) /\ K \in SUBSET Packages
  BY <1>2 DEF Refills, Holds
<1>3. (\E K \in SUBSET Packages : Refills(s, K)) \/ UNCHANGED <<local, up, done, made, cl>>
  BY <1>2, Zenon DEF ReadCount
<1> QED BY <1>1, <1>3

LEMMA ReadCountType ==
    ASSUME TypeOK, StoreKnown, NEW s \in Streams, ReadCount(s)
    PROVE  TypeOK' /\ StoreKnown' /\ Committed' = Committed
<1>1. down' \in [Streams -> Seq(Down)]
  BY ReadCountIs, ReadType
<1>2. CASE UNCHANGED <<local, up, done, made, cl>>
  BY <1>1, <1>2, ReadCountIs, ClientFrameType DEF TypeOK
<1>3. ASSUME NEW K \in SUBSET Packages, Refills(s, K)
      PROVE  TypeOK' /\ StoreKnown' /\ Committed' = Committed
  <2>1. local[s] \in MlsState /\ done[s] \in SUBSET Messages /\ Holds(local[s], K) \in MlsState
    <3>1. local[s] \in MlsState /\ done[s] \in SUBSET Messages
      BY DEF TypeOK
    <3> QED BY <3>1 DEF Holds, MlsState
  <2>2. local' \in [Streams -> MlsState] /\ made' \subseteq Packages
    BY <1>3, <2>1 DEF TypeOK, Refills
  <2>3. /\ up' \in [Streams -> Seq(Up)]
        /\ done' \in [Streams -> SUBSET Messages]
        /\ cl' \in [Streams -> {"off", "state", "read", "result", "garbled", "ended"}]
    BY <1>3, <2>1, SendUpdateType DEF Refills
  <2> QED BY <1>1, <2>2, <2>3, ReadCountIs, ClientFrameType
<1> QED BY <1>2, <1>3, ReadCountIs

LEMMA TimeoutType ==
    ASSUME TypeOK, StoreKnown, NEW s \in Streams, Timeout(s) \/ LoseTrack(s)
    PROVE  TypeOK' /\ StoreKnown' /\ Committed' = Committed
<1>1. local[s] \in MlsState /\ done[s] \in SUBSET Messages /\ {} \in SUBSET Packages
  BY DEF TypeOK
<1>2. CASE Timeout(s)
  <2>1. /\ up' \in [Streams -> Seq(Up)]
        /\ done' \in [Streams -> SUBSET Messages]
        /\ cl' \in [Streams -> {"off", "state", "read", "result", "garbled", "ended"}]
    BY <1>1, <1>2, SendUpdateType DEF Timeout
  <2> QED BY <1>2, <2>1, ClientFrameType DEF TypeOK, Timeout
<1>3. CASE LoseTrack(s)
  <2>1. [kind |-> "update", state |-> local[s], keys |-> {}, acks |-> done[s]] \in Up
    BY <1>1, ObjectFacts
  <2>2. up' \in [Streams -> Seq(Up)]
    <3>1. CASE up' = up
      BY <3>1 DEF TypeOK
    <3> QED BY <1>3, <2>1, <3>1, ToServerType DEF LoseTrack
  <2>3. /\ done' \in [Streams -> SUBSET Messages]
        /\ cl' \in [Streams -> {"off", "state", "read", "result", "garbled", "ended"}]
    BY <1>3 DEF TypeOK, LoseTrack
  <2> QED BY <1>3, <2>2, <2>3, ClientFrameType DEF TypeOK, LoseTrack
<1> QED BY <1>2, <1>3

LEMMA ClientOtherType ==
    ASSUME TypeOK, StoreKnown, NEW s \in Streams, ReadResult(s) \/ Return(s) \/ Stop(s)
    PROVE  TypeOK' /\ StoreKnown' /\ Committed' = Committed
<1>1. CASE ReadResult(s)
  <2>1. /\ down' \in [Streams -> Seq(Down)]
        /\ cl' \in [Streams -> {"off", "state", "read", "result", "garbled", "ended"}]
    BY <1>1, ReadType DEF ReadResult, TypeOK
  <2> QED BY <1>1, <2>1, ClientFrameType DEF TypeOK, ReadResult
<1>2. CASE Return(s)
  BY <1>2, ClientEndsType, ClientFrameType DEF TypeOK, Return
<1>3. CASE Stop(s)
  <2>1. up' \in [Streams -> Seq(Up)]
    <3>1. CASE up' = up
      BY <3>1 DEF TypeOK
    <3> QED BY <1>3, <3>1, ObjectFacts, ToServerType DEF Stop
  <2> QED BY <1>3, <2>1, ClientEndsType, ClientFrameType DEF TypeOK, Stop
<1> QED BY <1>1, <1>2, <1>3

LEMMA RestartType ==
    ASSUME TypeOK, StoreKnown, Restart
    PROVE  TypeOK' /\ StoreKnown' /\ Committed' = Committed
<1>1. StoreTypeOK' /\ StoreKnown' /\ Committed' = Committed
  BY RestartStore DEF TypeOK, Restart
<1>2. /\ << >> \in Seq(Messages) /\ << >> \in Seq(Up) /\ Len(<< >>) = 0 /\ 0 <= ForwardCap
  BY UserAssumption
<1>3. restarts' \in 0 .. MaxArrivals
  BY ArrivedFacts DEF Restart
<1>4. broken' \in BOOLEAN /\ lock' \in Streams \cup {None}
  BY DEF Restart
<1>5. /\ srv' \in [Streams -> {"off", "lock", "loop", "packages", "save", "acknowledge", "ended"}]
      /\ feed' \in [Streams -> {"off", "load", "subscribe", "forward", "ended"}]
      /\ pending' \in [Streams -> StateUpdates \cup {NoUpdate}]
  BY DEF Restart, TypeOK
<1>6. /\ batch' \in [Streams -> Seq(Messages)] /\ channel' \in [Streams -> Seq(Messages)]
      /\ \A s \in Streams : Len(channel'[s]) <= ForwardCap
      /\ up' \in [Streams -> Seq(Up)]
  BY <1>2 DEF Restart
<1>7. UNCHANGED <<saved, pool, down, cl, local, done, made, counts>>
  BY DEF Restart
<1> QED BY <1>1, <1>3, <1>4, <1>5, <1>6, <1>7 DEF TypeOK

LEMMA StoreType ==
    ASSUME TypeOK, StoreKnown, Store \/ UsePackage
    PROVE  TypeOK' /\ StoreKnown' /\ Committed \subseteq Committed'
<1>1. CASE Store
  <2>1. StoreTypeOK' /\ StoreKnown' /\ Committed \subseteq Committed'
    BY <1>1, StoreStepStore DEF Store, TypeOK
  <2> QED BY <1>1, <2>1 DEF TypeOK, Store, otherVars, sessionVars
<1>2. CASE UsePackage
  <2>1. StoreTypeOK' /\ StoreKnown' /\ Committed' = Committed
    BY <1>2, StoreFrame DEF UsePackage, TypeOK
  <2> QED BY <1>2, <2>1 DEF TypeOK, UsePackage, sessionVars
<1> QED BY <1>1, <1>2

(***************************************************************************)
(* A step of one session leaves the others alone: only the session that    *)
(* holds the lock is served, so nothing it relies on changes beside it.    *)
(***************************************************************************)
SessionStep(s) ==
    \/ Connect(s) \/ FeedStep(s) \/ HandlerStep(s) \/ SendCount(s)
    \/ ClientStep(s) \/ Stop(s)

Quiet(t) ==
    /\ srv'[t] = srv[t] /\ pending'[t] = pending[t] /\ up'[t] = up[t] /\ down'[t] = down[t]
    /\ cl'[t] = cl[t] /\ local'[t] = local[t] /\ done'[t] = done[t]
    /\ srv[t] \in Active => /\ lock' = lock /\ saved' = saved /\ pool' = pool
                            /\ owed' = owed /\ broken' = broken

LEMMA ActiveFacts ==
    ASSUME TypeOK, NEW s \in Streams, LockInv(s)
    PROVE  /\ Updating(s) => srv[s] \in Active
           /\ srv[s] = "loop" => srv[s] \in Active
           /\ srv[s] \in Active => srv[s] = "loop" \/ Updating(s)
           /\ srv[s] \in Active => lock = s /\ lock # None
           /\ Updating(s) => pending[s] \in StateUpdates
           /\ None \notin Streams
<1>1. None \notin Streams
  BY StoreAssumption DEF None
<1> QED BY <1>1 DEF Active, Updating, LockInv, TypeOK

LEMMA ToClientOther ==
    ASSUME TypeOK, NEW s \in Streams, NEW t \in Streams, t # s, NEW x, ToClient(s, x)
    PROVE  down'[t] = down[t]
BY DEF ToClient, TypeOK

LEMMA ToServerOther ==
    ASSUME TypeOK, NEW s \in Streams, NEW t \in Streams, t # s, NEW x, ToServer(s, x)
    PROVE  up'[t] = up[t]
BY DEF ToServer, TypeOK

LEMMA SendUpdateOther ==
    ASSUME TypeOK, NEW s \in Streams, NEW t \in Streams, t # s, NEW x, NEW M, NEW K,
           SendUpdate(s, x, M, K)
    PROVE  up'[t] = up[t] /\ done'[t] = done[t] /\ cl'[t] = cl[t]
<1>1. up'[t] = up[t]
  BY ToServerOther DEF SendUpdate
<1> QED BY <1>1 DEF SendUpdate, TypeOK

LEMMA ReleaseOther ==
    ASSUME TypeOK, NEW s \in Streams, NEW t \in Streams, t # s, LockInv(t), Release(s)
    PROVE  /\ srv'[t] = srv[t] /\ pending'[t] = pending[t] /\ up'[t] = up[t]
           /\ srv[t] \in Active => lock' = lock
BY DEF Release, TypeOK, LockInv

LEMMA FeedQuiet ==
    ASSUME NEW s, FeedStep(s)
    PROVE  UNCHANGED feedFrame /\ UNCHANGED <<stored, owed>>
BY DEF FeedStep, Load, LoadFails, Subscribe, SendSubscription, ForwardLoaded, ForwardLive, Unfed,
       storeVars

LEMMA HandlerQuiet ==
    ASSUME TypeOK, \A t \in Streams : LockInv(t), NEW s \in Streams, NEW t \in Streams, t # s,
           HandlerStep(s) \/ SendCount(s)
    PROVE  Quiet(t)
<1>1. srv[t] \in Active => lock = t /\ lock # s /\ lock # None /\ srv[s] \notin Active
  BY ActiveFacts DEF LockInv
<1>2. Updating(s) => srv[s] \in Active
  BY ActiveFacts
<1>3. CASE Lock(s)
  BY <1>1, <1>3, ToClientOther DEF Lock, Quiet, storeVars, TypeOK
<1>4. CASE SendMessage(s) \/ SendCount(s)
  <2>1. down'[t] = down[t] /\ up'[t] = up[t]
    BY <1>4, ToClientOther DEF SendMessage, SendCount, TypeOK
  <2> QED BY <1>4, <2>1 DEF SendMessage, SendCount, Quiet, storeVars
<1>5. CASE ReadUpdate(s)
  BY <1>5 DEF ReadUpdate, Quiet, storeVars, TypeOK
<1>6. CASE Finish(s) \/ Fail(s) \/ ClientLost(s)
  <2>1. down'[t] = down[t]
    BY <1>6, ToClientOther DEF Finish, Fail, ClientLost
  <2>2. Release(s)
    BY <1>6 DEF Finish, Fail, ClientLost
  <2>3. UNCHANGED <<saved, pool, owed, broken, cl, local, done>>
    BY <1>6 DEF Finish, Fail, ClientLost, returnFrame, storeVars
  <2> QED BY <2>1, <2>2, <2>3, ReleaseOther DEF Quiet
<1>7. CASE AddKeyPackage(s)
  <2>1. srv[s] \in Active /\ srv[t] \notin Active
    BY <1>1, <1>7 DEF AddKeyPackage, Active
  <2>2. srv'[t] = srv[t] /\ pending'[t] = pending[t]
    BY <1>7 DEF AddKeyPackage, TypeOK
  <2> QED BY <1>7, <2>1, <2>2 DEF AddKeyPackage, Quiet
<1>8. CASE Save(s)
  <2>1. srv[s] \in Active /\ srv[t] \notin Active
    BY <1>1, <1>8 DEF Save, Active
  <2> QED BY <1>8, <2>1 DEF Save, Quiet, TypeOK
<1>9. CASE Acknowledge(s)
  <2>1. srv[s] \in Active /\ srv[t] \notin Active
    BY <1>1, <1>9 DEF Acknowledge, Active
  <2>2. down'[t] = down[t]
    BY <1>9, ToClientOther DEF Acknowledge
  <2> QED BY <1>9, <2>1, <2>2 DEF Acknowledge, Quiet, TypeOK
<1>10. CASE UpdateFails(s)
  <2>1. srv[s] \in Active /\ srv[t] \notin Active
    BY <1>1, <1>2, <1>10 DEF UpdateFails
  <2>2. down'[t] = down[t]
    BY <1>10, ToClientOther DEF UpdateFails
  <2> QED BY <1>10, <2>1, <2>2, ReleaseOther DEF UpdateFails, Quiet, returnFrame
<1> QED BY <1>3, <1>4, <1>5, <1>6, <1>7, <1>8, <1>9, <1>10 DEF HandlerStep, UpdateStep

LEMMA ClientQuiet ==
    ASSUME TypeOK, NEW s \in Streams, NEW t \in Streams, t # s, ClientStep(s) \/ Stop(s)
    PROVE  Quiet(t)
<1>1. ASSUME UNCHANGED clientFrame, up'[t] = up[t], down'[t] = down[t], cl'[t] = cl[t],
             local'[t] = local[t], done'[t] = done[t]
      PROVE  Quiet(t)
  BY <1>1 DEF clientFrame, Quiet, storeVars
<1>2. Read(s) => down'[t] = down[t]
  BY DEF Read, TypeOK
<1>3. ClientEnds(s) => /\ down'[t] = down[t] /\ cl'[t] = cl[t]
                       /\ local'[t] = local[t] /\ done'[t] = done[t]
  BY DEF ClientEnds, TypeOK
<1>4. CASE ReadState(s) \/ ReadResult(s)
  BY <1>1, <1>2, <1>4 DEF ReadState, ReadResult, TypeOK
<1>5. CASE ReadMessage(s)
  <2>1. PICK m \in Messages : Processes(s, m)
    BY <1>5, ReadMessageIs
  <2>2. local'[t] = local[t] /\ down'[t] = down[t] /\ UNCHANGED clientFrame
    BY <1>2, <2>1 DEF Processes, TypeOK
  <2>3. up'[t] = up[t] /\ done'[t] = done[t] /\ cl'[t] = cl[t]
    BY <2>1, SendUpdateOther DEF Processes, TypeOK
  <2> QED BY <1>1, <2>2, <2>3
<1>6. CASE ReadCount(s)
  <2>1. down'[t] = down[t] /\ UNCHANGED clientFrame
    BY <1>2, <1>6, ReadCountIs
  <2>2. ASSUME NEW K \in SUBSET Packages, Refills(s, K)
        PROVE  up'[t] = up[t] /\ done'[t] = done[t] /\ cl'[t] = cl[t] /\ local'[t] = local[t]
    BY <2>2, SendUpdateOther DEF Refills, TypeOK
  <2>3. up'[t] = up[t] /\ done'[t] = done[t] /\ cl'[t] = cl[t] /\ local'[t] = local[t]
    BY <1>6, <2>2, ReadCountIs
  <2> QED BY <1>1, <2>1, <2>3
<1>7. CASE Timeout(s)
  BY <1>1, <1>7, SendUpdateOther DEF Timeout
<1>8. CASE LoseTrack(s)
  <2>1. up'[t] = up[t]
    BY <1>8, ToServerOther DEF LoseTrack
  <2> QED BY <1>1, <1>8, <2>1 DEF LoseTrack, TypeOK
<1>9. CASE Return(s)
  BY <1>1, <1>3, <1>9 DEF Return
<1>10. CASE Stop(s)
  <2>1. up'[t] = up[t]
    BY <1>10, ToServerOther DEF Stop
  <2> QED BY <1>1, <1>3, <1>10, <2>1 DEF Stop
<1> QED BY <1>4, <1>5, <1>6, <1>7, <1>8, <1>9, <1>10 DEF ClientStep

LEMMA OthersQuiet ==
    ASSUME TypeOK, \A t \in Streams : LockInv(t), NEW s \in Streams, NEW t \in Streams, t # s,
           SessionStep(s)
    PROVE  Quiet(t)
<1>1. CASE Connect(s)
  BY <1>1 DEF Connect, Quiet, storeVars, TypeOK
<1>2. CASE FeedStep(s)
  BY <1>2, FeedQuiet DEF feedFrame, Quiet
<1> QED BY <1>1, <1>2, HandlerQuiet, ClientQuiet DEF SessionStep

LEMMA QuietKeeps ==
    ASSUME NEW t \in Streams, LockInv(t), Quiet(t)
    PROVE  /\ LockInv(t)'
           /\ OrderInv(t) => OrderInv(t)'
           /\ CoverInv(t) => CoverInv(t)'
<1>1. LockInv(t)'
  BY DEF LockInv, Quiet, Updating
<1>2. OrderInv(t) => OrderInv(t)'
  <2>1. Updating(t)' = Updating(t)
    BY DEF Quiet, Updating
  <2>2. Updating(t) => srv[t] \in Active
    BY DEF Updating, Active
  <2>3. srv[t] \in Active => Low(t)' = Low(t)
    BY <2>1 DEF Low, Quiet
  <2> QED BY <2>1, <2>2, <2>3 DEF OrderInv, Quiet, Ordered, Bounded
<1>3. CoverInv(t) => CoverInv(t)'
  <2>1. Updating(t)' = Updating(t)
    BY DEF Quiet, Updating
  <2>2. srv[t] \in Active => Base(t)' = Base(t) /\ OwedToUser' = OwedToUser
    BY <2>1 DEF Base, Quiet, OwedToUser
  <2>3. Intact(t)' = Intact(t)
    BY DEF Intact, Quiet
  <2> QED BY <2>1, <2>2, <2>3 DEF CoverInv, Quiet, Covered, Acked
<1> QED BY <1>1, <1>2, <1>3

(***************************************************************************)
(* The lock and what a session has before it is served.                    *)
(***************************************************************************)
\* What is written to a client that is not gone.
LEMMA ToClientIs ==
    ASSUME TypeOK, NEW s \in Streams, NEW x \in Down, ToClient(s, x)
    PROVE  /\ cl[s] = "ended" => down'[s] = down[s]
           /\ cl[s] # "ended" => /\ down'[s] = Append(down[s], x) /\ down'[s] # << >>
                                 /\ down[s] # << >> => Head(down'[s]) = Head(down[s])
                                 /\ down[s] = << >> => Head(down'[s]) = x
<1>1. down[s] \in Seq(Down)
  BY DEF TypeOK
<1>2. cl[s] # "ended" => down'[s] = Append(down[s], x)
  BY DEF ToClient, TypeOK
<1>3. /\ Append(down[s], x) # << >>
      /\ down[s] # << >> => Head(Append(down[s], x)) = Head(down[s])
      /\ down[s] = << >> => Head(Append(down[s], x)) = x
  BY <1>1
<1> QED BY <1>2, <1>3 DEF ToClient

LEMMA ToServerIs ==
    ASSUME TypeOK, NEW s \in Streams, NEW x, ToServer(s, x)
    PROVE  up'[s] = IF srv[s] = "ended" THEN up[s] ELSE Append(up[s], x)
BY DEF ToServer, TypeOK

LEMMA ConnectLock ==
    ASSUME TypeOK, NEW s \in Streams, LockInv(s), Connect(s)
    PROVE  LockInv(s)'
BY DEF TypeOK, Connect, LockInv, Updating, Active

LEMMA FeedLock ==
    ASSUME TypeOK, NEW s \in Streams, LockInv(s), FeedStep(s)
    PROVE  LockInv(s)'
<1>1. Quiet(s)
  BY FeedQuiet DEF Quiet, feedFrame
<1> QED BY <1>1, QuietKeeps

LEMMA LockLock ==
    ASSUME TypeOK, NEW s \in Streams, LockInv(s), Lock(s)
    PROVE  LockInv(s)'
<1>1. PICK x \in Down : x = [kind |-> "state", state |-> saved]
  BY ObjectFacts DEF TypeOK
<1>2. ToClient(s, x)
  BY <1>1 DEF Lock
<1>3. /\ cl[s] = "ended" => down'[s] = << >>
      /\ cl[s] # "ended" => down'[s] # << >> /\ Head(down'[s]) = x
  BY <1>2, ToClientIs DEF LockInv, Lock
<1> QED BY <1>1, <1>3 DEF TypeOK, Lock, LockInv, Updating, Active

\* The handler writes to a client that has its state, or behind the state.
LEMMA SendLock ==
    ASSUME TypeOK, NEW s \in Streams, LockInv(s), SendMessage(s) \/ SendCount(s)
    PROVE  LockInv(s)'
<1>1. /\ srv[s] = "loop" /\ UNCHANGED <<saved, lock, srv, pending, cl>>
      /\ up'[s] \in Interrupted(s)
  BY DEF SendMessage, SendCount, TypeOK
<1>2. PICK x \in Down : ToClient(s, x)
  <2>1. CASE SendMessage(s)
    <3>1. Head(channel[s]) \in Messages
      BY <2>1, TailQueue DEF TypeOK, SendMessage
    <3> QED BY <2>1, <3>1, ObjectFacts DEF SendMessage
  <2>2. CASE SendCount(s)
    BY <2>2, CountFacts DEF SendCount, TypeOK
  <2> QED BY <2>1, <2>2
<1>3. up[s] = << >> => up'[s] = << >>
  BY <1>1 DEF Interrupted
<1>4. cl[s] = "state" => down[s] # << >> /\ down'[s] # << >> /\ Head(down'[s]) = Head(down[s])
  BY <1>1, <1>2, ToClientIs DEF LockInv, Active
<1>5. Updating(s)' = Updating(s)
  BY <1>1 DEF Updating
<1> QED BY <1>1, <1>3, <1>4, <1>5 DEF LockInv, Active

LEMMA ReadUpdateLock ==
    ASSUME TypeOK, NEW s \in Streams, LockInv(s), ReadUpdate(s)
    PROVE  LockInv(s)'
<1>1. up[s] \in Seq(Up) /\ up[s] # << >>
  BY DEF TypeOK, ReadUpdate
<1>2. Head(up[s]) # NoUpdate
  BY <1>1, TailQueue, UpFacts, UpdateFacts DEF ReadUpdate
<1> QED BY <1>1, <1>2 DEF TypeOK, ReadUpdate, LockInv, Updating, Active

LEMMA EndLock ==
    ASSUME TypeOK, NEW s \in Streams, LockInv(s),
           Finish(s) \/ Fail(s) \/ ClientLost(s) \/ UpdateFails(s)
    PROVE  LockInv(s)'
<1>1. /\ srv'[s] = "ended" /\ pending'[s] = NoUpdate /\ up'[s] = << >> /\ cl' = cl
  BY DEF Finish, Fail, ClientLost, UpdateFails, Release, returnFrame, TypeOK
<1>2. cl[s] = "state" => down[s] = << >> \/ Head(down[s]).kind = "state"
  BY DEF LockInv
<1>3. cl[s] = "state" => down'[s] = << >> \/ Head(down'[s]).kind = "state"
  <2>1. CASE down'[s] = down[s]
    BY <1>2, <2>1
  <2>2. CASE srv[s] \in Active
    <3>1. cl[s] = "state" => down[s] # << >> /\ Head(down[s]).kind = "state"
      BY <2>2 DEF LockInv
    <3>2. CASE Finish(s)
      BY <3>1, <3>2, ToClientIs, ObjectFacts DEF Finish
    <3>3. CASE UpdateFails(s)
      BY <3>1, <3>3, ToClientIs, ObjectFacts DEF UpdateFails
    <3> QED BY <2>1, <3>2, <3>3, <1>2 DEF Fail, ClientLost
  <2>3. srv[s] \in Active \/ down' = down
    BY DEF Finish, Fail, ClientLost, UpdateFails, Updating, Active
  <2> QED BY <2>1, <2>2, <2>3
<1> QED BY <1>1, <1>3 DEF LockInv, Updating, Active

LEMMA UpdateStepLock ==
    ASSUME TypeOK, NEW s \in Streams, LockInv(s), UpdateStep(s)
    PROVE  LockInv(s)'
<1>1. /\ Updating(s) /\ srv[s] \in Active /\ lock = s /\ pending[s] # NoUpdate
      /\ pending[s] \in StateUpdates /\ cl[s] \notin {"off", "state"}
  BY DEF UpdateStep, AddKeyPackage, Save, Acknowledge, Updating, Active, LockInv, TypeOK
<1>2. UNCHANGED <<lock, up, cl>>
  BY DEF UpdateStep, AddKeyPackage, Save, Acknowledge
<1>3. srv'[s] \in Active /\ (Updating(s)' <=> pending'[s] # NoUpdate)
  <2>1. CASE AddKeyPackage(s)
    <3>1. \A K \in SUBSET Packages : [pending[s] EXCEPT !.keys = K] # NoUpdate
      <4>1. \A K \in SUBSET Packages : [pending[s] EXCEPT !.keys = K].kind = "update"
        BY <1>1 DEF StateUpdates
      <4> QED BY <4>1 DEF NoUpdate
    <3>2. pending'[s] # NoUpdate
      <4>1. CASE pending' = pending
        BY <1>1, <4>1
      <4>2. ASSUME NEW k \in pending[s].keys,
                   pending' = [pending EXCEPT ![s].keys = @ \ {k}]
            PROVE  pending'[s] # NoUpdate
        <5>1. pending[s].keys \ {k} \in SUBSET Packages
          BY <1>1, UpdateFacts
        <5>2. pending'[s] = [pending[s] EXCEPT !.keys = pending[s].keys \ {k}]
          BY <4>2 DEF TypeOK
        <5> QED BY <3>1, <5>1, <5>2
      <4> QED BY <2>1, <4>1, <4>2 DEF AddKeyPackage
    <3>3. srv'[s] \in {"packages", "save"}
      BY <2>1 DEF AddKeyPackage, TypeOK
    <3> QED BY <3>2, <3>3 DEF Updating, Active
  <2>2. CASE Save(s)
    BY <1>1, <2>2 DEF Save, Updating, Active, TypeOK
  <2>3. CASE Acknowledge(s)
    BY <2>3 DEF Acknowledge, Updating, Active, TypeOK
  <2> QED BY <2>1, <2>2, <2>3 DEF UpdateStep
<1> QED BY <1>1, <1>2, <1>3 DEF LockInv, Active

\* The client, once it has its state.
LEMMA ClientLock ==
    ASSUME TypeOK, NEW s \in Streams, LockInv(s),
           UNCHANGED <<saved, lock, srv, pending>>,
           cl[s] \in Working, cl'[s] \notin {"off", "state"},
           \/ up'[s] = up[s]
           \/ \E x : ToServer(s, x)
    PROVE  LockInv(s)'
<1>1. srv[s] \notin {"off", "lock"}
  BY DEF LockInv, Working
<1>2. srv[s] \notin Active => srv[s] = "ended"
  BY <1>1 DEF TypeOK, Active
<1>3. srv[s] \notin Active => up'[s] = << >>
  BY <1>2, ToServerIs DEF LockInv
<1>4. Updating(s)' = Updating(s)
  BY DEF Updating
<1> QED BY <1>1, <1>3, <1>4 DEF LockInv

LEMMA ClientStepLock ==
    ASSUME TypeOK, NEW s \in Streams, LockInv(s), ClientStep(s) \/ Stop(s)
    PROVE  LockInv(s)'
<1>1. UNCHANGED <<saved, lock, srv, pending>>
  BY DEF ClientStep, Stop, ReadState, ReadMessage, ReadCount, Timeout, LoseTrack, ReadResult, Return,
         clientFrame
<1>2. CASE ReadState(s)
  <2>1. srv[s] \notin {"off", "lock"} /\ cl[s] = "state"
    BY <1>2 DEF ReadState, LockInv
  <2>2. cl'[s] = "read" /\ up' = up
    BY <1>2 DEF ReadState, TypeOK
  <2> QED BY <1>1, <2>1, <2>2 DEF LockInv, Updating
<1>3. CASE ReadMessage(s)
  <2>1. PICK m \in Messages : Processes(s, m)
    BY <1>3, ReadMessageIs
  <2>2. cl[s] \in Working /\ cl'[s] \in Working
    BY <2>1 DEF Processes, SendUpdate, TypeOK, Working
  <2>3. up'[s] = up[s] \/ \E x : ToServer(s, x)
    BY <2>1 DEF Processes, SendUpdate
  <2> QED BY <1>1, <2>2, <2>3, ClientLock DEF Working
<1>4. CASE ReadCount(s)
  <2>1. cl[s] \in Working
    BY <1>4, ReadCountIs DEF Working
  <2>2. ASSUME NEW K \in SUBSET Packages, Refills(s, K)
        PROVE  cl'[s] = "result" /\ \E x : ToServer(s, x)
    BY <2>2 DEF Refills, SendUpdate, TypeOK
  <2>3. /\ cl'[s] \in Working
        /\ up'[s] = up[s] \/ \E x : ToServer(s, x)
    BY <1>4, <2>1, <2>2, ReadCountIs DEF Working
  <2> QED BY <1>1, <2>1, <2>3, ClientLock DEF Working
<1>5. CASE Timeout(s)
  <2>1. cl[s] \in Working /\ cl'[s] \in Working /\ \E x : ToServer(s, x)
    BY <1>5 DEF Timeout, SendUpdate, TypeOK, Working
  <2> QED BY <1>1, <2>1, ClientLock DEF Working
<1>6. CASE LoseTrack(s)
  <2>1. cl[s] \in Working /\ cl'[s] \in Working
    BY <1>6 DEF LoseTrack, TypeOK, Working
  <2>2. up'[s] = up[s] \/ \E x : ToServer(s, x)
    BY <1>6 DEF LoseTrack
  <2> QED BY <1>1, <2>1, <2>2, ClientLock DEF Working
<1>7. CASE ReadResult(s)
  <2>1. cl[s] \in Working /\ cl'[s] \in Working /\ up' = up
    BY <1>7 DEF ReadResult, TypeOK, Working
  <2> QED BY <1>1, <2>1, ClientLock DEF Working
<1>8. CASE Return(s) \/ Stop(s)
  <2>1. cl'[s] = "ended" /\ down'[s] = << >>
    BY <1>8 DEF Return, Stop, ClientEnds, TypeOK
  <2>2. CASE up' = up
    BY <1>1, <2>1, <2>2 DEF LockInv, Updating
  <2>3. CASE cl[s] \in {"read", "garbled"} /\ \E x : ToServer(s, x)
    <3>1. cl[s] \in Working
      BY <2>3 DEF Working
    <3> QED BY <1>1, <2>1, <2>3, <3>1, ClientLock
  <2>4. up' = up \/ (cl[s] \in {"read", "garbled"} /\ \E x : ToServer(s, x))
    BY <1>8 DEF Return, Stop
  <2> QED BY <2>2, <2>3, <2>4
<1> QED BY <1>2, <1>3, <1>4, <1>5, <1>6, <1>7, <1>8 DEF ClientStep

LEMMA SessionLock ==
    ASSUME TypeOK, \A t \in Streams : LockInv(t), NEW s \in Streams, SessionStep(s)
    PROVE  \A t \in Streams : LockInv(t)'
<1>1. LockInv(s)'
  BY ConnectLock, FeedLock, LockLock, SendLock, ReadUpdateLock, EndLock, UpdateStepLock,
     ClientStepLock DEF SessionStep, HandlerStep
<1>2. ASSUME NEW t \in Streams, t # s PROVE LockInv(t)'
  BY <1>2, OthersQuiet, QuietKeeps
<1> QED BY <1>1, <1>2

LEMMA SessionType ==
    ASSUME TypeOK, StoreKnown, \A t \in Streams : LockInv(t), NEW s \in Streams, SessionStep(s)
    PROVE  TypeOK' /\ StoreKnown' /\ Committed' = Committed
<1>1. UpdateStep(s) => pending[s] # NoUpdate
  BY DEF UpdateStep, AddKeyPackage, Save, Acknowledge, Updating, LockInv
<1>2. ReadState(s) => Head(down[s]).kind = "state"
  BY DEF ReadState, LockInv
<1>3. CASE FeedStep(s)
  BY <1>3, LoadType, SubscribeType, ForwardType DEF FeedStep
<1>4. CASE Connect(s) \/ HandlerStep(s) \/ SendCount(s)
  BY <1>1, <1>4, ConnectType, SendType, ReadUpdateType, EndType, UpdateStepType
  DEF HandlerStep
<1>5. CASE ClientStep(s) \/ Stop(s)
  BY <1>2, <1>5, ReadStateType, ReadMessageType, ReadCountType, TimeoutType, ClientOtherType
  DEF ClientStep
<1> QED BY <1>3, <1>4, <1>5 DEF SessionStep

LEMMA OtherLock ==
    ASSUME TypeOK, \A t \in Streams : LockInv(t), Store \/ UsePackage \/ Restart
    PROVE  \A t \in Streams : LockInv(t)'
<1>1. CASE Store \/ UsePackage
  BY <1>1 DEF Store, UsePackage, otherVars, sessionVars, LockInv, Updating
<1>2. CASE Restart
  <2>1. SUFFICES ASSUME NEW t \in Streams PROVE LockInv(t)'
    OBVIOUS
  <2>2. /\ srv'[t] = (IF srv[t] = "off" THEN "off" ELSE "ended") /\ up'[t] = << >>
        /\ pending'[t] = NoUpdate /\ UNCHANGED <<down, cl>>
    BY <1>2 DEF Restart
  <2>3. LockInv(t)
    OBVIOUS
  <2> QED BY <2>2, <2>3 DEF LockInv, Updating, Active
<1> QED BY <1>1, <1>2

LEMMA InitLock == Init => \A s \in Streams : LockInv(s)
BY DEF Init, LockInv, Updating, Active

LEMMA NextType ==
    ASSUME TypeOK, StoreKnown, \A t \in Streams : LockInv(t), [Next]_vars
    PROVE  TypeOK' /\ StoreKnown' /\ \A t \in Streams : LockInv(t)'
<1>1. CASE UNCHANGED vars
  <2>1. UNCHANGED storeVars /\ UNCHANGED otherVars
    BY <1>1 DEF vars, storeVars, otherVars, sessionVars
  <2>2. StoreTypeOK' /\ StoreKnown'
    BY <2>1, StoreFrame DEF TypeOK
  <2>3. TypeOK'
    BY <2>1, <2>2 DEF TypeOK, otherVars, sessionVars
  <2>4. \A t \in Streams : LockInv(t)'
    BY <2>1 DEF LockInv, Updating, otherVars, sessionVars
  <2> QED BY <2>2, <2>3, <2>4
<1>2. ASSUME NEW s \in Streams, SessionStep(s)
      PROVE  TypeOK' /\ StoreKnown' /\ \A t \in Streams : LockInv(t)'
  BY <1>2, SessionType, SessionLock
<1>3. CASE Store \/ UsePackage \/ Restart
  BY <1>3, StoreType, RestartType, OtherLock
<1> QED BY <1>1, <1>2, <1>3 DEF Next, SessionStep

\* The state of the server's handlers and tasks, of the clients and of what is
\* on its way between them has its type in every reachable state: an object
\* that is taken for a state is one, and a step of handle_response has the
\* update it works on.
THEOREM UserTypeCorrect == Spec => []TypeOK
<1> DEFINE Inv == TypeOK /\ StoreKnown /\ \A s \in Streams : LockInv(s)
<1>1. Init => Inv
  BY InitType, InitLock
<1>2. Inv /\ [Next]_vars => Inv'
  BY NextType
<1>3. Inv => TypeOK
  OBVIOUS
<1> HIDE DEF Inv
<1> QED BY <1>1, <1>2, <1>3, PTL DEF Spec

(***************************************************************************)
(* The queue of updates: what holds of its updates when one is added, when *)
(* the first is taken, and when a read of the first is interrupted.        *)
(***************************************************************************)
LEMMA BelowTransitive ==
    ASSUME NEW x, NEW y, NEW z, Below(x, y), Below(y, z)
    PROVE  Below(x, z)
BY DEF Below

LEMMA OrderedAppend ==
    ASSUME NEW q \in Seq(Up), NEW x \in Up, NEW low, NEW high,
           Ordered(q, low), Bounded(q, high), Below(low, high),
           IsUpdate(x) => Sound(x) /\ Below(high, x.state)
    PROVE  Ordered(Append(q, x), low)
<1>1. PICK r : r = Append(q, x)
  OBVIOUS
<1>2. PICK n \in Nat : n = Len(q)
  BY AppendQueue
<1>3. /\ Len(r) = n + 1 /\ r[n + 1] = x /\ \A i \in 1 .. n : r[i] = q[i]
      /\ \A i \in 1 .. n + 1 : i \in 1 .. n \/ i = n + 1
      /\ n + 1 \in 1 .. n + 1
  BY <1>1, <1>2, AppendQueue
<1>4. ASSUME NEW i \in 1 .. n + 1, IsUpdate(r[i])
      PROVE  /\ Sound(r[i]) /\ Below(low, r[i].state)
             /\ \A j \in 1 .. n + 1 : i < j /\ IsUpdate(r[j]) => Below(r[i].state, r[j].state)
  <2>1. CASE i \in 1 .. n
    <3>1. r[i] = q[i] /\ Sound(q[i]) /\ Below(low, q[i].state) /\ Below(q[i].state, high)
      BY <1>2, <1>3, <1>4, <2>1 DEF Ordered, Bounded
    <3>2. ASSUME NEW j \in 1 .. n + 1, i < j, IsUpdate(r[j])
          PROVE  Below(q[i].state, r[j].state)
      <4>1. CASE j \in 1 .. n
        <5>1. r[j] = q[j]
          BY <1>3, <4>1
        <5> QED BY <1>2, <1>4, <2>1, <3>1, <3>2, <4>1, <5>1 DEF Ordered
      <4>2. CASE j = n + 1
        <5>1. r[j] = x
          BY <1>3, <3>2, <4>2
        <5> QED BY <3>1, <3>2, <5>1, BelowTransitive
      <4> QED BY <1>3, <4>1, <4>2
    <3> QED BY <3>1, <3>2
  <2>2. CASE i = n + 1
    <3>1. r[i] = x
      BY <1>3, <2>2
    <3>2. Sound(x) /\ Below(low, x.state)
      BY <1>4, <3>1, BelowTransitive
    <3>3. ~ \E j \in 1 .. n + 1 : i < j
      BY <2>2
    <3> QED BY <3>1, <3>2, <3>3
  <2> QED BY <1>3, <2>1, <2>2
<1>5. Ordered(r, low)
  BY <1>3, <1>4 DEF Ordered
<1> QED BY <1>1, <1>5

LEMMA BoundedAppend ==
    ASSUME NEW q \in Seq(Up), NEW x \in Up, NEW high, NEW higher,
           Bounded(q, high), Below(high, higher), IsUpdate(x) => Below(x.state, higher)
    PROVE  Bounded(Append(q, x), higher) /\ Bounded(q, higher)
<1>1. Bounded(q, higher)
  BY BelowTransitive DEF Bounded
<1> QED BY <1>1, AppendQueue DEF Bounded

LEMMA OrderedTail ==
    ASSUME NEW q \in Seq(Up), q # << >>, IsUpdate(Head(q)), NEW low, Ordered(q, low)
    PROVE  /\ Sound(Head(q)) /\ Below(low, Head(q).state)
           /\ Ordered(Tail(q), Head(q).state)
<1>1. PICK r : r = Tail(q)
  OBVIOUS
<1>2. PICK n \in Nat : n = Len(r)
  BY <1>1, TailQueue
<1>3. /\ Head(q) = q[1] /\ Len(q) = n + 1 /\ \A i \in 1 .. n : r[i] = q[i + 1]
  BY <1>1, <1>2, TailQueue
<1>4. 1 \in 1 .. n + 1 /\ \A i \in 1 .. n : i + 1 \in 1 .. n + 1 /\ 1 < i + 1
  OBVIOUS
<1>5. Sound(Head(q)) /\ Below(low, Head(q).state)
  BY <1>3, <1>4 DEF Ordered
<1>6. ASSUME NEW i \in 1 .. n, IsUpdate(r[i])
      PROVE  /\ Sound(r[i]) /\ Below(Head(q).state, r[i].state)
             /\ \A j \in 1 .. n : i < j /\ IsUpdate(r[j]) => Below(r[i].state, r[j].state)
  <2>1. r[i] = q[i + 1] /\ i + 1 \in 1 .. n + 1 /\ 1 < i + 1
    BY <1>3, <1>4
  <2>2. Sound(r[i]) /\ Below(Head(q).state, r[i].state)
    BY <1>3, <1>4, <1>6, <2>1 DEF Ordered
  <2>3. ASSUME NEW j \in 1 .. n, i < j, IsUpdate(r[j])
        PROVE  Below(r[i].state, r[j].state)
    <3>1. r[j] = q[j + 1] /\ j + 1 \in 1 .. n + 1 /\ i + 1 < j + 1
      BY <1>3, <1>4, <2>3
    <3> QED BY <1>3, <1>6, <2>1, <2>3, <3>1 DEF Ordered
  <2> QED BY <2>2, <2>3
<1>7. Ordered(r, Head(q).state)
  BY <1>2, <1>6 DEF Ordered
<1> QED BY <1>1, <1>5, <1>7

LEMMA BoundedTail ==
    ASSUME NEW q \in Seq(Up), q # << >>, NEW high, Bounded(q, high)
    PROVE  /\ IsUpdate(Head(q)) => Below(Head(q).state, high)
           /\ Bounded(Tail(q), high)
<1>1. 1 \in 1 .. Len(q) /\ Head(q) = q[1]
  BY TailQueue
<1> QED BY <1>1, TailQueue DEF Bounded

\* An interrupted read damages the first object and leaves the others.
LEMMA DamagedHead ==
    ASSUME NEW q \in Seq(Up), q # << >>, NEW r, r = <<[kind |-> "damaged"]>> \o Tail(q)
    PROVE  /\ Len(r) = Len(q) /\ Len(q) \in Nat /\ 1 \in 1 .. Len(q)
           /\ r # << >> /\ Head(r) = [kind |-> "damaged"] /\ r[1] = [kind |-> "damaged"]
           /\ \A i \in 1 .. Len(q) : i = 1 \/ r[i] = q[i]
           /\ \A i \in 1 .. Len(r) : IsUpdate(r[i]) => IsUpdate(q[i]) /\ r[i] = q[i]
<1>1. PICK n \in Nat : n = Len(q)
  BY TailQueue
<1>2. PICK d : d = <<[kind |-> "damaged"]>>
  OBVIOUS
<1>3. [kind |-> "damaged"] \in Up /\ d \in Seq(Up) /\ Len(d) = 1 /\ d[1] = [kind |-> "damaged"]
  <2>1. [kind |-> "damaged"] \in Up
    BY ObjectFacts
  <2> QED BY <1>2, <2>1
<1>4. Tail(q) \in Seq(Up) /\ Len(Tail(q)) = n - 1 /\ n >= 1
  BY <1>1, TailQueue
<1>5. /\ d \o Tail(q) \in Seq(Up) /\ Len(d \o Tail(q)) = 1 + (n - 1)
      /\ \A i \in 1 .. 1 + (n - 1) :
            (d \o Tail(q))[i] = IF i <= 1 THEN d[i] ELSE Tail(q)[i - 1]
  <2>1. /\ d \o Tail(q) \in Seq(Up) /\ Len(d \o Tail(q)) = Len(d) + Len(Tail(q))
        /\ \A i \in 1 .. Len(d) + Len(Tail(q)) :
              (d \o Tail(q))[i] = IF i <= Len(d) THEN d[i] ELSE Tail(q)[i - Len(d)]
    BY <1>3, <1>4, ConcatProperties
  <2> QED BY <1>3, <1>4, <2>1
<1>6. r \in Seq(Up) /\ Len(r) = n /\ r[1] = [kind |-> "damaged"]
  BY <1>1, <1>2, <1>3, <1>4, <1>5
<1>7. r # << >> /\ Head(r) = r[1]
  BY <1>4, <1>6
<1>8. ASSUME NEW i \in 1 .. n, i # 1 PROVE r[i] = q[i]
  <2>1. r[i] = Tail(q)[i - 1]
    BY <1>2, <1>5, <1>8
  <2>2. Tail(q)[i - 1] = q[i]
    BY <1>1, <1>8, TailQueue
  <2> QED BY <2>1, <2>2
<1>9. ~IsUpdate([kind |-> "damaged"])
  BY DEF IsUpdate
<1> QED BY <1>1, <1>4, <1>6, <1>7, <1>8, <1>9

LEMMA DamagedKeeps ==
    ASSUME NEW q \in Seq(Up), q # << >>, NEW r, r = <<[kind |-> "damaged"]>> \o Tail(q)
    PROVE  /\ \A low : Ordered(q, low) => Ordered(r, low)
           /\ \A high : Bounded(q, high) => Bounded(r, high)
           /\ \A C : UpKnown(q, C) => UpKnown(r, C)
<1>1. Len(r) = Len(q) /\ \A i \in 1 .. Len(r) : IsUpdate(r[i]) => IsUpdate(q[i]) /\ r[i] = q[i]
  BY DamagedHead
<1> QED BY <1>1, Zenon DEF Ordered, Bounded, UpKnown

LEMMA AckedAppend ==
    ASSUME NEW q \in Seq(Up), NEW x \in Up
    PROVE  /\ Acked(q, Len(q)) \subseteq Acked(Append(q, x), Len(q) + 1)
           /\ IsUpdate(x) => \A m \in x.acks : m \in Messages => m \in Acked(Append(q, x), Len(q) + 1)
           /\ \A i \in 1 .. Len(q) : Acked(Append(q, x), i) = Acked(q, i)
<1>1. PICK n \in Nat : n = Len(q)
  BY AppendQueue
<1>2. /\ \A i \in 1 .. n : Append(q, x)[i] = q[i]
      /\ Append(q, x)[n + 1] = x
  BY <1>1, AppendQueue
<1>3. /\ n + 1 \in 1 .. n + 1 /\ \A i \in 1 .. n : i \in 1 .. n + 1
      /\ \A i \in 1 .. n : \A j \in 1 .. i : j \in 1 .. n
  OBVIOUS
<1>4. Acked(q, n) \subseteq Acked(Append(q, x), n + 1)
  BY <1>2, <1>3 DEF Acked
<1>5. IsUpdate(x) => \A m \in x.acks : m \in Messages => m \in Acked(Append(q, x), n + 1)
  BY <1>2, <1>3 DEF Acked
<1>6. \A i \in 1 .. n : Acked(Append(q, x), i) = Acked(q, i)
  BY <1>2, <1>3 DEF Acked
<1> QED BY <1>1, <1>4, <1>5, <1>6

LEMMA CoveredAppend ==
    ASSUME NEW q \in Seq(Up), NEW x \in Up, NEW base, NEW M, Covered(q, base, M),
           IsUpdate(x) =>
               x.state.seen \cap M \subseteq base \cup Acked(Append(q, x), Len(q) + 1)
    PROVE  Covered(Append(q, x), base, M)
BY AppendQueue, AckedAppend DEF Covered

LEMMA AckedTail ==
    ASSUME NEW q \in Seq(Up), q # << >>, IsUpdate(Head(q)), NEW i \in 1 .. Len(q)
    PROVE  Acked(q, i) \subseteq Head(q).acks \cup Acked(Tail(q), i - 1)
<1>1. SUFFICES ASSUME NEW m \in Messages, NEW j \in 1 .. i, IsUpdate(q[j]), m \in q[j].acks
               PROVE  m \in Head(q).acks \cup Acked(Tail(q), i - 1)
  BY DEF Acked
<1>2. j \in 1 .. Len(q)
  BY TailQueue
<1>3. CASE j = 1
  BY <1>1, <1>3, TailQueue
<1>4. CASE j # 1
  <2>1. Tail(q)[j - 1] = q[j]
    BY <1>2, <1>4, TailQueue
  <2>2. j - 1 \in 1 .. i - 1
    BY <1>2, <1>4, TailQueue
  <2> QED BY <1>1, <2>1, <2>2 DEF Acked
<1> QED BY <1>3, <1>4

LEMMA CoveredTail ==
    ASSUME NEW q \in Seq(Up), q # << >>, IsUpdate(Head(q)), NEW M, Covered(q, {}, M)
    PROVE  /\ Head(q).state.seen \cap M \subseteq Head(q).acks
           /\ Covered(Tail(q), Head(q).acks, M)
           /\ Acked(q, Len(q)) \subseteq Head(q).acks \cup Acked(Tail(q), Len(Tail(q)))
<1>1. /\ 1 \in 1 .. Len(q) /\ Head(q) = q[1] /\ Len(Tail(q)) = Len(q) - 1 /\ Len(q) \in Nat
      /\ Len(q) \in 1 .. Len(q)
  BY TailQueue
<1>2. Acked(q, 1) \subseteq Head(q).acks
  <2>1. \A j \in 1 .. 1 : j = 1
    OBVIOUS
  <2> QED BY <1>1, <2>1 DEF Acked
<1>3. Head(q).state.seen \cap M \subseteq Head(q).acks
  BY <1>1, <1>2 DEF Covered
<1>4. ASSUME NEW i \in 1 .. Len(Tail(q)), IsUpdate(Tail(q)[i])
      PROVE  Tail(q)[i].state.seen \cap M \subseteq Head(q).acks \cup Acked(Tail(q), i)
  <2>1. i + 1 \in 1 .. Len(q) /\ Tail(q)[i] = q[i + 1] /\ (i + 1) - 1 = i
    BY <1>1, TailQueue
  <2>2. q[i + 1].state.seen \cap M \subseteq Acked(q, i + 1)
    BY <1>4, <2>1 DEF Covered
  <2>3. Acked(q, i + 1) \subseteq Head(q).acks \cup Acked(Tail(q), i)
    BY <2>1, AckedTail
  <2> QED BY <2>1, <2>2, <2>3
<1>5. Covered(Tail(q), Head(q).acks, M)
  BY <1>4 DEF Covered
<1>6. Acked(q, Len(q)) \subseteq Head(q).acks \cup Acked(Tail(q), Len(q) - 1)
  BY <1>1, AckedTail
<1> QED BY <1>1, <1>3, <1>5, <1>6

\* The messages of M that were acknowledged are left out.
LEMMA CoveredFewer ==
    ASSUME NEW q, NEW base, NEW M, NEW N, N \subseteq M \ base, Covered(q, base, M)
    PROVE  Covered(q, {}, N)
BY DEF Covered

\* A message that nobody has processed joins them.
LEMMA CoveredMore ==
    ASSUME NEW q, NEW base, NEW M, NEW N, NEW C, UpKnown(q, C), N \cap C \subseteq M,
           Covered(q, base, M)
    PROVE  Covered(q, base, N)
BY DEF Covered, UpKnown

LEMMA EmptyQueue ==
    /\ \A low : Ordered(<< >>, low)
    /\ \A high : Bounded(<< >>, high)
    /\ \A base, M : Covered(<< >>, base, M)
    /\ \A C : UpKnown(<< >>, C) /\ DownKnown(<< >>, C)
BY DEF Ordered, Bounded, Covered, UpKnown, DownKnown

LEMMA KnownAppend ==
    ASSUME NEW C
    PROVE  /\ \A q \in Seq(Up), x \in Up :
                 UpKnown(q, C) /\ (IsUpdate(x) => x.state.seen \subseteq C) => UpKnown(Append(q, x), C)
           /\ \A q \in Seq(Down), x \in Down :
                 /\ DownKnown(q, C)
                 /\ x.kind = "message" => x.msg \in C
                 /\ x.kind = "state" => x.state.seen \subseteq C
                 => DownKnown(Append(q, x), C)
<1>1. ASSUME NEW q \in Seq(Up), NEW x \in Up, UpKnown(q, C), IsUpdate(x) => x.state.seen \subseteq C
      PROVE  UpKnown(Append(q, x), C)
  BY <1>1, AppendQueue DEF UpKnown
<1>2. ASSUME NEW q \in Seq(Down), NEW x \in Down, DownKnown(q, C),
             x.kind = "message" => x.msg \in C, x.kind = "state" => x.state.seen \subseteq C
      PROVE  DownKnown(Append(q, x), C)
  BY <1>2, AppendQueue DEF DownKnown
<1> QED BY <1>1, <1>2

LEMMA KnownTail ==
    ASSUME NEW C
    PROVE  /\ \A q \in Seq(Up) : q # << >> /\ UpKnown(q, C) =>
                 UpKnown(Tail(q), C) /\ (IsUpdate(Head(q)) => Head(q).state.seen \subseteq C)
           /\ \A q \in Seq(Down) : q # << >> /\ DownKnown(q, C) =>
                 /\ DownKnown(Tail(q), C)
                 /\ Head(q).kind = "message" => Head(q).msg \in C
                 /\ Head(q).kind = "state" => Head(q).state.seen \subseteq C
<1>1. ASSUME NEW q \in Seq(Up), q # << >>, UpKnown(q, C)
      PROVE  UpKnown(Tail(q), C) /\ (IsUpdate(Head(q)) => Head(q).state.seen \subseteq C)
  <2>1. 1 \in 1 .. Len(q) /\ Head(q) = q[1]
    BY <1>1, TailQueue
  <2> QED BY <1>1, <2>1, TailQueue DEF UpKnown
<1>2. ASSUME NEW q \in Seq(Down), q # << >>, DownKnown(q, C)
      PROVE  /\ DownKnown(Tail(q), C)
             /\ Head(q).kind = "message" => Head(q).msg \in C
             /\ Head(q).kind = "state" => Head(q).state.seen \subseteq C
  <2>1. 1 \in 1 .. Len(q) /\ Head(q) = q[1]
    BY <1>2, TailQueue
  <2> QED BY <1>2, <2>1, TailQueue DEF DownKnown
<1> QED BY <1>1, <1>2

(***************************************************************************)
(* What a client does while it works: it processes the messages N, or      *)
(* none, and keeps them or acknowledges them with all it kept before.      *)
(***************************************************************************)
Works(s, x, N) ==
    /\ UNCHANGED clientFrame
    /\ cl[s] \in Working /\ cl'[s] \in Working
    /\ x \in MlsState /\ N \in SUBSET Messages
    /\ local'[s] = x /\ Below(local[s], x) /\ x.seen = local[s].seen \cup N
    /\ \A m \in N : down[s] # << >> /\ Head(down[s]).kind = "message" /\ Head(down[s]).msg = m
    /\ \/ up'[s] = up[s] /\ done'[s] = done[s] \cup N
       \/ /\ done'[s] = {}
          /\ \E u \in StateUpdates :
                ToServer(s, u) /\ u.state = x /\ u.acks = done[s] \cup N /\ u.keys \subseteq x.keys
    /\ down'[s] = down[s] \/ (down[s] # << >> /\ down'[s] = Tail(down[s]))

LEMMA BelowSelf == \A x : Below(x, x)
BY DEF Below

LEMMA ReadMessageWorks ==
    ASSUME TypeOK, NEW s \in Streams, ReadMessage(s)
    PROVE  \E x \in MlsState, N \in SUBSET Messages : Works(s, x, N)
<1>1. PICK m \in Messages : Processes(s, m)
  BY ReadMessageIs
<1>2. local[s] \in MlsState /\ done[s] \in SUBSET Messages
  BY DEF TypeOK
<1>3. PICK x \in MlsState : /\ x = Saw(local[s], m) /\ x.seen = local[s].seen \cup {m}
                            /\ Below(local[s], x)
  BY <1>2, StateFacts
<1>4. PICK N \in SUBSET Messages : N = {m}
  OBVIOUS
<1>5. /\ UNCHANGED clientFrame /\ cl[s] \in Working /\ local'[s] = x
      /\ down[s] # << >> /\ Head(down[s]).kind = "message" /\ Head(down[s]).msg = m
      /\ down'[s] = Tail(down[s])
  BY <1>1, <1>3 DEF Processes, Working, Read, TypeOK
<1>6. /\ cl'[s] \in Working
      /\ \/ up'[s] = up[s] /\ done'[s] = done[s] \cup N
         \/ /\ done'[s] = {}
            /\ \E u \in StateUpdates :
                  ToServer(s, u) /\ u.state = x /\ u.acks = done[s] \cup N /\ u.keys \subseteq x.keys
  <2>1. CASE SendUpdate(s, Saw(local[s], m), done[s] \cup {m}, {})
    <3>1. done[s] \cup N \in SUBSET Messages /\ {} \in SUBSET Packages
      BY <1>2
    <3>2. SendUpdate(s, x, done[s] \cup N, {})
      BY <1>3, <1>4, <2>1
    <3>3. PICK u \in StateUpdates :
              /\ u = [kind |-> "update", state |-> x, keys |-> {}, acks |-> done[s] \cup N]
              /\ u.state = x /\ u.acks = done[s] \cup N /\ u.keys = {}
      BY <3>1, ObjectFacts
    <3>4. ToServer(s, u) /\ done'[s] = {} /\ cl'[s] \in Working
      BY <3>2, <3>3 DEF SendUpdate, TypeOK, Working
    <3> QED BY <3>3, <3>4
  <2>2. CASE done' = [done EXCEPT ![s] = @ \cup {m}] /\ UNCHANGED <<up, cl>>
    BY <1>4, <1>5, <2>2 DEF TypeOK
  <2> QED BY <1>1, <2>1, <2>2 DEF Processes
<1>7. Works(s, x, N)
  BY <1>3, <1>4, <1>5, <1>6 DEF Works
<1> QED BY <1>7

LEMMA ReadCountWorks ==
    ASSUME TypeOK, NEW s \in Streams, ReadCount(s)
    PROVE  \E x \in MlsState, N \in SUBSET Messages : Works(s, x, N)
<1>1. PICK N \in SUBSET Messages : N = {}
  OBVIOUS
<1>2. local[s] \in MlsState /\ done[s] \in SUBSET Messages
  BY DEF TypeOK
<1>3. /\ UNCHANGED clientFrame /\ cl[s] = "read" /\ cl[s] \in Working
      /\ down[s] # << >> /\ down'[s] = Tail(down[s])
  BY ReadCountIs DEF Working, Read, TypeOK
<1>4. CASE UNCHANGED <<local, up, done, made, cl>>
  <2>1. Works(s, local[s], N)
    BY <1>1, <1>2, <1>3, <1>4, BelowSelf DEF Works
  <2> QED BY <1>2, <2>1
<1>5. ASSUME NEW K \in SUBSET Packages, Refills(s, K)
      PROVE  \E x \in MlsState : Works(s, x, N)
  <2>1. PICK x \in MlsState : /\ x = Holds(local[s], K) /\ x.seen = local[s].seen \cup N
                              /\ x.keys = local[s].keys \cup K
                              /\ Below(local[s], x)
    <3>1. /\ Holds(local[s], K) \in MlsState /\ Holds(local[s], K).seen = local[s].seen
          /\ Holds(local[s], K).keys = local[s].keys \cup K
      BY <1>2 DEF Holds, MlsState
    <3> QED BY <1>1, <3>1 DEF Below
  <2>5. PICK M \in SUBSET Messages : M = done[s] \cup N /\ M = done[s]
    BY <1>1, <1>2
  <2>2. SendUpdate(s, x, M, K) /\ local'[s] = x /\ K \subseteq x.keys
    BY <1>5, <2>1, <2>5 DEF Refills, TypeOK
  <2>3. /\ cl'[s] = "result" /\ done'[s] = {}
        /\ \E u \in StateUpdates :
              ToServer(s, u) /\ u.state = x /\ u.acks = done[s] \cup N /\ u.keys \subseteq x.keys
    <3>1. PICK u \in StateUpdates : /\ u = [kind |-> "update", state |-> x, keys |-> K, acks |-> M]
                                    /\ u.state = x /\ u.acks = M /\ u.keys = K
      BY ObjectFacts
    <3>2. ToServer(s, u) /\ done'[s] = {} /\ cl'[s] = "result"
      BY <2>2, <3>1 DEF SendUpdate, TypeOK
    <3> QED BY <2>2, <2>5, <3>1, <3>2
  <2>4. Works(s, x, N)
    BY <1>1, <1>3, <2>1, <2>2, <2>3 DEF Works, Working
  <2> QED BY <2>4
<1> QED BY <1>4, <1>5, ReadCountIs

LEMMA OtherWorks ==
    ASSUME TypeOK, NEW s \in Streams, Timeout(s) \/ LoseTrack(s) \/ ReadResult(s)
    PROVE  \E x \in MlsState, N \in SUBSET Messages : Works(s, x, N)
<1>1. PICK N \in SUBSET Messages : N = {}
  OBVIOUS
<1>2. PICK x \in MlsState : x = local[s]
  BY DEF TypeOK
<1>3. done[s] \in SUBSET Messages /\ {} \in SUBSET Packages /\ {} \subseteq x.keys
      /\ done[s] = done[s] \cup N
  BY <1>1 DEF TypeOK
<1>4. /\ UNCHANGED clientFrame /\ cl[s] \in Working /\ cl'[s] \in Working /\ local'[s] = x
      /\ down'[s] = down[s] \/ (down[s] # << >> /\ down'[s] = Tail(down[s]))
  BY <1>2 DEF Timeout, LoseTrack, ReadResult, SendUpdate, Read, Working, TypeOK
<1>5. \/ up'[s] = up[s] /\ done'[s] = done[s] \cup N
      \/ /\ done'[s] = {}
         /\ \E u \in StateUpdates :
               ToServer(s, u) /\ u.state = x /\ u.acks = done[s] \cup N /\ u.keys \subseteq x.keys
  <2>1. CASE Timeout(s)
    <3>1. PICK M \in SUBSET Messages : M = done[s] \cup N /\ M = done[s]
      BY <1>3
    <3>2. SendUpdate(s, x, M, {})
      BY <1>2, <2>1, <3>1 DEF Timeout
    <3>3. PICK u \in StateUpdates : /\ u = [kind |-> "update", state |-> x, keys |-> {}, acks |-> M]
                                    /\ u.state = x /\ u.acks = M /\ u.keys = {}
      BY <1>3, ObjectFacts
    <3>4. ToServer(s, u) /\ done'[s] = {}
      BY <3>2, <3>3 DEF SendUpdate, TypeOK
    <3> QED BY <3>1, <3>3, <3>4
  <2>2. CASE LoseTrack(s) /\ done[s] # {}
    <3>1. PICK u \in StateUpdates :
              u = [kind |-> "update", state |-> local[s], keys |-> {}, acks |-> done[s]]
      BY <1>2, <1>3, ObjectFacts
    <3>2. ToServer(s, u) /\ done'[s] = {}
      BY <2>2, <3>1 DEF LoseTrack, TypeOK
    <3>3. u.state = x /\ u.acks = done[s] \cup N /\ u.keys \subseteq x.keys
      BY <1>2, <1>3, <3>1
    <3> QED BY <3>2, <3>3
  <2>3. CASE LoseTrack(s) /\ done[s] = {}
    BY <1>1, <2>3 DEF LoseTrack, TypeOK
  <2>4. CASE ReadResult(s)
    BY <1>3, <2>4 DEF ReadResult
  <2> QED BY <2>1, <2>2, <2>3, <2>4
<1>6. Works(s, x, N)
  BY <1>1, <1>2, <1>4, <1>5, BelowSelf DEF Works
<1> QED BY <1>6

\* A client starts to work with its state, works, or ends.
LEMMA ClientStepIs ==
    ASSUME TypeOK, NEW s \in Streams, ClientStep(s) \/ Stop(s)
    PROVE  \/ ReadState(s)
           \/ \E x \in MlsState, N \in SUBSET Messages : Works(s, x, N)
           \/ /\ ClientEnds(s) /\ UNCHANGED clientFrame
              /\ up'[s] = up[s] \/ ToServer(s, [kind |-> "goodbye"])
<1>1. CASE Return(s) \/ Stop(s)
  BY <1>1 DEF Return, Stop
<1> QED BY <1>1, ReadMessageWorks, ReadCountWorks, OtherWorks DEF ClientStep

\* Of the updates, with the one that is written.
LEMMA WorksUp ==
    ASSUME TypeOK, NEW s \in Streams, LockInv(s), NEW u \in Up, ToServer(s, u)
    PROVE  /\ up[s] \in Seq(Up)
           /\ srv[s] \in Active => up'[s] = Append(up[s], u)
           /\ srv[s] = "ended" => up'[s] = up[s]
BY ToServerIs DEF TypeOK, Active

(***************************************************************************)
(* The order of the states, step by step.                                  *)
(***************************************************************************)
LEMMA FeedSelf ==
    ASSUME NEW s \in Streams, FeedStep(s)
    PROVE  Quiet(s)
BY FeedQuiet DEF Quiet, feedFrame

\* What an interrupted read leaves.
LEMMA SendIs ==
    ASSUME TypeOK, NEW s \in Streams, SendMessage(s) \/ SendCount(s)
    PROVE  /\ srv[s] = "loop" /\ UNCHANGED <<saved, lock, srv, pending, cl, local, done, pool, owed, broken>>
           /\ up[s] \in Seq(Up)
           /\ \/ up'[s] = up[s]
              \/ up[s] # << >> /\ up'[s] = <<[kind |-> "damaged"]>> \o Tail(up[s])
BY DEF SendMessage, SendCount, Interrupted, TypeOK, storeVars

LEMMA ConnectOrder ==
    ASSUME TypeOK, NEW s \in Streams, LockInv(s), OrderInv(s), Connect(s)
    PROVE  OrderInv(s)'
<1>1. srv'[s] = "lock" /\ cl'[s] = "state" /\ UNCHANGED <<local, done>> /\ cl[s] \notin Working
  BY DEF TypeOK, Connect, LockInv, Working
<1> QED BY <1>1 DEF OrderInv, Updating, Active, Working

LEMMA LockOrder ==
    ASSUME TypeOK, NEW s \in Streams, LockInv(s), OrderInv(s), Lock(s)
    PROVE  OrderInv(s)'
<1>1. /\ srv'[s] = "loop" /\ UNCHANGED <<saved, up, cl, local, done>> /\ up[s] = << >>
      /\ cl[s] \notin Working
  BY DEF TypeOK, Lock, LockInv, Working, Active
<1>2. Ordered(up'[s], Low(s)')
  BY <1>1, EmptyQueue
<1> QED BY <1>1, <1>2 DEF OrderInv, Updating, Active

LEMMA SendOrder ==
    ASSUME TypeOK, NEW s \in Streams, LockInv(s), OrderInv(s), SendMessage(s) \/ SendCount(s)
    PROVE  OrderInv(s)'
<1>1. /\ srv[s] = "loop" /\ UNCHANGED <<saved, srv, pending, cl, local, done>>
      /\ up[s] \in Seq(Up)
      /\ \/ up'[s] = up[s]
         \/ up[s] # << >> /\ up'[s] = <<[kind |-> "damaged"]>> \o Tail(up[s])
  BY SendIs
<1>2. Updating(s)' = Updating(s) /\ Low(s)' = Low(s)
  BY <1>1 DEF Low, Updating
<1>3. /\ \A low : Ordered(up[s], low) => Ordered(up'[s], low)
      /\ \A high : Bounded(up[s], high) => Bounded(up'[s], high)
  <2>1. CASE up'[s] = up[s]
    BY <2>1
  <2>2. CASE up[s] # << >> /\ up'[s] = <<[kind |-> "damaged"]>> \o Tail(up[s])
    <3>1. PICK q \in Seq(Up) : q = up[s]
      BY <1>1
    <3>2. PICK r : r = up'[s]
      OBVIOUS
    <3>3. /\ \A low : Ordered(q, low) => Ordered(r, low)
          /\ \A high : Bounded(q, high) => Bounded(r, high)
      BY <2>2, <3>1, <3>2, DamagedKeeps
    <3> QED BY <3>1, <3>2, <3>3
  <2> QED BY <1>1, <2>1, <2>2
<1>4. srv[s] \in Active => Ordered(up'[s], Low(s)')
  BY <1>2, <1>3 DEF OrderInv
<1>5. srv[s] \in Active /\ cl[s] \in Working => Bounded(up'[s], local[s]) /\ Below(Low(s)', local[s])
  BY <1>2, <1>3 DEF OrderInv
<1> QED BY <1>1, <1>2, <1>4, <1>5 DEF OrderInv

LEMMA ReadUpdateOrder ==
    ASSUME TypeOK, NEW s \in Streams, LockInv(s), OrderInv(s), ReadUpdate(s)
    PROVE  OrderInv(s)'
<1>1. PICK q \in Seq(Up) : q = up[s]
  BY DEF TypeOK
<1>2. /\ q # << >> /\ IsUpdate(Head(q)) /\ srv[s] = "loop" /\ srv'[s] = "packages"
      /\ pending'[s] = Head(q) /\ up'[s] = Tail(q) /\ UNCHANGED <<saved, cl, local, done>>
  BY <1>1 DEF TypeOK, ReadUpdate, IsUpdate
<1>3. Ordered(q, saved) /\ (cl[s] \in Working => Bounded(q, local[s]))
  BY <1>1, <1>2 DEF OrderInv, Low, Updating, Active
<1>4. /\ Sound(Head(q)) /\ Below(saved, Head(q).state)
      /\ Ordered(Tail(q), Head(q).state)
  BY <1>2, <1>3, OrderedTail
<1>5. cl[s] \in Working => Bounded(Tail(q), local[s]) /\ Below(Head(q).state, local[s])
  BY <1>2, <1>3, BoundedTail
<1>6. Updating(s)' /\ Low(s)' = Head(q).state
  BY <1>2 DEF Low, Updating
<1>7. Ordered(up'[s], Low(s)')
  BY <1>2, <1>4, <1>6
<1>8. cl'[s] \in Working => Bounded(up'[s], local'[s]) /\ Below(Low(s)', local'[s])
  BY <1>2, <1>5, <1>6
<1>9. Sound(pending'[s]) /\ Below(saved', pending'[s].state)
  BY <1>2, <1>4
<1> QED BY <1>2, <1>7, <1>8, <1>9 DEF OrderInv

LEMMA EndOrder ==
    ASSUME TypeOK, NEW s \in Streams, LockInv(s), OrderInv(s),
           Finish(s) \/ Fail(s) \/ ClientLost(s) \/ UpdateFails(s)
    PROVE  OrderInv(s)'
<1>1. srv'[s] = "ended" /\ UNCHANGED <<cl, local, done>>
  BY DEF Finish, Fail, ClientLost, UpdateFails, Release, returnFrame, TypeOK
<1> QED BY <1>1 DEF OrderInv, Updating, Active

\* A key package is added: the update keeps its state and what it acknowledges.
LEMMA AddKeyPackageIs ==
    ASSUME TypeOK, NEW s \in Streams, LockInv(s), AddKeyPackage(s)
    PROVE  /\ pending[s] \in StateUpdates /\ srv[s] = "packages" /\ srv'[s] \in {"packages", "save"}
           /\ pending'[s].state = pending[s].state /\ pending'[s].acks = pending[s].acks
           /\ pending'[s].keys \subseteq pending[s].keys
           /\ pool \subseteq pool' /\ pool' \subseteq pool \cup pending[s].keys
           /\ UNCHANGED <<storeVars, saved, up, cl, local, done, broken>>
<1>1. pending[s] \in StateUpdates /\ srv[s] = "packages"
  BY ActiveFacts DEF AddKeyPackage, Updating
<1>2. CASE pending' = pending /\ pool' = pool /\ srv' = [srv EXCEPT ![s] = "save"]
  BY <1>1, <1>2 DEF AddKeyPackage, TypeOK
<1>3. ASSUME NEW k \in pending[s].keys, pool' = pool \cup {k}, srv' = srv,
             pending' = [pending EXCEPT ![s].keys = @ \ {k}]
      PROVE  /\ pending'[s].state = pending[s].state /\ pending'[s].acks = pending[s].acks
             /\ pending'[s].keys \subseteq pending[s].keys
             /\ pool \subseteq pool' /\ pool' \subseteq pool \cup pending[s].keys
             /\ srv'[s] = "packages"
  <2>1. pending'[s] = [pending[s] EXCEPT !.keys = pending[s].keys \ {k}]
    BY <1>3 DEF TypeOK
  <2>2. /\ pending'[s].state = pending[s].state /\ pending'[s].acks = pending[s].acks
        /\ pending'[s].keys = pending[s].keys \ {k}
    BY <1>1, <2>1 DEF StateUpdates
  <2> QED BY <1>1, <1>3, <2>2
<1>4. UNCHANGED <<storeVars, saved, up, cl, local, done, broken>>
  BY DEF AddKeyPackage
<1> QED BY <1>1, <1>2, <1>3, <1>4 DEF AddKeyPackage

LEMMA AddKeyPackageOrder ==
    ASSUME TypeOK, NEW s \in Streams, LockInv(s), OrderInv(s), AddKeyPackage(s)
    PROVE  OrderInv(s)'
<1>1. /\ srv[s] = "packages" /\ srv'[s] \in {"packages", "save"}
      /\ pending'[s].state = pending[s].state /\ pending'[s].acks = pending[s].acks
      /\ pending'[s].keys \subseteq pending[s].keys
      /\ UNCHANGED <<saved, up, cl, local, done>>
  BY AddKeyPackageIs
<1>2. Updating(s) /\ Updating(s)' /\ Low(s)' = Low(s)
  BY <1>1 DEF Low, Updating
<1>3. Sound(pending'[s])
  BY <1>1, <1>2 DEF OrderInv, Sound
<1>4. srv[s] \in Active
  BY <1>1 DEF Active
<1> QED BY <1>1, <1>2, <1>3, <1>4 DEF OrderInv

LEMMA SaveOrder ==
    ASSUME TypeOK, NEW s \in Streams, LockInv(s), OrderInv(s), Save(s)
    PROVE  OrderInv(s)'
<1>1. /\ srv[s] = "save" /\ srv'[s] = "acknowledge" /\ saved' = pending[s].state
      /\ UNCHANGED <<pending, up, cl, local, done>>
  BY DEF Save, TypeOK
<1>2. Updating(s) /\ Updating(s)' /\ Low(s)' = Low(s)
  BY <1>1 DEF Low, Updating
<1>3. srv[s] \in Active
  BY <1>1 DEF Active
<1> QED BY <1>1, <1>2, <1>3, BelowSelf DEF OrderInv

LEMMA AcknowledgeOrder ==
    ASSUME TypeOK, NEW s \in Streams, LockInv(s), OrderInv(s), Acknowledge(s)
    PROVE  OrderInv(s)'
<1>1. /\ srv[s] = "acknowledge" /\ srv'[s] = "loop" /\ UNCHANGED <<saved, up, cl, local, done>>
  BY DEF Acknowledge, TypeOK
<1>2. Updating(s) /\ ~Updating(s)' /\ srv[s] \in Active /\ saved = pending[s].state
  BY <1>1 DEF Updating, Active, OrderInv
<1>3. Low(s)' = Low(s)
  BY <1>1, <1>2 DEF Low
<1> QED BY <1>1, <1>2, <1>3 DEF OrderInv

LEMMA ReadStateOrder ==
    ASSUME TypeOK, NEW s \in Streams, LockInv(s), OrderInv(s), ReadState(s)
    PROVE  OrderInv(s)'
<1>1. /\ cl[s] = "state" /\ cl'[s] = "read" /\ down[s] # << >>
      /\ local'[s] = Head(down[s]).state /\ UNCHANGED <<saved, srv, pending, up, done>>
  BY DEF TypeOK, ReadState, clientFrame
<1>2. up[s] = << >> /\ ~Updating(s) /\ (srv[s] \in Active => local'[s] = saved)
  BY <1>1 DEF LockInv
<1>3. done[s] = {}
  BY <1>1 DEF OrderInv, Working
<1>4. ~Updating(s)' /\ Low(s)' = saved
  BY <1>1, <1>2 DEF Low, Updating
<1>5. Bounded(up'[s], local'[s]) /\ Ordered(up'[s], saved)
  BY <1>1, <1>2, EmptyQueue
<1> QED BY <1>1, <1>2, <1>3, <1>4, <1>5, BelowSelf DEF OrderInv, Working

LEMMA WorksOrder ==
    ASSUME TypeOK, NEW s \in Streams, LockInv(s), OrderInv(s),
           NEW x \in MlsState, NEW N \in SUBSET Messages, Works(s, x, N)
    PROVE  OrderInv(s)'
<1>1. /\ cl[s] \in Working /\ cl'[s] \in Working /\ local'[s] = x /\ Below(local[s], x)
      /\ x.seen = local[s].seen \cup N /\ UNCHANGED <<saved, srv, pending>>
  BY DEF Works, clientFrame
<1>2. done[s] \subseteq local[s].seen /\ done'[s] \subseteq x.seen
  BY <1>1 DEF OrderInv, Works
<1>3. Updating(s)' = Updating(s) /\ Low(s)' = Low(s)
  BY <1>1 DEF Low, Updating
<1>4. PICK q \in Seq(Up) : q = up[s]
  BY DEF TypeOK
<1>5. ASSUME srv[s] \in Active
      PROVE  Ordered(up'[s], Low(s)) /\ Bounded(up'[s], x) /\ Below(Low(s), x)
  <2>1. PICK low : low = Low(s)
    OBVIOUS
  <2>2. PICK high : high = local[s]
    OBVIOUS
  <2>3. Ordered(q, low) /\ Bounded(q, high) /\ Below(low, high) /\ Below(high, x)
    BY <1>1, <1>4, <1>5, <2>1, <2>2 DEF OrderInv
  <2>4. Below(low, x)
    BY <2>3, BelowTransitive
  <2>5. CASE up'[s] = up[s]
    <3>1. Bounded(q, x)
      BY <2>3, BelowTransitive DEF Bounded
    <3> QED BY <1>4, <2>1, <2>3, <2>4, <2>5, <3>1
  <2>6. ASSUME NEW u \in StateUpdates, ToServer(s, u), u.state = x, u.acks = done[s] \cup N,
               u.keys \subseteq x.keys
        PROVE  Ordered(up'[s], Low(s)) /\ Bounded(up'[s], x) /\ Below(Low(s), x)
    <3>1. u \in Up
      BY UpdateFacts
    <3>2. up'[s] = Append(q, u)
      BY <1>4, <1>5, <2>6, <3>1, WorksUp
    <3>3. Sound(u) /\ Below(high, u.state) /\ Below(u.state, x)
      BY <1>1, <1>2, <2>3, <2>6, BelowSelf DEF Sound
    <3>4. Ordered(Append(q, u), low)
      BY <2>3, <3>1, <3>3, OrderedAppend
    <3>5. Bounded(Append(q, u), x)
      BY <2>3, <3>1, <3>3, BoundedAppend
    <3> QED BY <2>1, <2>4, <3>2, <3>4, <3>5
  <2> QED BY <2>5, <2>6 DEF Works
<1> QED BY <1>1, <1>2, <1>3, <1>5 DEF OrderInv

LEMMA ClientEndsOrder ==
    ASSUME TypeOK, NEW s \in Streams, LockInv(s), OrderInv(s),
           ClientEnds(s), UNCHANGED clientFrame,
           up'[s] = up[s] \/ ToServer(s, [kind |-> "goodbye"])
    PROVE  OrderInv(s)'
<1>1. cl'[s] = "ended" /\ done'[s] = {} /\ UNCHANGED <<saved, srv, pending>>
  BY DEF ClientEnds, clientFrame, TypeOK
<1>2. Updating(s)' = Updating(s) /\ Low(s)' = Low(s)
  BY <1>1 DEF Low, Updating
<1>3. PICK q \in Seq(Up) : q = up[s]
  BY DEF TypeOK
<1>4. PICK u \in Up : u = [kind |-> "goodbye"] /\ ~IsUpdate(u)
  BY ObjectFacts DEF IsUpdate
<1>5. ASSUME srv[s] \in Active, ToServer(s, u) PROVE Ordered(up'[s], Low(s))
  <2>1. up'[s] = Append(q, u)
    BY <1>3, <1>5, WorksUp
  <2>2. PICK low : low = Low(s)
    OBVIOUS
  <2>3. Ordered(q, low)
    BY <1>3, <1>5, <2>2 DEF OrderInv
  <2>4. Ordered(Append(q, u), low)
    BY <1>4, <2>3, AppendQueue DEF Ordered
  <2> QED BY <2>1, <2>2, <2>4
<1>6. srv[s] \in Active => Ordered(up'[s], Low(s)')
  BY <1>2, <1>4, <1>5 DEF OrderInv
<1> QED BY <1>1, <1>2, <1>6 DEF OrderInv, Working

LEMMA SessionOrder ==
    ASSUME TypeOK, \A t \in Streams : LockInv(t) /\ OrderInv(t), NEW s \in Streams, SessionStep(s)
    PROVE  \A t \in Streams : OrderInv(t)'
<1>1. OrderInv(s)'
  <2>1. LockInv(s) /\ OrderInv(s)
    OBVIOUS
  <2>2. CASE FeedStep(s)
    BY <2>1, <2>2, FeedSelf, QuietKeeps
  <2>3. CASE ClientStep(s) \/ Stop(s)
    BY <2>1, <2>3, ClientStepIs, ReadStateOrder, WorksOrder, ClientEndsOrder, BelowSelf
  <2> QED BY <2>1, <2>2, <2>3, ConnectOrder, LockOrder, SendOrder, ReadUpdateOrder, EndOrder,
             AddKeyPackageOrder, SaveOrder, AcknowledgeOrder
          DEF SessionStep, HandlerStep, UpdateStep
<1>2. ASSUME NEW t \in Streams, t # s PROVE OrderInv(t)'
  BY <1>2, OthersQuiet, QuietKeeps
<1> QED BY <1>1, <1>2

(***************************************************************************)
(* What is stored, step by step.                                           *)
(***************************************************************************)
LEMMA ForwardKnown ==
    ASSUME TypeOK, KnownInv, NEW s \in Streams, FeedStep(s), Committed' = Committed
    PROVE  \A t \in Streams : FeedKnown(t)'
<1>1. /\ batch[s] \in Seq(Messages) /\ channel[s] \in Seq(Messages) /\ sub[s].queue \in Seq(Messages)
      /\ Within(batch[s], Committed) /\ Within(channel[s], Committed)
      /\ Within(sub[s].queue, Committed) /\ Committed \subseteq Messages
  BY DEF TypeOK, StoreTypeOK, KnownInv, StoreKnown, FeedKnown, Committed
<1>2. ASSUME NEW t \in Streams, t # s PROVE FeedKnown(t)'
  <2>1. batch'[t] = batch[t] /\ channel'[t] = channel[t]
    BY <1>2 DEF FeedStep, Load, LoadFails, Subscribe, ForwardLoaded, ForwardLive, Unfed, TypeOK
  <2> QED BY <2>1 DEF FeedKnown, KnownInv
<1>3. ASSUME Load(s) PROVE FeedKnown(s)'
  <2>1. OwedTo(User) \in SUBSET Messages /\ OwedTo(User) \subseteq Committed
    BY DEF TypeOK, StoreTypeOK, KnownInv, StoreKnown, OwedTo
  <2>2. PICK f \in Loads(OwedTo(User)) : batch'[s] = f
    BY <1>3 DEF Load, TypeOK
  <2>3. Within(f, Committed)
    BY <2>1, <2>2, LoadsFacts, WithinMore
  <2>4. channel' = channel
    BY <1>3 DEF Load
  <2> QED BY <1>1, <2>2, <2>3, <2>4 DEF FeedKnown
<1>4. ASSUME LoadFails(s) \/ Subscribe(s) \/ Unfed(s) PROVE FeedKnown(s)'
  BY <1>1, <1>4 DEF LoadFails, Subscribe, Unfed, FeedKnown
<1>5. ASSUME ForwardLoaded(s) PROVE FeedKnown(s)'
  <2>1. batch[s] # << >>
    BY <1>5 DEF ForwardLoaded
  <2>2. /\ Head(batch[s]) \in Committed /\ Within(Tail(batch[s]), Committed)
        /\ Head(batch[s]) \in Messages
    BY <1>1, <2>1, WithinTail
  <2>3. Within(Append(channel[s], Head(batch[s])), Committed)
    BY <1>1, <2>2, WithinAppend
  <2>4. \/ batch'[s] = Tail(batch[s]) /\ channel'[s] = Append(channel[s], Head(batch[s]))
        \/ batch'[s] = << >> /\ channel'[s] = channel[s]
    BY <1>5 DEF ForwardLoaded, TypeOK
  <2> QED BY <1>1, <2>2, <2>3, <2>4, WithinEmpty DEF FeedKnown
<1>6. ASSUME ForwardLive(s) PROVE FeedKnown(s)'
  <2>1. sub[s].queue # << >>
    BY <1>6 DEF ForwardLive
  <2>2. Head(sub[s].queue) \in Committed /\ Head(sub[s].queue) \in Messages
    BY <1>1, <2>1, WithinTail
  <2>3. Within(Append(channel[s], Head(sub[s].queue)), Committed)
    BY <1>1, <2>2, WithinAppend
  <2>4. /\ batch'[s] = batch[s]
        /\ channel'[s] = channel[s] \/ channel'[s] = Append(channel[s], Head(sub[s].queue))
    BY <1>6 DEF ForwardLive, TypeOK
  <2> QED BY <1>1, <2>3, <2>4 DEF FeedKnown
<1>7. FeedKnown(s)'
  BY <1>3, <1>4, <1>5, <1>6 DEF FeedStep
<1> QED BY <1>2, <1>7

LEMMA OtherFeedKnown ==
    ASSUME TypeOK, KnownInv, NEW s \in Streams, SessionStep(s), ~FeedStep(s),
           Committed' = Committed
    PROVE  \A t \in Streams : FeedKnown(t)'
<1>1. batch' = batch
  BY DEF SessionStep, Connect, HandlerStep, UpdateStep, Lock, SendMessage, SendCount, ReadUpdate,
         Finish, Fail, ClientLost, AddKeyPackage, Save, Acknowledge, UpdateFails, returnFrame,
         ClientStep, ReadState, ReadMessage, ReadCount, Timeout, LoseTrack, ReadResult, Return,
         Stop, clientFrame
<1>2. \/ channel' = channel
      \/ channel[s] # << >> /\ channel' = [channel EXCEPT ![s] = Tail(@)]
      \/ channel' = [channel EXCEPT ![s] = << >>]
  BY DEF SessionStep, Connect, HandlerStep, UpdateStep, Lock, SendMessage, SendCount, ReadUpdate,
         Finish, Fail, ClientLost, AddKeyPackage, Save, Acknowledge, UpdateFails, Release,
         ClientStep, ReadState, ReadMessage, ReadCount, Timeout, LoseTrack, ReadResult, Return,
         Stop, clientFrame
<1>3. channel[s] \in Seq(Messages) /\ Within(channel[s], Committed)
  BY DEF TypeOK, KnownInv, FeedKnown
<1>4. channel[s] # << >> => Within(Tail(channel[s]), Committed)
  BY <1>3, WithinTail
<1>5. \A t \in Streams : t # s => channel'[t] = channel[t]
  BY <1>2 DEF TypeOK
<1>6. Within(channel'[s], Committed)
  <2>1. Within(<< >>, Committed)
    BY WithinEmpty
  <2>2. \/ channel'[s] = channel[s]
        \/ channel[s] # << >> /\ channel'[s] = Tail(channel[s])
        \/ channel'[s] = << >>
    BY <1>2 DEF TypeOK
  <2> QED BY <1>3, <1>4, <2>1, <2>2
<1> QED BY <1>1, <1>3, <1>5, <1>6 DEF FeedKnown, KnownInv

\* An object for the client is about stored messages only.
LEMMA ToClientKnown ==
    ASSUME TypeOK, NEW s \in Streams, NEW C, DownKnown(down[s], C), NEW x \in Down, ToClient(s, x),
           x.kind = "message" => x.msg \in C, x.kind = "state" => x.state.seen \subseteq C
    PROVE  DownKnown(down'[s], C)
<1>1. PICK q \in Seq(Down) : q = down[s]
  BY DEF TypeOK
<1>2. down'[s] = q \/ down'[s] = Append(q, x)
  BY <1>1, ToClientIs
<1>3. DownKnown(Append(q, x), C)
  BY <1>1, KnownAppend
<1> QED BY <1>1, <1>2, <1>3

LEMMA ToServerKnown ==
    ASSUME TypeOK, NEW s \in Streams, NEW C, UpKnown(up[s], C), NEW x \in Up, ToServer(s, x),
           IsUpdate(x) => x.state.seen \subseteq C
    PROVE  UpKnown(up'[s], C)
<1>1. PICK q \in Seq(Up) : q = up[s]
  BY DEF TypeOK
<1>2. up'[s] = q \/ up'[s] = Append(q, x)
  BY <1>1, ToServerIs
<1>3. UpKnown(Append(q, x), C)
  BY <1>1, KnownAppend
<1> QED BY <1>1, <1>2, <1>3

LEMMA HandlerKnown ==
    ASSUME TypeOK, KnownInv, NEW s \in Streams, LockInv(s), HandlerStep(s) \/ SendCount(s),
           Committed' = Committed
    PROVE  SessionKnown(s)' /\ saved'.seen \subseteq Committed
<1> PICK C : C = Committed
  OBVIOUS
<1>1. /\ DownKnown(down[s], C) /\ UpKnown(up[s], C) /\ saved.seen \subseteq C
      /\ pending[s] # NoUpdate => pending[s].state.seen \subseteq C
      /\ local[s].seen \subseteq C /\ Within(channel[s], C)
      /\ Committed' = C
  BY DEF KnownInv, SessionKnown, FeedKnown
<1>2. ASSUME UpKnown(up'[s], C), DownKnown(down'[s], C), local' = local, saved'.seen \subseteq C,
             pending'[s] # NoUpdate => pending'[s].state.seen \subseteq C
      PROVE  SessionKnown(s)' /\ saved'.seen \subseteq Committed
  BY <1>1, <1>2 DEF SessionKnown
<1>3. CASE Lock(s)
  <2>1. PICK x \in Down : x = [kind |-> "state", state |-> saved]
    BY ObjectFacts DEF TypeOK
  <2>2. DownKnown(down'[s], C)
    BY <1>1, <1>3, <2>1, ToClientKnown DEF Lock
  <2> QED BY <1>1, <1>2, <1>3, <2>2 DEF Lock
<1>4. CASE SendMessage(s) \/ SendCount(s)
  <2>1. DownKnown(down'[s], C)
    <3>1. CASE SendMessage(s)
      <4>1. channel[s] \in Seq(Messages) /\ channel[s] # << >>
        BY <3>1 DEF TypeOK, SendMessage
      <4>2. Head(channel[s]) \in C /\ Head(channel[s]) \in Messages
        BY <1>1, <4>1, WithinTail, TailQueue
      <4>3. PICK x \in Down : x = [kind |-> "message", msg |-> Head(channel[s])]
        BY <4>2, ObjectFacts
      <4> QED BY <1>1, <3>1, <4>2, <4>3, ToClientKnown DEF SendMessage
    <3>2. CASE SendCount(s)
      <4>1. PICK x \in Down : x = [kind |-> "count", n |-> Cardinality(pool)]
        BY CountFacts DEF TypeOK
      <4> QED BY <1>1, <3>2, <4>1, ToClientKnown DEF SendCount
    <3> QED BY <1>4, <3>1, <3>2
  <2>2. UpKnown(up'[s], C)
    <3>1. PICK q \in Seq(Up) : q = up[s]
      BY DEF TypeOK
    <3>2. PICK r : r = up'[s]
      OBVIOUS
    <3>3. r = q \/ (q # << >> /\ r = <<[kind |-> "damaged"]>> \o Tail(q))
      BY <1>4, <3>1, <3>2, SendIs
    <3>4. UpKnown(r, C)
      BY <1>1, <3>1, <3>3, DamagedKeeps
    <3> QED BY <3>2, <3>4
  <2> QED BY <1>1, <1>2, <1>4, <2>1, <2>2, SendIs
<1>5. CASE ReadUpdate(s)
  <2>1. PICK q \in Seq(Up) : q = up[s]
    BY DEF TypeOK
  <2>2. /\ q # << >> /\ IsUpdate(Head(q)) /\ pending'[s] = Head(q) /\ up'[s] = Tail(q)
        /\ UNCHANGED <<saved, down, local>>
    BY <1>5, <2>1 DEF TypeOK, ReadUpdate, IsUpdate
  <2>3. UpKnown(Tail(q), C) /\ Head(q).state.seen \subseteq C
    BY <1>1, <2>1, <2>2, KnownTail
  <2> QED BY <1>1, <1>2, <2>2, <2>3
<1>6. CASE Finish(s) \/ Fail(s) \/ ClientLost(s) \/ UpdateFails(s)
  <2>1. up'[s] = << >> /\ pending'[s] = NoUpdate /\ UNCHANGED <<saved, local>>
    BY <1>6 DEF Finish, Fail, ClientLost, UpdateFails, Release, returnFrame, TypeOK
  <2>2. down' = down \/ \E x \in Down : ToClient(s, x) /\ x.kind \in {"result", "goodbye"}
    BY <1>6, ObjectFacts DEF Finish, Fail, ClientLost, UpdateFails
  <2>3. DownKnown(down'[s], C)
    BY <1>1, <2>2, ToClientKnown
  <2> QED BY <1>1, <1>2, <2>1, <2>3, EmptyQueue
<1>7. CASE AddKeyPackage(s)
  <2>1. /\ pending[s] # NoUpdate /\ pending'[s].state = pending[s].state
        /\ UNCHANGED <<saved, up, down, local>>
    BY <1>7, AddKeyPackageIs, UpdateFacts DEF AddKeyPackage
  <2> QED BY <1>1, <1>2, <2>1
<1>8. CASE Save(s)
  <2>1. pending[s] # NoUpdate
    BY <1>8 DEF Save, LockInv, Updating
  <2> QED BY <1>1, <1>2, <1>8, <2>1 DEF Save
<1>9. CASE Acknowledge(s)
  <2>1. DownKnown(down'[s], C)
    <3>1. PICK x \in Down : x = [kind |-> "result"]
      BY ObjectFacts
    <3> QED BY <1>1, <1>9, <3>1, ToClientKnown DEF Acknowledge
  <2>2. pending'[s] = NoUpdate /\ UNCHANGED <<up, saved, local>>
    BY <1>9 DEF Acknowledge, TypeOK
  <2> QED BY <1>1, <1>2, <2>1, <2>2
<1> QED BY <1>3, <1>4, <1>5, <1>6, <1>7, <1>8, <1>9 DEF HandlerStep, UpdateStep

LEMMA ClientKnown ==
    ASSUME TypeOK, KnownInv, NEW s \in Streams, LockInv(s), ClientStep(s) \/ Stop(s),
           Committed' = Committed
    PROVE  SessionKnown(s)' /\ saved'.seen \subseteq Committed
<1> PICK C : C = Committed
  OBVIOUS
<1>1. /\ DownKnown(down[s], C) /\ UpKnown(up[s], C) /\ saved.seen \subseteq C
      /\ pending[s] # NoUpdate => pending[s].state.seen \subseteq C
      /\ local[s].seen \subseteq C /\ Committed' = C
  BY DEF KnownInv, SessionKnown
<1>2. ASSUME UpKnown(up'[s], C), DownKnown(down'[s], C), local'[s].seen \subseteq C,
             UNCHANGED clientFrame
      PROVE  SessionKnown(s)' /\ saved'.seen \subseteq Committed
  BY <1>1, <1>2 DEF SessionKnown, clientFrame
<1>3. PICK q \in Seq(Down) : q = down[s]
  BY DEF TypeOK
<1>4. q # << >> => /\ DownKnown(Tail(q), C)
                   /\ Head(q).kind = "message" => Head(q).msg \in C
                   /\ Head(q).kind = "state" => Head(q).state.seen \subseteq C
  BY <1>1, <1>3, KnownTail
<1>5. CASE ReadState(s)
  <2>1. /\ q # << >> /\ down'[s] = Tail(q) /\ local'[s] = Head(q).state
        /\ Head(q).kind = "state" /\ up' = up /\ UNCHANGED clientFrame
    BY <1>3, <1>5 DEF ReadState, Read, LockInv, TypeOK
  <2> QED BY <1>1, <1>2, <1>4, <2>1
<1>6. ASSUME NEW x \in MlsState, NEW N \in SUBSET Messages, Works(s, x, N)
      PROVE  SessionKnown(s)' /\ saved'.seen \subseteq Committed
  <2>1. x.seen \subseteq C /\ local'[s] = x /\ UNCHANGED clientFrame
    BY <1>1, <1>3, <1>4, <1>6 DEF Works
  <2>2. DownKnown(down'[s], C)
    BY <1>1, <1>3, <1>4, <1>6 DEF Works
  <2>3. UpKnown(up'[s], C)
    <3>1. ASSUME NEW u \in StateUpdates, ToServer(s, u), u.state = x PROVE UpKnown(up'[s], C)
      <4>1. u \in Up
        BY UpdateFacts
      <4> QED BY <1>1, <2>1, <3>1, <4>1, ToServerKnown
    <3> QED BY <1>1, <1>6, <3>1 DEF Works
  <2> QED BY <1>2, <2>1, <2>2, <2>3
<1>7. CASE /\ ClientEnds(s) /\ UNCHANGED clientFrame
           /\ up'[s] = up[s] \/ ToServer(s, [kind |-> "goodbye"])
  <2>1. down'[s] = << >> /\ local'[s].seen = {}
    BY <1>7 DEF ClientEnds, Empty, TypeOK
  <2>2. PICK u \in Up : u = [kind |-> "goodbye"] /\ ~IsUpdate(u)
    BY ObjectFacts DEF IsUpdate
  <2>3. UpKnown(up'[s], C)
    BY <1>1, <1>7, <2>2, ToServerKnown
  <2> QED BY <1>2, <1>7, <2>1, <2>3, EmptyQueue
<1> QED BY <1>5, <1>6, <1>7, ClientStepIs

LEMMA SessionKnownStep ==
    ASSUME TypeOK, KnownInv, \A t \in Streams : LockInv(t), NEW s \in Streams, SessionStep(s)
    PROVE  KnownInv'
<1>1. StoreKnown' /\ Committed' = Committed
  BY SessionType DEF KnownInv
<1>2. \A t \in Streams : FeedKnown(t)'
  BY <1>1, ForwardKnown, OtherFeedKnown
<1>3. ASSUME NEW t \in Streams, t # s PROVE SessionKnown(t)'
  <2>1. Quiet(t)
    BY <1>3, OthersQuiet
  <2> QED BY <1>1, <2>1 DEF Quiet, SessionKnown, KnownInv
<1>4. CASE Connect(s) \/ FeedStep(s)
  <2>1. UNCHANGED <<saved, down, up, pending, local>>
    BY <1>4, FeedQuiet DEF feedFrame, Connect
  <2> QED BY <1>1, <1>2, <1>3, <2>1 DEF KnownInv, SessionKnown
<1>5. CASE HandlerStep(s) \/ SendCount(s) \/ ClientStep(s) \/ Stop(s)
  <2>1. SessionKnown(s)' /\ saved'.seen \subseteq Committed
    BY <1>1, <1>5, HandlerKnown, ClientKnown
  <2> QED BY <1>1, <1>2, <1>3, <2>1 DEF KnownInv
<1> QED BY <1>4, <1>5 DEF SessionStep

LEMMA OtherKnown ==
    ASSUME TypeOK, KnownInv, Store \/ UsePackage \/ Restart
    PROVE  KnownInv'
<1>1. StoreKnown' /\ Committed \subseteq Committed'
  BY StoreType, RestartType DEF KnownInv
<1>2. CASE Store \/ UsePackage
  <2>1. UNCHANGED sessionVars /\ saved' = saved
    BY <1>2 DEF Store, UsePackage, otherVars
  <2>2. ASSUME NEW t \in Streams PROVE FeedKnown(t)' /\ SessionKnown(t)'
    <3>1. FeedKnown(t)'
      BY <1>1, <2>1, WithinMore DEF FeedKnown, KnownInv, sessionVars
    <3>2. SessionKnown(t)'
      BY <1>1, <2>1 DEF SessionKnown, KnownInv, DownKnown, UpKnown, sessionVars
    <3> QED BY <3>1, <3>2
  <2> QED BY <1>1, <2>1, <2>2 DEF KnownInv
<1>3. CASE Restart
  <2>1. ASSUME NEW t \in Streams PROVE FeedKnown(t)' /\ SessionKnown(t)'
    <3>1. /\ batch'[t] = << >> /\ channel'[t] = << >> /\ up'[t] = << >> /\ pending'[t] = NoUpdate
          /\ UNCHANGED <<saved, down, local>>
      BY <1>3 DEF Restart
    <3>2. DownKnown(down[t], Committed) /\ local[t].seen \subseteq Committed
      BY DEF KnownInv, SessionKnown
    <3>3. DownKnown(down'[t], Committed') /\ local'[t].seen \subseteq Committed'
      BY <1>1, <3>1, <3>2 DEF DownKnown
    <3> QED BY <3>1, <3>3, WithinEmpty, EmptyQueue DEF FeedKnown, SessionKnown
  <2> QED BY <1>1, <1>3, <2>1 DEF KnownInv, Restart
<1> QED BY <1>2, <1>3

(***************************************************************************)
(* What is acknowledged, step by step.                                     *)
(***************************************************************************)
Inv == TypeOK /\ UserInv

\* While no session is at an update, saved state, messages and key packages
\* fit together without exception.
LEMMA Settled ==
    ASSUME Inv, ~broken, \A t \in Streams : ~Updating(t)
    PROVE  saved.seen \cap OwedToUser = {} /\ pool \subseteq saved.keys
BY DEF Inv, UserInv, StateIsComplete, SavedIsAcknowledged, PackagesAreUsable, Updating, OwedToUser

\* Only one session is served.
LEMMA Alone ==
    ASSUME Inv, NEW s \in Streams, srv[s] \in Active
    PROVE  \A t \in Streams : t # s => srv[t] \notin Active /\ ~Updating(t)
BY DEF Inv, UserInv, LockInv, Updating, Active

LEMMA LockCover ==
    ASSUME Inv, NEW s \in Streams, Connect(s) \/ Lock(s)
    PROVE  CoverInv(s)'
<1>1. TypeOK /\ LockInv(s)
  BY DEF Inv, UserInv
<1>2. CASE Connect(s)
  BY <1>1, <1>2 DEF CoverInv, Connect, TypeOK, Active
<1>3. CASE Lock(s)
  <2>1. srv'[s] = "loop" /\ up'[s] = << >> /\ cl'[s] \notin Working
    BY <1>1, <1>3 DEF TypeOK, Lock, LockInv, Working, Active
  <2>2. Covered(up'[s], Base(s)', OwedToUser')
    BY <2>1, EmptyQueue
  <2> QED BY <2>1, <2>2 DEF CoverInv, Updating
<1> QED BY <1>2, <1>3

LEMMA SendCover ==
    ASSUME Inv, NEW s \in Streams, SendMessage(s) \/ SendCount(s)
    PROVE  CoverInv(s)'
<1>1. TypeOK /\ LockInv(s) /\ CoverInv(s)
  BY DEF Inv, UserInv
<1>2. /\ UNCHANGED <<srv, pending, cl, local, done, pool, owed, broken>> /\ srv[s] = "loop"
      /\ \/ up'[s] = up[s]
         \/ up[s] # << >> /\ up'[s] = <<[kind |-> "damaged"]>> \o Tail(up[s])
  BY <1>1, SendIs
<1>3. /\ Updating(s)' = Updating(s) /\ Base(s)' = Base(s) /\ OwedToUser' = OwedToUser
  BY <1>2 DEF Base, Updating, OwedToUser
<1>4. Intact(s)' => up'[s] = up[s] /\ Intact(s)
  <2>1. CASE up[s] # << >> /\ up'[s] = <<[kind |-> "damaged"]>> \o Tail(up[s])
    <3>1. PICK q \in Seq(Up) : q = up[s]
      BY <1>1 DEF TypeOK
    <3>2. PICK r : r = up'[s]
      OBVIOUS
    <3>3. r # << >> /\ Head(r).kind = "damaged"
      BY <2>1, <3>1, <3>2, DamagedHead
    <3> QED BY <3>2, <3>3 DEF Intact
  <2>2. CASE up'[s] = up[s]
    BY <2>2 DEF Intact
  <2> QED BY <1>2, <2>1, <2>2
<1> QED BY <1>1, <1>2, <1>3, <1>4 DEF CoverInv

LEMMA ReadUpdateCover ==
    ASSUME Inv, NEW s \in Streams, ReadUpdate(s)
    PROVE  CoverInv(s)'
<1>1. TypeOK /\ LockInv(s) /\ CoverInv(s) /\ OrderInv(s)
  BY DEF Inv, UserInv
<1>2. PICK q \in Seq(Up) : q = up[s]
  BY <1>1 DEF TypeOK
<1>3. /\ q # << >> /\ IsUpdate(Head(q)) /\ srv[s] = "loop" /\ srv'[s] = "packages"
      /\ pending'[s] = Head(q) /\ up'[s] = Tail(q)
      /\ UNCHANGED <<storeVars, saved, cl, local, done, pool, broken>>
  BY <1>1, <1>2 DEF TypeOK, ReadUpdate, IsUpdate
<1>4. SUFFICES ASSUME ~broken PROVE CoverInv(s)'
  BY <1>3 DEF CoverInv
<1>5. srv[s] \in Active /\ ~Updating(s) /\ Intact(s) /\ Base(s) = {}
  BY <1>2, <1>3 DEF Active, Updating, Intact, IsUpdate, Base
<1>6. /\ Covered(q, {}, OwedToUser)
      /\ cl[s] \in Working => local[s].seen \cap OwedToUser \subseteq done[s] \cup Acked(q, Len(q))
  BY <1>1, <1>2, <1>4, <1>5 DEF CoverInv
<1>7. PICK M : M = OwedToUser
  OBVIOUS
<1>8. /\ Head(q).state.seen \cap M \subseteq Head(q).acks
      /\ Covered(Tail(q), Head(q).acks, M)
      /\ Acked(q, Len(q)) \subseteq Head(q).acks \cup Acked(Tail(q), Len(Tail(q)))
  BY <1>3, <1>6, <1>7, CoveredTail
<1>9. OwedToUser' = M /\ Updating(s)' /\ Base(s)' = Head(q).acks
  BY <1>3, <1>7 DEF OwedToUser, Updating, Base, storeVars
<1>10. pool \subseteq Head(q).state.keys
  <2>1. \A t \in Streams : ~Updating(t)
    BY <1>5, Alone
  <2>2. pool \subseteq saved.keys
    BY <1>4, <2>1, Settled
  <2>3. Ordered(q, saved)
    BY <1>1, <1>2, <1>5 DEF OrderInv, Low
  <2>4. Below(saved, Head(q).state)
    BY <1>3, <2>3, OrderedTail
  <2> QED BY <2>2, <2>4 DEF Below
<1>11. cl'[s] \in Working =>
          local'[s].seen \cap M \subseteq done'[s] \cup Head(q).acks \cup Acked(Tail(q), Len(Tail(q)))
  BY <1>3, <1>6, <1>7, <1>8
<1> QED BY <1>3, <1>8, <1>9, <1>10, <1>11 DEF CoverInv

LEMMA EndCover ==
    ASSUME Inv, NEW s \in Streams, Finish(s) \/ Fail(s) \/ ClientLost(s) \/ UpdateFails(s)
    PROVE  CoverInv(s)'
<1>1. srv'[s] = "ended"
  BY DEF Inv, Finish, Fail, ClientLost, UpdateFails, Release, TypeOK
<1> QED BY <1>1 DEF CoverInv, Active

LEMMA AddKeyPackageCover ==
    ASSUME Inv, NEW s \in Streams, AddKeyPackage(s)
    PROVE  CoverInv(s)'
<1>1. TypeOK /\ LockInv(s) /\ CoverInv(s) /\ OrderInv(s)
  BY DEF Inv, UserInv
<1>2. /\ srv[s] = "packages" /\ srv'[s] \in {"packages", "save"}
      /\ pending'[s].state = pending[s].state /\ pending'[s].acks = pending[s].acks
      /\ pool' \subseteq pool \cup pending[s].keys
      /\ UNCHANGED <<storeVars, up, cl, local, done, broken>>
  BY <1>1, AddKeyPackageIs
<1>3. Updating(s) /\ Updating(s)' /\ srv[s] \in Active
  BY <1>2 DEF Updating, Active
<1>4. Base(s)' = Base(s) /\ OwedToUser' = OwedToUser /\ Intact(s)' = Intact(s)
  BY <1>2, <1>3 DEF Base, OwedToUser, Intact, storeVars
<1>5. pending[s].keys \subseteq pending[s].state.keys
  BY <1>1, <1>3 DEF OrderInv, Sound
<1>6. ~broken => pool' \subseteq pending'[s].state.keys
  BY <1>1, <1>2, <1>3, <1>5 DEF CoverInv
<1> QED BY <1>1, <1>2, <1>3, <1>4, <1>6 DEF CoverInv

LEMMA SaveCover ==
    ASSUME Inv, NEW s \in Streams, Save(s)
    PROVE  CoverInv(s)'
<1>1. TypeOK /\ CoverInv(s)
  BY DEF Inv, UserInv
<1>2. /\ srv[s] = "save" /\ srv'[s] = "acknowledge"
      /\ UNCHANGED <<storeVars, pending, up, cl, local, done, broken, pool>>
  BY <1>1 DEF Save, TypeOK
<1>3. Updating(s) /\ Updating(s)' /\ srv[s] \in Active
  BY <1>2 DEF Updating, Active
<1>4. Base(s)' = Base(s) /\ OwedToUser' = OwedToUser /\ Intact(s)' = Intact(s)
  BY <1>2, <1>3 DEF Base, OwedToUser, Intact, storeVars
<1> QED BY <1>1, <1>2, <1>3, <1>4 DEF CoverInv

LEMMA AcknowledgeIs ==
    ASSUME TypeOK, NEW s \in Streams, Acknowledge(s)
    PROVE  /\ srv[s] = "acknowledge" /\ srv'[s] = "loop" /\ Updating(s) /\ ~Updating(s)'
           /\ srv[s] \in Active
           /\ UNCHANGED <<adding, saved, pool, up, cl, local, done, broken>>
           /\ OwedToUser' = OwedToUser \ pending[s].acks
           /\ \A m \in Messages : <<m, User>> \in owed' <=> <<m, User>> \in owed /\ m \notin pending[s].acks
<1>1. /\ srv[s] = "acknowledge" /\ srv'[s] = "loop"
      /\ UNCHANGED <<adding, saved, pool, up, cl, local, done, broken>>
      /\ owed' = owed \ (pending[s].acks \X {User})
  BY DEF Acknowledge, TypeOK, DropReceivers
<1>2. \A m \in Messages : <<m, User>> \in owed' <=> <<m, User>> \in owed /\ m \notin pending[s].acks
  BY <1>1
<1> QED BY <1>1, <1>2 DEF OwedToUser, Updating, Active

LEMMA AcknowledgeCover ==
    ASSUME Inv, NEW s \in Streams, Acknowledge(s)
    PROVE  CoverInv(s)'
<1>1. TypeOK /\ CoverInv(s)
  BY DEF Inv, UserInv
<1>2. PICK M : M = OwedToUser
  OBVIOUS
<1>3. PICK base : base = pending[s].acks
  OBVIOUS
<1>4. /\ srv'[s] = "loop" /\ Updating(s) /\ ~Updating(s)' /\ srv[s] \in Active
      /\ UNCHANGED <<up, cl, local, done, broken>> /\ OwedToUser' = M \ base
  BY <1>1, <1>2, <1>3, AcknowledgeIs
<1>5. Base(s) = base /\ Base(s)' = {} /\ Intact(s)' = Intact(s)
  BY <1>3, <1>4 DEF Base, Intact
<1>6. ASSUME ~broken, Intact(s)
      PROVE  /\ Covered(up[s], {}, M \ base)
             /\ cl[s] \in Working =>
                   local[s].seen \cap (M \ base) \subseteq done[s] \cup Acked(up[s], Len(up[s]))
  <2>1. /\ Covered(up[s], base, M)
        /\ cl[s] \in Working =>
              local[s].seen \cap M \subseteq done[s] \cup base \cup Acked(up[s], Len(up[s]))
    BY <1>1, <1>2, <1>4, <1>5, <1>6 DEF CoverInv
  <2>2. Covered(up[s], {}, M \ base)
    BY <2>1, CoveredFewer
  <2> QED BY <2>1, <2>2
<1>7. srv'[s] \notin {"packages", "save"}
  BY <1>4
<1> QED BY <1>4, <1>5, <1>6, <1>7 DEF CoverInv

LEMMA ReadStateCover ==
    ASSUME Inv, NEW s \in Streams, ReadState(s)
    PROVE  CoverInv(s)'
<1>1. TypeOK /\ LockInv(s) /\ CoverInv(s)
  BY DEF Inv, UserInv
<1>2. /\ cl[s] = "state" /\ down[s] # << >>
      /\ local'[s] = Head(down[s]).state
      /\ UNCHANGED <<storeVars, saved, pool, srv, pending, up, done, broken>>
  BY <1>1 DEF TypeOK, ReadState, clientFrame
<1>3. up[s] = << >> /\ ~Updating(s) /\ (srv[s] \in Active => local'[s] = saved)
  BY <1>1, <1>2 DEF LockInv
<1>4. /\ ~Updating(s)' /\ OwedToUser' = OwedToUser
  BY <1>2, <1>3 DEF Updating, OwedToUser, storeVars
<1>5. Covered(up'[s], Base(s)', OwedToUser')
  BY <1>2, <1>3, EmptyQueue
<1>6. ~broken /\ srv[s] \in Active => local'[s].seen \cap OwedToUser' = {}
  <2>1. srv[s] \in Active => \A t \in Streams : ~Updating(t)
    BY <1>3, Alone
  <2> QED BY <1>3, <1>4, <2>1, Settled
<1>7. srv'[s] \notin {"packages", "save"}
  BY <1>4 DEF Updating
<1> QED BY <1>2, <1>4, <1>5, <1>6, <1>7 DEF CoverInv

\* What is written does not repair a damaged queue.
LEMMA IntactAppend ==
    ASSUME NEW q \in Seq(Up), NEW u \in Up
    PROVE  Append(q, u) # << >> /\ (q # << >> => Head(Append(q, u)) = Head(q))
<1>1. Append(q, u) # << >> /\ Append(q, u) \in Seq(Up)
  <2>1. Append(q, u) \in Seq(Up) /\ Len(Append(q, u)) = Len(q) + 1 /\ Len(q) \in Nat
    BY AppendQueue
  <2> QED BY <2>1
<1>2. ASSUME q # << >> PROVE Head(Append(q, u)) = Head(q)
  <2>1. 1 \in 1 .. Len(q) /\ Head(q) = q[1]
    BY <1>2, TailQueue
  <2>2. Append(q, u)[1] = q[1]
    BY <2>1, AppendQueue
  <2>3. Head(Append(q, u)) = Append(q, u)[1]
    BY <1>1, TailQueue
  <2> QED BY <2>1, <2>2, <2>3
<1> QED BY <1>1, <1>2

LEMMA WorksCover ==
    ASSUME Inv, NEW s \in Streams, NEW x \in MlsState, NEW N \in SUBSET Messages, Works(s, x, N)
    PROVE  CoverInv(s)'
<1>1. TypeOK /\ LockInv(s) /\ CoverInv(s)
  BY DEF Inv, UserInv
<1>2. /\ cl[s] \in Working /\ cl'[s] \in Working /\ local'[s] = x
      /\ x.seen = local[s].seen \cup N
      /\ UNCHANGED <<storeVars, saved, pool, srv, pending, broken>>
  BY DEF Works, clientFrame
<1>3. /\ Updating(s)' = Updating(s) /\ OwedToUser' = OwedToUser /\ Base(s)' = Base(s)
  BY <1>2 DEF Updating, OwedToUser, Base, storeVars
<1>4. PICK q \in Seq(Up) : q = up[s]
  BY <1>1 DEF TypeOK
<1>5. PICK M : M = OwedToUser
  OBVIOUS
<1>6. PICK base : base = Base(s)
  OBVIOUS
<1>7. ASSUME ~broken, srv[s] \in Active, Intact(s)'
      PROVE  /\ Covered(up'[s], base, M)
             /\ x.seen \cap M \subseteq done'[s] \cup base \cup Acked(up'[s], Len(up'[s]))
  <2>1. CASE up'[s] = up[s] /\ done'[s] = done[s] \cup N
    <3>1. Intact(s)
      BY <1>7, <2>1 DEF Intact
    <3>2. /\ Covered(q, base, M)
          /\ local[s].seen \cap M \subseteq done[s] \cup base \cup Acked(q, Len(q))
      BY <1>1, <1>2, <1>4, <1>5, <1>6, <1>7, <3>1 DEF CoverInv
    <3> QED BY <1>2, <1>4, <2>1, <3>2
  <2>2. ASSUME NEW u \in StateUpdates, ToServer(s, u), u.state = x, u.acks = done[s] \cup N
        PROVE  /\ Covered(up'[s], base, M)
               /\ x.seen \cap M \subseteq done'[s] \cup base \cup Acked(up'[s], Len(up'[s]))
    <3>1. u \in Up /\ IsUpdate(u)
      BY UpdateFacts DEF IsUpdate
    <3>2. up'[s] = Append(q, u)
      BY <1>1, <1>4, <1>7, <2>2, <3>1, WorksUp
    <3>3. Intact(s)
      BY <1>4, <1>7, <3>1, <3>2, IntactAppend DEF Intact
    <3>4. /\ Covered(q, base, M)
          /\ local[s].seen \cap M \subseteq done[s] \cup base \cup Acked(q, Len(q))
      BY <1>1, <1>2, <1>4, <1>5, <1>6, <1>7, <3>3 DEF CoverInv
    <3>5. /\ Acked(q, Len(q)) \subseteq Acked(Append(q, u), Len(q) + 1)
          /\ \A m \in u.acks : m \in Messages => m \in Acked(Append(q, u), Len(q) + 1)
      BY <3>1, AckedAppend
    <3>6. done[s] \cup N \subseteq Messages
      BY <1>1 DEF TypeOK
    <3>7. x.seen \cap M \subseteq base \cup Acked(Append(q, u), Len(q) + 1)
      BY <1>2, <2>2, <3>4, <3>5, <3>6
    <3>8. Covered(Append(q, u), base, M)
      BY <2>2, <3>1, <3>4, <3>7, CoveredAppend
    <3>9. Len(Append(q, u)) = Len(q) + 1
      BY <3>1
    <3> QED BY <3>2, <3>7, <3>8, <3>9
  <2> QED BY <2>1, <2>2 DEF Works
<1> QED BY <1>1, <1>2, <1>3, <1>5, <1>6, <1>7 DEF CoverInv

LEMMA ClientEndsCover ==
    ASSUME Inv, NEW s \in Streams, ClientEnds(s), UNCHANGED clientFrame,
           up'[s] = up[s] \/ ToServer(s, [kind |-> "goodbye"])
    PROVE  CoverInv(s)'
<1>1. TypeOK /\ LockInv(s) /\ CoverInv(s)
  BY DEF Inv, UserInv
<1>2. /\ cl'[s] \notin Working
      /\ UNCHANGED <<storeVars, saved, pool, srv, pending, broken>>
  BY <1>1 DEF ClientEnds, clientFrame, TypeOK, Working
<1>3. /\ Updating(s)' = Updating(s) /\ OwedToUser' = OwedToUser /\ Base(s)' = Base(s)
  BY <1>2 DEF Updating, OwedToUser, Base, storeVars
<1>4. PICK q \in Seq(Up) : q = up[s]
  BY <1>1 DEF TypeOK
<1>5. PICK u \in Up : u = [kind |-> "goodbye"] /\ ~IsUpdate(u)
  BY ObjectFacts DEF IsUpdate
<1>6. PICK M : M = OwedToUser
  OBVIOUS
<1>7. PICK base : base = Base(s)
  OBVIOUS
<1>8. ASSUME ~broken, srv[s] \in Active, Intact(s)'
      PROVE  Covered(up'[s], base, M)
  <2>1. up'[s] = up[s] \/ up'[s] = Append(q, u)
    BY <1>1, <1>4, <1>5, <1>8, WorksUp
  <2>2. Intact(s)
    BY <1>4, <1>8, <2>1, IntactAppend DEF Intact
  <2>3. Covered(q, base, M)
    BY <1>1, <1>4, <1>6, <1>7, <1>8, <2>2 DEF CoverInv
  <2>4. Covered(Append(q, u), base, M)
    BY <1>5, <2>3, CoveredAppend
  <2> QED BY <1>4, <2>1, <2>3, <2>4
<1> QED BY <1>1, <1>2, <1>3, <1>6, <1>7, <1>8 DEF CoverInv

LEMMA SessionCover ==
    ASSUME Inv, NEW s \in Streams, SessionStep(s)
    PROVE  \A t \in Streams : CoverInv(t)'
<1>1. TypeOK /\ \A t \in Streams : LockInv(t) /\ CoverInv(t)
  BY DEF Inv, UserInv
<1>2. CoverInv(s)'
  <2>1. CASE FeedStep(s)
    BY <1>1, <2>1, FeedSelf, QuietKeeps
  <2>2. CASE ClientStep(s) \/ Stop(s)
    BY <1>1, <2>2, ClientStepIs, ReadStateCover, WorksCover, ClientEndsCover
  <2> QED BY <2>1, <2>2, LockCover, SendCover, ReadUpdateCover, EndCover, AddKeyPackageCover,
             SaveCover, AcknowledgeCover DEF SessionStep, HandlerStep, UpdateStep
<1>3. ASSUME NEW t \in Streams, t # s PROVE CoverInv(t)'
  BY <1>1, <1>3, OthersQuiet, QuietKeeps
<1> QED BY <1>2, <1>3

(***************************************************************************)
(* Messages, saved state and key packages fit together, step by step.      *)
(***************************************************************************)
\* A step that begins and ends no update and leaves the rows alone.
LEMMA CompleteFrame ==
    ASSUME StateIsComplete, Committed' = Committed, UNCHANGED <<owed, saved, broken>>,
           pool' \subseteq pool,
           \A t \in Streams : srv[t] \in {"packages", "save", "acknowledge"} => srv'[t] = srv[t]
    PROVE  StateIsComplete'
<1>1. AcknowledgedIsSaved'
  BY DEF StateIsComplete, AcknowledgedIsSaved
<1>2. SavedIsAcknowledged'
  BY DEF StateIsComplete, SavedIsAcknowledged
<1>3. PackagesAreUsable'
  BY DEF StateIsComplete, PackagesAreUsable
<1> QED BY <1>1, <1>2, <1>3 DEF StateIsComplete

LEMMA AddKeyPackageComplete ==
    ASSUME Inv, NEW s \in Streams, AddKeyPackage(s), Committed' = Committed
    PROVE  StateIsComplete'
<1>1. TypeOK /\ LockInv(s) /\ StateIsComplete
  BY DEF Inv, UserInv
<1>2. srv'[s] \in {"packages", "save"} /\ srv[s] = "packages" /\ UNCHANGED <<owed, saved, broken>>
  BY <1>1, AddKeyPackageIs DEF storeVars
<1>3. \A t \in Streams : srv[t] = "acknowledge" => srv'[t] = "acknowledge"
  BY <1>1, <1>2 DEF AddKeyPackage, TypeOK
<1> QED BY <1>1, <1>2, <1>3
        DEF StateIsComplete, AcknowledgedIsSaved, SavedIsAcknowledged, PackagesAreUsable

\* The new state contains the saved one, and opens all that is on offer.
LEMMA SaveComplete ==
    ASSUME Inv, NEW s \in Streams, Save(s), Committed' = Committed
    PROVE  StateIsComplete'
<1>1. TypeOK /\ CoverInv(s) /\ OrderInv(s) /\ StateIsComplete
  BY DEF Inv, UserInv
<1>2. /\ srv[s] = "save" /\ srv'[s] = "acknowledge" /\ saved' = pending[s].state
      /\ UNCHANGED <<owed, pool, broken>>
  BY <1>1 DEF Save, TypeOK, storeVars
<1>3. Below(saved, pending[s].state)
  BY <1>1, <1>2 DEF OrderInv, Updating
<1>4. ~broken => pool \subseteq pending[s].state.keys
  BY <1>1, <1>2 DEF CoverInv, Active
<1>5. AcknowledgedIsSaved'
  BY <1>1, <1>2, <1>3 DEF StateIsComplete, AcknowledgedIsSaved, Below
<1>6. SavedIsAcknowledged'
  BY <1>2 DEF SavedIsAcknowledged
<1>7. PackagesAreUsable'
  BY <1>2, <1>4 DEF PackagesAreUsable
<1> QED BY <1>5, <1>6, <1>7 DEF StateIsComplete

LEMMA AcknowledgeComplete ==
    ASSUME Inv, NEW s \in Streams, Acknowledge(s), Committed' = Committed
    PROVE  StateIsComplete'
<1>1. TypeOK /\ CoverInv(s) /\ OrderInv(s) /\ StateIsComplete /\ KnownInv
  BY DEF Inv, UserInv
<1>2. /\ srv[s] = "acknowledge" /\ Updating(s) /\ srv[s] \in Active
      /\ UNCHANGED <<saved, pool, broken>>
      /\ \A m \in Messages : <<m, User>> \in owed' <=> <<m, User>> \in owed /\ m \notin pending[s].acks
  BY <1>1, AcknowledgeIs
<1>3. /\ pending[s].acks \subseteq pending[s].state.seen /\ saved = pending[s].state
  BY <1>1, <1>2 DEF OrderInv, Sound
<1>4. ~broken => saved.seen \cap OwedToUser \subseteq pending[s].acks
  BY <1>1, <1>2, <1>3 DEF CoverInv
<1>5. Committed \subseteq Messages /\ saved.seen \subseteq Messages
  BY <1>1 DEF Committed, KnownInv
<1>6. AcknowledgedIsSaved'
  BY <1>1, <1>2, <1>3, <1>5 DEF StateIsComplete, AcknowledgedIsSaved
<1>7. SavedIsAcknowledged'
  BY <1>2, <1>4, <1>5 DEF SavedIsAcknowledged, OwedToUser
<1>8. PackagesAreUsable'
  <2>1. \A t \in Streams : srv[t] \notin {"packages", "save"}
    <3>1. \A t \in Streams : t # s => ~Updating(t)
      BY <1>2, Alone
    <3> QED BY <1>2, <3>1 DEF Updating
  <2> QED BY <1>1, <1>2, <2>1 DEF StateIsComplete, PackagesAreUsable
<1> QED BY <1>6, <1>7, <1>8 DEF StateIsComplete

LEMMA UpdateFailsComplete ==
    ASSUME Inv, NEW s \in Streams, UpdateFails(s), Committed' = Committed
    PROVE  StateIsComplete'
<1>1. StateIsComplete
  BY DEF Inv, UserInv
<1>2. UNCHANGED <<saved, owed, pool>> /\ broken' = TRUE
  BY DEF UpdateFails, returnFrame, storeVars
<1> QED BY <1>1, <1>2
        DEF StateIsComplete, AcknowledgedIsSaved, SavedIsAcknowledged, PackagesAreUsable

LEMMA SessionComplete ==
    ASSUME Inv, NEW s \in Streams, SessionStep(s), Committed' = Committed
    PROVE  StateIsComplete'
<1>1. TypeOK /\ StateIsComplete
  BY DEF Inv, UserInv
<1>2. CASE UpdateStep(s) \/ UpdateFails(s)
  BY <1>2, AddKeyPackageComplete, SaveComplete, AcknowledgeComplete, UpdateFailsComplete
  DEF UpdateStep
<1>3. CASE FeedStep(s)
  BY <1>1, <1>3, FeedQuiet, CompleteFrame DEF feedFrame
<1>4. CASE ClientStep(s) \/ Stop(s)
  <2>1. UNCHANGED <<owed, saved, broken, pool, srv>>
    BY <1>4 DEF ClientStep, Stop, ReadState, ReadMessage, ReadCount, Timeout, LoseTrack,
                ReadResult, Return, clientFrame, storeVars
  <2> QED BY <1>1, <2>1, CompleteFrame
<1>5. CASE Connect(s) \/ Lock(s) \/ SendMessage(s) \/ SendCount(s) \/ ReadUpdate(s)
           \/ Finish(s) \/ Fail(s) \/ ClientLost(s)
  <2>1. UNCHANGED <<owed, saved, broken, pool>>
    BY <1>5 DEF Connect, Lock, SendMessage, SendCount, ReadUpdate, Finish, Fail, ClientLost,
                returnFrame, storeVars
  <2>2. \A t \in Streams : srv[t] \in {"packages", "save", "acknowledge"} => srv'[t] = srv[t]
    BY <1>1, <1>5 DEF Connect, Lock, SendMessage, SendCount, ReadUpdate, Finish, Fail, ClientLost,
                Release, TypeOK
  <2> QED BY <1>1, <2>1, <2>2, CompleteFrame
<1> QED BY <1>2, <1>3, <1>4, <1>5 DEF SessionStep, HandlerStep

(***************************************************************************)
(* The steps of the store, of other users, and of the server as a whole.   *)
(***************************************************************************)
\* The user is owed what is committed, and nothing else becomes owed.
LEMMA StoreOwes ==
    ASSUME TypeOK, KnownInv, StoreStep
    PROVE  /\ \A m \in Messages : <<m, User>> \in owed => <<m, User>> \in owed'
           /\ \A m \in Committed : <<m, User>> \in owed' => <<m, User>> \in owed
           /\ \A m \in Messages :
                 m \in Committed' /\ m \notin Committed /\ User \in To[m] => <<m, User>> \in owed'
<1>1. StoreTypeOK /\ StoreKnown
  BY DEF TypeOK, KnownInv
<1>2. ASSUME NEW m \in Messages, CommitAdd(m)
      PROVE  /\ owed' = owed \cup ({m} \X To[m])
             /\ Committed' = Committed \cup {m} /\ m \notin Committed
  BY <1>1, <1>2, CommitAddStore DEF CommitAdd
<1>3. CASE \E m \in Messages : CommitAdd(m)
  BY <1>2, <1>3
<1>4. CASE ~ \E m \in Messages : CommitAdd(m)
  <2>1. owed' = owed
    BY <1>4 DEF StoreStep, BeginAdd, FailAdd, Distribute, TakeRequest, HandOver
  <2>2. Committed' = Committed
    BY <1>1, <1>4, BeginAddStore, FailAddStore, DistributeStore, TakeRequestStore, HandOverStore
    DEF StoreStep
  <2> QED BY <2>1, <2>2
<1> QED BY <1>3, <1>4

LEMMA StoreKeeps ==
    ASSUME Inv, Store
    PROVE  UserInv'
<1>1. /\ TypeOK /\ KnownInv /\ StateIsComplete
      /\ \A t \in Streams : LockInv(t) /\ OrderInv(t) /\ CoverInv(t)
  BY DEF Inv, UserInv
<1>2. KnownInv' /\ \A t \in Streams : LockInv(t)'
  BY <1>1, OtherKnown, OtherLock
<1>3. /\ \A m \in Messages : <<m, User>> \in owed => <<m, User>> \in owed'
      /\ \A m \in Committed : <<m, User>> \in owed' => <<m, User>> \in owed
      /\ \A m \in Messages :
            m \in Committed' /\ m \notin Committed /\ User \in To[m] => <<m, User>> \in owed'
  BY <1>1, StoreOwes DEF Store
<1>4. /\ UNCHANGED <<saved, pool, lock, srv, pending, up, down, cl, local, done, broken>>
      /\ Committed \subseteq Messages /\ Committed' \subseteq Messages
  BY DEF Store, otherVars, sessionVars, Committed
<1>5. StateIsComplete'
  <2>1. AcknowledgedIsSaved'
    BY <1>1, <1>3, <1>4 DEF StateIsComplete, AcknowledgedIsSaved
  <2>2. SavedIsAcknowledged'
    BY <1>1, <1>3, <1>4 DEF StateIsComplete, SavedIsAcknowledged, KnownInv
  <2>3. PackagesAreUsable'
    BY <1>1, <1>4 DEF StateIsComplete, PackagesAreUsable
  <2> QED BY <2>1, <2>2, <2>3 DEF StateIsComplete
<1>6. ASSUME NEW t \in Streams PROVE OrderInv(t)'
  <2>1. OrderInv(t) /\ Updating(t)' = Updating(t) /\ Low(t)' = Low(t)
    BY <1>1, <1>4 DEF Low, Updating
  <2> QED BY <1>4, <2>1 DEF OrderInv
<1>7. ASSUME NEW t \in Streams PROVE CoverInv(t)'
  <2>1. CoverInv(t) /\ Updating(t)' = Updating(t) /\ Base(t)' = Base(t) /\ Intact(t)' = Intact(t)
    BY <1>1, <1>4 DEF Base, Updating, Intact
  <2>2. PICK M : M = OwedToUser
    OBVIOUS
  <2>3. PICK N : N = OwedToUser'
    OBVIOUS
  <2>4. PICK C : C = Committed
    OBVIOUS
  <2>5. N \cap C \subseteq M
    BY <1>3, <2>2, <2>3, <2>4 DEF OwedToUser
  <2>6. /\ UpKnown(up[t], C) /\ local[t].seen \subseteq C
        /\ pending[t] # NoUpdate => pending[t].state.seen \subseteq C
    BY <1>1, <2>4 DEF KnownInv, SessionKnown
  <2>7. Covered(up[t], Base(t), M) => Covered(up[t], Base(t), N)
    BY <2>5, <2>6, CoveredMore
  <2>8. Updating(t) => pending[t] # NoUpdate
    BY <1>1 DEF LockInv
  <2> QED BY <1>4, <2>1, <2>2, <2>3, <2>5, <2>6, <2>7, <2>8 DEF CoverInv
<1> QED BY <1>2, <1>5, <1>6, <1>7 DEF UserInv

LEMMA UsePackageKeeps ==
    ASSUME Inv, UsePackage
    PROVE  UserInv'
<1>1. /\ TypeOK /\ KnownInv /\ StateIsComplete
      /\ \A t \in Streams : LockInv(t) /\ OrderInv(t) /\ CoverInv(t)
  BY DEF Inv, UserInv
<1>2. KnownInv' /\ \A t \in Streams : LockInv(t)'
  BY <1>1, OtherKnown, OtherLock
<1>3. /\ UNCHANGED <<owed, adding, saved, lock, srv, pending, up, down, cl, local, done, broken>>
      /\ pool' \subseteq pool
  BY DEF UsePackage, storeVars, sessionVars
<1>4. StateIsComplete'
  <2>1. Committed' = Committed
    BY <1>3 DEF Committed
  <2> QED BY <1>1, <1>3, <2>1, CompleteFrame
<1>5. ASSUME NEW t \in Streams PROVE OrderInv(t)' /\ CoverInv(t)'
  <2>1. /\ OrderInv(t) /\ CoverInv(t) /\ Updating(t)' = Updating(t) /\ Low(t)' = Low(t)
        /\ Base(t)' = Base(t) /\ Intact(t)' = Intact(t) /\ OwedToUser' = OwedToUser
    BY <1>1, <1>3 DEF Low, Updating, Base, Intact, OwedToUser
  <2>2. OrderInv(t)'
    BY <1>3, <2>1 DEF OrderInv
  <2>3. CoverInv(t)'
    BY <1>3, <2>1 DEF CoverInv
  <2> QED BY <2>2, <2>3
<1> QED BY <1>2, <1>4, <1>5 DEF UserInv

LEMMA RestartKeeps ==
    ASSUME Inv, Restart
    PROVE  UserInv'
<1>1. /\ TypeOK /\ KnownInv /\ StateIsComplete
      /\ \A t \in Streams : LockInv(t) /\ OrderInv(t) /\ CoverInv(t)
  BY DEF Inv, UserInv
<1>2. KnownInv' /\ \A t \in Streams : LockInv(t)'
  BY <1>1, OtherKnown, OtherLock
<1>3. /\ UNCHANGED <<owed, saved, pool, cl, local, done>>
      /\ broken' = (broken \/ \E s \in Streams : Updating(s))
      /\ \A t \in Streams : srv'[t] \in {"off", "ended"}
  BY DEF Restart, StoreRestart
<1>4. Committed' = Committed
  BY <1>1, RestartType DEF KnownInv
<1>5. StateIsComplete'
  <2>1. AcknowledgedIsSaved'
    BY <1>1, <1>3, <1>4 DEF StateIsComplete, AcknowledgedIsSaved
  <2>2. SavedIsAcknowledged'
    BY <1>1, <1>3 DEF StateIsComplete, SavedIsAcknowledged, Updating
  <2>3. PackagesAreUsable'
    BY <1>1, <1>3 DEF StateIsComplete, PackagesAreUsable, Updating
  <2> QED BY <2>1, <2>2, <2>3 DEF StateIsComplete
<1>6. ASSUME NEW t \in Streams PROVE OrderInv(t)' /\ CoverInv(t)'
  <2>1. OrderInv(t) /\ srv'[t] \notin Active /\ ~Updating(t)'
    BY <1>1, <1>3 DEF Active, Updating
  <2> QED BY <1>3, <2>1 DEF OrderInv, CoverInv
<1> QED BY <1>2, <1>5, <1>6 DEF UserInv

LEMMA InitInv == Init => Inv
<1> SUFFICES ASSUME Init PROVE Inv
  OBVIOUS
<1>1. TypeOK /\ StoreKnown /\ \A s \in Streams : LockInv(s)
  BY InitType, InitLock
<1>2. Committed = {}
  BY DEF Init, StoreInit, Committed
<1>3. StateIsComplete
  BY <1>2 DEF Init, Empty, StateIsComplete, AcknowledgedIsSaved, SavedIsAcknowledged, PackagesAreUsable
<1>4. ASSUME NEW s \in Streams PROVE FeedKnown(s) /\ SessionKnown(s)
  BY WithinEmpty, EmptyQueue DEF Init, FeedKnown, SessionKnown, Empty
<1>5. ASSUME NEW s \in Streams PROVE OrderInv(s) /\ CoverInv(s)
  BY DEF Init, OrderInv, CoverInv, Updating, Active, Working
<1>6. KnownInv
  BY <1>1, <1>4 DEF KnownInv, Init, Empty
<1> QED BY <1>1, <1>3, <1>5, <1>6 DEF Inv, UserInv

LEMMA NextInv == Inv /\ [Next]_vars => Inv'
<1> SUFFICES ASSUME Inv, [Next]_vars PROVE Inv'
  OBVIOUS
<1>1. /\ TypeOK /\ KnownInv /\ StoreKnown /\ StateIsComplete
      /\ \A t \in Streams : LockInv(t) /\ OrderInv(t) /\ CoverInv(t)
  BY DEF Inv, UserInv, KnownInv
<1>2. TypeOK'
  BY <1>1, NextType
<1>3. ASSUME NEW s \in Streams, SessionStep(s) PROVE UserInv'
  <2>1. Committed' = Committed
    BY <1>1, <1>3, SessionType
  <2>2. KnownInv' /\ \A t \in Streams : LockInv(t)'
    BY <1>1, <1>3, SessionKnownStep, SessionLock
  <2>3. \A t \in Streams : OrderInv(t)'
    BY <1>1, <1>3, SessionOrder
  <2>4. \A t \in Streams : CoverInv(t)'
    BY <1>3, SessionCover
  <2>5. StateIsComplete'
    BY <1>3, <2>1, SessionComplete
  <2> QED BY <2>2, <2>3, <2>4, <2>5 DEF UserInv
<1>4. ASSUME UNCHANGED vars PROVE UserInv'
  <2>1. /\ UNCHANGED <<owed, adding, saved, lock, srv, pending, up, down, cl, local, done, broken>>
        /\ pool' = pool /\ UNCHANGED storeVars /\ UNCHANGED <<batch, channel>>
    BY <1>4 DEF vars, storeVars
  <2>2. ASSUME NEW t \in Streams PROVE LockInv(t)' /\ OrderInv(t)' /\ CoverInv(t)'
    <3>1. Quiet(t)
      BY <2>1 DEF Quiet
    <3> QED BY <1>1, <3>1, QuietKeeps
  <2>3. StoreKnown' /\ Committed' = Committed
    BY <1>1, <2>1, StoreFrame DEF TypeOK
  <2>4. StateIsComplete'
    BY <1>1, <2>1, <2>3, CompleteFrame
  <2>5. KnownInv'
    BY <1>1, <2>1, <2>3 DEF KnownInv, FeedKnown, SessionKnown
  <2> QED BY <2>2, <2>4, <2>5 DEF UserInv
<1>5. ASSUME Store \/ UsePackage \/ Restart PROVE UserInv'
  BY <1>5, StoreKeeps, UsePackageKeeps, RestartKeeps
<1>6. UserInv'
  BY <1>3, <1>4, <1>5 DEF Next, SessionStep
<1> QED BY <1>2, <1>6 DEF Inv

\* However many sessions the user has, whatever they lose or misread, and
\* wherever handle_response or the server stops: a message is acknowledged only
\* if the saved state has processed it, and unless an update was cut short, a
\* processed message is not delivered again and every key package on offer can
\* be opened with the saved state.
THEOREM StateIsAlwaysComplete == Spec => []StateIsComplete
<1>1. Inv => StateIsComplete
  BY DEF Inv, UserInv
<1> QED BY <1>1, InitInv, NextInv, PTL DEF Spec

\* Though update_mls_data replaces the row blindly, no session ever overwrites
\* what another one has saved: the saved state only grows.
THEOREM SavedOnlyGrows == Spec => SavedNeverGoesBack
<1>1. ASSUME Inv, [Next]_vars
      PROVE  [saved.seen \subseteq saved'.seen /\ saved.keys \subseteq saved'.keys]_vars
  <2>1. ASSUME NEW s \in Streams, Save(s)
        PROVE  saved.seen \subseteq saved'.seen /\ saved.keys \subseteq saved'.keys
    <3>1. OrderInv(s) /\ Updating(s)
      BY <1>1, <2>1 DEF Inv, UserInv, Save, Updating
    <3> QED BY <2>1, <3>1 DEF OrderInv, Below, Save
  <2>2. ASSUME ~ \E s \in Streams : Save(s) PROVE saved' = saved
    <3>1. ASSUME NEW s \in Streams, HandlerStep(s) \/ SendCount(s) \/ Connect(s) PROVE saved' = saved
      BY <2>2, <3>1 DEF HandlerStep, UpdateStep, Lock, SendMessage, SendCount, ReadUpdate, Finish,
         Fail, ClientLost, AddKeyPackage, Acknowledge, UpdateFails, returnFrame, Connect
    <3>2. ASSUME NEW s \in Streams, FeedStep(s) PROVE saved' = saved
      BY <3>2, FeedQuiet DEF feedFrame
    <3>3. ASSUME NEW s \in Streams, ClientStep(s) \/ Stop(s) PROVE saved' = saved
      BY <3>3 DEF ClientStep, ReadState, ReadMessage, ReadCount, Timeout, LoseTrack, ReadResult,
         Return, Stop, clientFrame
    <3>4. CASE Store \/ UsePackage \/ Restart
      BY <3>4 DEF Store, UsePackage, Restart, otherVars
    <3>5. CASE UNCHANGED vars
      BY <3>5 DEF vars
    <3> QED BY <1>1, <3>1, <3>2, <3>3, <3>4, <3>5 DEF Next
  <2> QED BY <2>1, <2>2
<1> QED BY <1>1, InitInv, NextInv, PTL DEF Spec, SavedNeverGoesBack

=============================================================================

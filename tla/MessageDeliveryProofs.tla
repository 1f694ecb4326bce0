------------------------- MODULE MessageDeliveryProofs -------------------------
(***************************************************************************)
(* What MessageDelivery promises, for every set of messages, members and   *)
(* connections, every capacity of the channels, and any number of server   *)
(* restarts: no stored message is lost to a member it was stored for       *)
(* (NothingLost), and none passes a live connection by (NothingPassesBy).  *)
(*                                                                         *)
(* The argument of NothingLost is about the lines of a stream (LineInv):   *)
(* what reaches the DELETE was answered Ok, hence processed.  The one of   *)
(* NothingPassesBy follows a subscription from load_all_for to the         *)
(* manager: until the manager has it, what the member is owed was loaded,  *)
(* or is still coming to the manager, or was handed out too early          *)
(* (LoadInv); from then on the manager hands it over (PassInv).            *)
(***************************************************************************)
EXTENDS MessageDelivery, MessageStoreProofs

Streaming == {"next", "wait", "acknowledge", "cleanup"}

Holds(q, x) == \E i \in 1 .. Len(q) : q[i] = x
Once(q, x) == \A i, j \in 1 .. Len(q) : q[i] = x /\ q[j] = x => i = j

\* The stream's subscription has not reached the manager yet.
Asked(s) == Holds(requests, Subscription(s))

\* Loaded, and not yet taken off the member's rows.
Kept(s, m) == m = cur[s] \/ Holds(batch[s], m)

\* The manager will be asked to hand the message out.
Coming(m) == adding[m] = "committed" \/ Holds(requests, Distribution(m))

\* Underway, in terms of Holds.
Way(s, m) ==
    \/ Kept(s, m)
    \/ Holds(sub[s].queue, m)
    \/ handing.msg = m /\ Owner[s] \in handing.left
    \/ Coming(m)

\* The two tables fit: a receiver's row has its message, and was asked for.
RowsInv ==
    \A m \in Messages, r \in Receivers : <<m, r>> \in owed => m \in stored /\ r \in To[m]

\* What a stream delivers was stored; it acknowledges what was processed.
LineInv(s) ==
    /\ line[s] # "none" => at[s] = "wait"
    /\ at[s] \in {"acknowledge", "cleanup"} \/ line[s] = "ok" => cur[s] \in handled[Owner[s]]
    /\ at[s] = "cleanup" => <<cur[s], Owner[s]>> \notin owed
    /\ cur[s] # None => cur[s] \in Committed
    /\ Within(batch[s], Committed)
    /\ since[s] \subseteq Committed

\* Where a stream's subscription is.
AskInv(s) ==
    /\ at[s] \in Streaming => sub[s].open
    /\ at[s] \in {"off", "load", "subscribe"} => ~Asked(s)
    /\ at[s] \in {"off", "load", "subscribe"} \/ Asked(s) => subscribed[Owner[s]] # s
    /\ Once(requests, Subscription(s))

\* Between load_all_for and the registration of the subscription.
LoadInv(s) ==
    at[s] = "subscribe" \/ (at[s] \in Streaming /\ Asked(s)) =>
        \A m \in Messages : <<m, Owner[s]>> \in owed =>
            /\ m \in since[s] => Kept(s, m)
            /\ m \notin since[s] => Coming(m) \/ m \in taken

\* Once the subscription is registered.
PassInv(s) ==
    at[s] \in Streaming /\ subscribed[Owner[s]] = s =>
        \A m \in Messages : <<m, Owner[s]>> \in owed => Way(s, m) \/ m \in since[s]

StreamInv(s) == LineInv(s) /\ AskInv(s) /\ LoadInv(s) /\ PassInv(s)

\* The inductive invariant.
DInv ==
    /\ TypeOK /\ StoreKnown
    /\ RowsInv /\ NothingLost
    /\ taken \subseteq Committed
    /\ \A s \in Streams : StreamInv(s)

(***************************************************************************)
(* Queues.                                                                 *)
(***************************************************************************)
LEMMA HoldsTail ==
    ASSUME NEW T, NEW q \in Seq(T), q # << >>
    PROVE  \A x : Holds(q, x) <=> x = Head(q) \/ Holds(Tail(q), x)
<1> TAKE x
<1>1. ASSUME Holds(q, x) PROVE x = Head(q) \/ Holds(Tail(q), x)
  <2>1. PICK i \in 1 .. Len(q) : q[i] = x
    BY <1>1 DEF Holds
  <2>2. i = 1 \/ (i - 1 \in 1 .. Len(Tail(q)) /\ Tail(q)[i - 1] = q[i])
    BY TailQueue
  <2> QED BY <2>1, <2>2, TailQueue DEF Holds
<1>2. ASSUME x = Head(q) PROVE Holds(q, x)
  <2>1. 1 \in 1 .. Len(q) /\ Head(q) = q[1]
    BY TailQueue
  <2> QED BY <1>2, <2>1 DEF Holds
<1>3. ASSUME Holds(Tail(q), x) PROVE Holds(q, x)
  <2>1. PICK i \in 1 .. Len(Tail(q)) : Tail(q)[i] = x
    BY <1>3 DEF Holds
  <2>2. i + 1 \in 1 .. Len(q) /\ q[i + 1] = x
    BY <2>1, TailQueue
  <2> QED BY <2>2 DEF Holds
<1> QED BY <1>1, <1>2, <1>3

LEMMA HoldsAppend ==
    ASSUME NEW T, NEW q \in Seq(T), NEW y \in T
    PROVE  \A x : Holds(Append(q, y), x) <=> x = y \/ Holds(q, x)
<1> TAKE x
<1>1. ASSUME Holds(Append(q, y), x) PROVE x = y \/ Holds(q, x)
  BY <1>1, AppendQueue DEF Holds
<1>2. ASSUME Holds(q, x) PROVE Holds(Append(q, y), x)
  BY <1>2, AppendQueue DEF Holds
<1>3. ASSUME x = y PROVE Holds(Append(q, y), x)
  <2>1. /\ Len(q) + 1 \in 1 .. Len(Append(q, y))
        /\ Append(q, y)[Len(q) + 1] = y
    BY AppendQueue
  <2> QED BY <1>3, <2>1 DEF Holds
<1> QED BY <1>1, <1>2, <1>3

LEMMA HoldsEmpty == \A x : ~Holds(<< >>, x)
BY DEF Holds

LEMMA OnceTail ==
    ASSUME NEW T, NEW q \in Seq(T), q # << >>, NEW x, Once(q, x)
    PROVE  Once(Tail(q), x) /\ (Head(q) = x => ~Holds(Tail(q), x))
<1>1. ASSUME NEW i \in 1 .. Len(Tail(q)), NEW j \in 1 .. Len(Tail(q)),
             Tail(q)[i] = x, Tail(q)[j] = x
      PROVE  i = j
  <2>1. /\ i + 1 \in 1 .. Len(q) /\ q[i + 1] = x
        /\ j + 1 \in 1 .. Len(q) /\ q[j + 1] = x
    BY <1>1, TailQueue
  <2>2. i + 1 = j + 1
    BY <2>1 DEF Once
  <2> QED BY <2>2
<1>2. ASSUME Head(q) = x, NEW i \in 1 .. Len(Tail(q)), Tail(q)[i] = x
      PROVE  FALSE
  <2>1. /\ i + 1 \in 1 .. Len(q) /\ q[i + 1] = x
        /\ 1 \in 1 .. Len(q) /\ q[1] = x
    BY <1>2, TailQueue
  <2>2. i + 1 = 1
    BY <2>1 DEF Once
  <2> QED BY <2>2
<1> QED BY <1>1, <1>2 DEF Once, Holds

LEMMA OnceAppend ==
    ASSUME NEW T, NEW q \in Seq(T), NEW y \in T, NEW x, Once(q, x),
           y = x => ~Holds(q, x)
    PROVE  Once(Append(q, y), x)
<1> DEFINE a == Append(q, y)
<1>1. ASSUME NEW i \in 1 .. Len(a), NEW j \in 1 .. Len(a), a[i] = x, a[j] = x
      PROVE  i = j
  <2>1. CASE y = x
    <3>1. i = Len(q) + 1 /\ j = Len(q) + 1
      BY <1>1, <2>1, AppendQueue DEF Holds
    <3> QED BY <3>1
  <2>2. CASE y # x
    <3>1. /\ i \in 1 .. Len(q) /\ q[i] = x
          /\ j \in 1 .. Len(q) /\ q[j] = x
      BY <1>1, <2>2, AppendQueue
    <3> QED BY <3>1 DEF Once
  <2> QED BY <2>1, <2>2
<1> QED BY <1>1 DEF Once

LEMMA OnceEmpty == \A x : Once(<< >>, x)
BY DEF Once

(***************************************************************************)
(* The types, action by action.                                            *)
(***************************************************************************)
LEMMA Kinds ==
    /\ None \notin Messages /\ None \notin Streams
    /\ \A s \in Streams : Owner[s] \in Receivers
BY StoreAssumption DEF None

LEMMA InitType == Init => TypeOK /\ StoreKnown
<1> SUFFICES ASSUME Init PROVE TypeOK /\ StoreKnown
  OBVIOUS
<1>1. StoreTypeOK /\ StoreKnown
  BY StoreInitType DEF Init
<1>2. << >> \in Seq(Messages) /\ 0 \in 0 .. MaxRestarts
  BY DeliveryAssumption
<1> QED BY <1>1, <1>2 DEF Init, TypeOK

LEMMA ConnectType ==
    ASSUME TypeOK, StoreKnown, NEW s \in Streams, Connect(s)
    PROVE  TypeOK' /\ StoreKnown' /\ Committed' = Committed
<1>1. StoreTypeOK' /\ StoreKnown' /\ Committed' = Committed
  BY StoreFrame DEF TypeOK, Connect
<1> QED BY <1>1 DEF TypeOK, Connect

LEMMA LoadType ==
    ASSUME TypeOK, StoreKnown, NEW s \in Streams, Load(s)
    PROVE  TypeOK' /\ StoreKnown' /\ Committed' = Committed
<1>1. StoreTypeOK' /\ StoreKnown' /\ Committed' = Committed
  BY StoreFrame DEF TypeOK, Load
<1>2. OwedTo(Owner[s]) \in SUBSET Messages
  BY DEF TypeOK, StoreTypeOK, OwedTo
<1>3. PICK f \in Loads(OwedTo(Owner[s])) : batch' = [batch EXCEPT ![s] = f]
  BY DEF Load
<1>4. f \in Seq(Messages)
  BY <1>2, LoadsFacts
<1> QED BY <1>1, <1>2, <1>3, <1>4 DEF TypeOK, Load

LEMMA SubscribeType ==
    ASSUME TypeOK, StoreKnown, NEW s \in Streams, Subscribe(s)
    PROVE  TypeOK' /\ StoreKnown' /\ Committed' = Committed
<1>1. StoreTypeOK' /\ StoreKnown' /\ Committed' = Committed
  BY SubscribeStore DEF TypeOK, Subscribe
<1> QED BY <1>1 DEF TypeOK, Subscribe

\* The task ends, whatever handle_connection does.
LEMMA EndType ==
    ASSUME TypeOK, StoreKnown, NEW s \in Streams, End(s),
           UNCHANGED <<stored, owed, adding, earlier, requests, handing, subscribed,
                       conn, handled, since, taken, restarts>>,
           serving' \in [Streams -> BOOLEAN]
    PROVE  TypeOK' /\ StoreKnown' /\ Committed' = Committed
<1>1. StoreTypeOK' /\ StoreKnown' /\ Committed' = Committed
  BY SubStore DEF TypeOK, End
<1>2. << >> \in Seq(Messages)
  OBVIOUS
<1> QED BY <1>1, <1>2 DEF TypeOK, End

LEMMA OfferType ==
    ASSUME TypeOK, StoreKnown, NEW s \in Streams, NEW m \in Messages, Offer(s, m),
           batch' \in [Streams -> Seq(Messages)], StoreTypeOK'
    PROVE  TypeOK'
BY Kinds DEF TypeOK, Offer

LEMMA NextLoadedType ==
    ASSUME TypeOK, StoreKnown, NEW s \in Streams, NextLoaded(s)
    PROVE  TypeOK' /\ StoreKnown' /\ Committed' = Committed
<1>1. StoreTypeOK' /\ StoreKnown' /\ Committed' = Committed
  BY SubStore DEF TypeOK, NextLoaded, Offer
<1>2. PICK m : m = Head(batch[s])
  OBVIOUS
<1>3. m \in Messages /\ Tail(batch[s]) \in Seq(Messages)
  BY <1>2, TailQueue DEF TypeOK, NextLoaded
<1>4. batch' \in [Streams -> Seq(Messages)]
  BY <1>3 DEF TypeOK, NextLoaded
<1>5. Offer(s, m)
  BY <1>2 DEF NextLoaded
<1> QED BY <1>1, <1>3, <1>4, <1>5, OfferType

LEMMA NextLiveType ==
    ASSUME TypeOK, StoreKnown, NEW s \in Streams, NextLive(s)
    PROVE  TypeOK' /\ StoreKnown' /\ Committed' = Committed
<1>1. StoreTypeOK' /\ StoreKnown' /\ Committed' = Committed
  BY SubStore DEF TypeOK, NextLive, Offer
<1>2. PICK m : m = Head(sub[s].queue)
  OBVIOUS
<1>3. m \in Messages
  <2>1. sub[s].queue \in Seq(Messages) /\ sub[s].queue # << >>
    BY DEF TypeOK, StoreTypeOK, NextLive
  <2> QED BY <1>2, <2>1, TailQueue
<1>4. Offer(s, m) /\ batch' \in [Streams -> Seq(Messages)]
  BY <1>2 DEF NextLive, TypeOK
<1> QED BY <1>1, <1>3, <1>4, OfferType

LEMMA EndsType ==
    ASSUME TypeOK, StoreKnown, NEW s \in Streams,
           Undeliverable(s) \/ Unfed(s) \/ StatementFails(s)
    PROVE  TypeOK' /\ StoreKnown' /\ Committed' = Committed
BY EndType DEF TypeOK, Undeliverable, Unfed, StatementFails

LEMMA FeedbackType ==
    ASSUME TypeOK, StoreKnown, NEW s \in Streams, Feedback(s)
    PROVE  TypeOK' /\ StoreKnown' /\ Committed' = Committed
<1>1. CASE line[s] = "err" /\ End(s)
  BY <1>1, EndType DEF TypeOK, Feedback
<1>2. CASE /\ line[s] = "ok"
           /\ at' = [at EXCEPT ![s] = "acknowledge"]
           /\ line' = [line EXCEPT ![s] = "none"]
           /\ UNCHANGED <<batch, cur, sub>>
  <2>1. StoreTypeOK' /\ StoreKnown' /\ Committed' = Committed
    BY <1>2, SubStore DEF TypeOK, Feedback
  <2> QED BY <1>2, <2>1 DEF TypeOK, Feedback
<1> QED BY <1>1, <1>2 DEF Feedback

LEMMA AcknowledgeType ==
    ASSUME TypeOK, StoreKnown, NEW s \in Streams, Acknowledge(s)
    PROVE  TypeOK' /\ StoreKnown' /\ Committed' = Committed
<1>1. StoreTypeOK' /\ StoreKnown' /\ Committed' = Committed
  BY DeleteStore DEF TypeOK, Acknowledge, DropReceivers
<1> QED BY <1>1 DEF TypeOK, Acknowledge

LEMMA CleanupType ==
    ASSUME TypeOK, StoreKnown, NEW s \in Streams, Cleanup(s)
    PROVE  TypeOK' /\ StoreKnown' /\ Committed' = Committed
<1>1. StoreTypeOK' /\ StoreKnown' /\ Committed' = Committed
  BY DeleteStore DEF TypeOK, Cleanup, DropMessages
<1> QED BY <1>1 DEF TypeOK, Cleanup

LEMMA LineType ==
    ASSUME TypeOK, StoreKnown, NEW s \in Streams, LineInv(s),
           Write(s) \/ MemberHandles(s) \/ MemberRefuses(s) \/ Disconnect(s)
    PROVE  TypeOK' /\ StoreKnown' /\ Committed' = Committed
<1>1. StoreTypeOK' /\ StoreKnown' /\ Committed' = Committed
  BY StoreFrame DEF TypeOK, Write, MemberHandles, MemberRefuses, Disconnect
<1>2. CASE Write(s) \/ MemberRefuses(s) \/ Disconnect(s)
  BY <1>1, <1>2 DEF TypeOK, Write, MemberRefuses, Disconnect
<1>3. CASE MemberHandles(s)
  <2>1. cur[s] \in Messages
    <3>1. at[s] = "wait"
      BY <1>3 DEF MemberHandles, LineInv
    <3> QED BY <3>1 DEF TypeOK
  <2>2. handled' \in [Receivers -> SUBSET Messages]
    BY <1>3, <2>1, Kinds DEF TypeOK, MemberHandles
  <2> QED BY <1>1, <1>3, <2>2 DEF TypeOK, MemberHandles
<1> QED BY <1>2, <1>3

LEMMA ServingEndsType ==
    ASSUME TypeOK, StoreKnown, NEW s \in Streams, ServingEnds(s)
    PROVE  TypeOK' /\ StoreKnown' /\ Committed' = Committed
<1>1. serving' \in [Streams -> BOOLEAN]
  BY DEF TypeOK, ServingEnds
<1>2. CASE at[s] = "wait"
  BY <1>1, <1>2, EndType DEF ServingEnds
<1>3. CASE at[s] # "wait"
  <2>1. StoreTypeOK' /\ StoreKnown' /\ Committed' = Committed
    BY <1>3, SubStore DEF TypeOK, ServingEnds
  <2> QED BY <1>1, <1>3, <2>1 DEF TypeOK, ServingEnds
<1> QED BY <1>2, <1>3

LEMMA AddType ==
    ASSUME TypeOK, StoreKnown, NEW m \in Messages, Add(m)
    PROVE  TypeOK' /\ StoreKnown' /\ Committed \subseteq Committed'
<1>1. StoreTypeOK' /\ StoreKnown' /\ Committed \subseteq Committed'
  BY BeginAddStore, CommitAddStore, FailAddStore, DistributeStore DEF TypeOK, Add
<1> QED BY <1>1 DEF TypeOK, Add, streamVars

LEMMA ManageType ==
    ASSUME TypeOK, StoreKnown, Manage
    PROVE  TypeOK' /\ StoreKnown' /\ Committed' = Committed
<1>1. StoreTypeOK' /\ StoreKnown' /\ Committed' = Committed
  BY TakeRequestStore DEF TypeOK, Manage
<1>2. PICK q : q = Head(requests)
  OBVIOUS
<1>3. q \in Requests
  BY <1>2, TailQueue DEF TypeOK, StoreTypeOK, Manage, TakeRequest
<1>4. CASE q.kind = "subscribe" /\ since' = [since EXCEPT ![q.stream] = taken \ @] /\ taken' = taken
  BY <1>1, <1>3, <1>4, RequestFacts DEF TypeOK, Manage, streamVars
<1>5. CASE q.kind = "distribute" /\ taken' = taken \cup {q.msg} /\ since' = since
  BY <1>1, <1>3, <1>5, RequestFacts DEF TypeOK, Manage, streamVars
<1> QED BY <1>2, <1>4, <1>5 DEF Manage

LEMMA HandOverType ==
    ASSUME TypeOK, StoreKnown, NEW r \in Receivers, ManageHandOver(r)
    PROVE  TypeOK' /\ StoreKnown' /\ Committed' = Committed
<1>1. StoreTypeOK' /\ StoreKnown' /\ Committed' = Committed
  BY HandOverStore DEF TypeOK, ManageHandOver
<1> QED BY <1>1 DEF TypeOK, ManageHandOver, streamVars

LEMMA RestartType ==
    ASSUME TypeOK, StoreKnown, Restart
    PROVE  TypeOK' /\ StoreKnown' /\ Committed' = Committed
<1>1. StoreTypeOK' /\ StoreKnown' /\ Committed' = Committed
  BY RestartStore DEF TypeOK, Restart
<1>2. << >> \in Seq(Messages)
  OBVIOUS
<1>3. restarts' \in 0 .. MaxRestarts
  BY DeliveryAssumption DEF TypeOK, Restart
<1> QED BY <1>1, <1>2, <1>3 DEF TypeOK, Restart

(***************************************************************************)
(* Frames: what a step on another stream, or on nothing of this one,       *)
(* leaves as it was.                                                       *)
(***************************************************************************)
LEMMA RowsFrame ==
    ASSUME TypeOK, RowsInv, NothingLost, Committed' = Committed,
           \A r \in Receivers : handled[r] \subseteq handled'[r],
           UNCHANGED <<stored, owed>>
    PROVE  RowsInv' /\ NothingLost'
<1>1. RowsInv'
  BY DEF RowsInv
<1>2. \A m \in Committed : \A r \in To[m] : m \in Messages /\ r \in Receivers
  BY StoreAssumption DEF Committed
<1> QED BY <1>1, <1>2 DEF NothingLost

LEMMA LostFacts ==
    /\ NothingLost => \A m \in Messages, r \in Receivers :
          m \in Committed /\ r \in To[m] =>
              m \in handled[r] \/ (<<m, r>> \in owed /\ m \in stored)
    /\ (\A m \in Messages, r \in Receivers :
          m \in Committed' /\ r \in To[m] =>
              m \in handled'[r] \/ (<<m, r>> \in owed' /\ m \in stored')) => NothingLost'
<1>1. /\ \A m \in Committed : m \in Messages
      /\ \A m \in Committed' : m \in Messages
      /\ \A m \in Messages : \A r \in To[m] : r \in Receivers
  BY StoreAssumption DEF Committed
<1> QED BY <1>1 DEF NothingLost

LEMMA StreamFrame ==
    ASSUME TypeOK, NEW t \in Streams, StreamInv(t),
           /\ at'[t] = at[t] /\ batch'[t] = batch[t] /\ cur'[t] = cur[t]
           /\ line'[t] = line[t] /\ sub'[t] = sub[t] /\ since'[t] = since[t],
           Committed \subseteq Committed', owed' \subseteq owed,
           \A r \in Receivers : handled[r] \subseteq handled'[r],
           \A m \in Messages : adding[m] = "committed" => adding'[m] = "committed",
           UNCHANGED <<requests, handing, subscribed, taken>>
    PROVE  StreamInv(t)'
<1>1. LineInv(t)'
  <2>1. LineInv(t) /\ Owner[t] \in Receivers
    BY Kinds DEF StreamInv
  <2>2. Within(batch'[t], Committed')
    BY <2>1, WithinMore DEF LineInv
  <2> QED BY <2>1, <2>2 DEF LineInv
<1>2. AskInv(t)'
  BY DEF StreamInv, AskInv, Asked
<1>3. \A m \in Messages : /\ Kept(t, m) => Kept(t, m)'
                          /\ Coming(m) => Coming(m)'
                          /\ Way(t, m) => Way(t, m)'
  BY DEF Kept, Coming, Way
<1>4. LoadInv(t)'
  BY <1>3 DEF StreamInv, LoadInv, Asked
<1>5. PassInv(t)'
  BY <1>3 DEF StreamInv, PassInv
<1> QED BY <1>1, <1>2, <1>4, <1>5 DEF StreamInv

\* The other streams, when a step is about the stream s and the tables only.
LEMMA OthersFrame ==
    ASSUME TypeOK, NEW s \in Streams, \A t \in Streams : StreamInv(t),
           \A t \in Streams \ {s} :
               /\ at'[t] = at[t] /\ batch'[t] = batch[t] /\ cur'[t] = cur[t]
               /\ line'[t] = line[t] /\ sub'[t] = sub[t] /\ since'[t] = since[t],
           Committed' = Committed, owed' \subseteq owed,
           \A r \in Receivers : handled[r] \subseteq handled'[r],
           UNCHANGED <<adding, requests, handing, subscribed, taken>>,
           StreamInv(s)'
    PROVE  \A t \in Streams : StreamInv(t)'
<1>1. ASSUME NEW t \in Streams \ {s} PROVE StreamInv(t)'
  BY <1>1, StreamFrame
<1> QED BY <1>1

\* A stream that ends keeps nothing, and its request stays in its place.
LEMMA EndStream ==
    ASSUME TypeOK, NEW s \in Streams, StreamInv(s), End(s), Committed' = Committed,
           UNCHANGED <<owed, adding, requests, handing, subscribed, since, taken, handled>>
    PROVE  StreamInv(s)'
<1>1. /\ at'[s] = "ended" /\ batch'[s] = << >> /\ cur'[s] = None /\ line'[s] = "none"
  BY DEF End, TypeOK
<1>2. Within(<< >>, Committed)
  BY WithinEmpty
<1>3. LineInv(s)'
  BY <1>1, <1>2 DEF StreamInv, LineInv
<1>4. AskInv(s)'
  BY <1>1 DEF StreamInv, AskInv, Asked, Streaming
<1>5. LoadInv(s)' /\ PassInv(s)'
  BY <1>1 DEF LoadInv, PassInv, Streaming
<1> QED BY <1>3, <1>4, <1>5 DEF StreamInv

(***************************************************************************)
(* The stream task.                                                        *)
(***************************************************************************)
LEMMA ConnectStep ==
    ASSUME DInv, NEW s \in Streams, Connect(s)
    PROVE  DInv'
<1>1. TypeOK /\ StreamInv(s) /\ TypeOK' /\ StoreKnown' /\ Committed' = Committed
  BY ConnectType DEF DInv
<1>2. /\ at[s] = "off" /\ at'[s] = "load" /\ batch'[s] = batch[s] /\ cur'[s] = cur[s]
      /\ line'[s] = line[s] /\ sub'[s] = sub[s] /\ since'[s] = since[s]
      /\ cur[s] = None
      /\ \A t \in Streams \ {s} : at'[t] = at[t]
      /\ UNCHANGED <<stored, owed, adding, requests, handing, subscribed, taken, handled,
                     batch, cur, line, sub, since>>
  BY <1>1 DEF Connect, TypeOK, storeVars
<1>3. LineInv(s)'
  BY <1>1, <1>2 DEF StreamInv, LineInv
<1>4. AskInv(s)'
  BY <1>1, <1>2 DEF StreamInv, AskInv, Asked, Streaming
<1>5. LoadInv(s)' /\ PassInv(s)'
  BY <1>2 DEF LoadInv, PassInv, Streaming
<1>6. StreamInv(s)'
  BY <1>3, <1>4, <1>5 DEF StreamInv
<1>7. \A t \in Streams : StreamInv(t)'
  BY <1>1, <1>2, <1>6, OthersFrame DEF DInv
<1>8. RowsInv' /\ NothingLost'
  BY <1>1, <1>2, RowsFrame DEF DInv
<1> QED BY <1>1, <1>2, <1>7, <1>8 DEF DInv

LEMMA LoadStep ==
    ASSUME DInv, NEW s \in Streams, Load(s)
    PROVE  DInv'
<1>1. TypeOK /\ StoreKnown /\ StreamInv(s) /\ TypeOK' /\ StoreKnown' /\ Committed' = Committed
  BY LoadType DEF DInv
<1>2. PICK S : S = OwedTo(Owner[s])
  OBVIOUS
<1>3. PICK f \in Loads(S) : batch' = [batch EXCEPT ![s] = f]
  BY <1>2 DEF Load
<1>4. S \in SUBSET Messages /\ S \subseteq Committed
  BY <1>1, <1>2 DEF TypeOK, StoreTypeOK, StoreKnown, OwedTo
<1>5. Within(f, Committed) /\ \A m \in S : Holds(f, m)
  BY <1>4, LoadsFacts, LoadsAll, WithinMore DEF Holds
<1>6. /\ at[s] = "load" /\ at'[s] = "subscribe" /\ batch'[s] = f /\ cur'[s] = cur[s]
      /\ line'[s] = line[s] /\ sub'[s] = sub[s] /\ since'[s] = S
      /\ cur[s] = None
      /\ \A t \in Streams \ {s} : at'[t] = at[t] /\ batch'[t] = batch[t] /\ since'[t] = since[t]
      /\ UNCHANGED <<stored, owed, adding, requests, handing, subscribed, taken, handled,
                     cur, line, sub>>
  BY <1>1, <1>2, <1>3 DEF Load, TypeOK, storeVars
<1>7. LineInv(s)'
  BY <1>1, <1>4, <1>5, <1>6 DEF StreamInv, LineInv
<1>8. AskInv(s)'
  BY <1>1, <1>6 DEF StreamInv, AskInv, Asked, Streaming
<1>9. LoadInv(s)'
  <2> SUFFICES ASSUME NEW m \in Messages, <<m, Owner[s]>> \in owed
               PROVE  m \in S /\ Kept(s, m)'
    BY <1>6 DEF LoadInv
  <2>1. m \in S
    BY <1>2, Kinds DEF DInv, RowsInv, OwedTo
  <2> QED BY <1>5, <1>6, <2>1 DEF Kept
<1>10. PassInv(s)'
  BY <1>6 DEF PassInv, Streaming
<1>11. StreamInv(s)'
  BY <1>7, <1>8, <1>9, <1>10 DEF StreamInv
<1>12. \A t \in Streams : StreamInv(t)'
  BY <1>1, <1>6, <1>11, OthersFrame DEF DInv
<1>13. RowsInv' /\ NothingLost'
  BY <1>1, <1>6, RowsFrame DEF DInv
<1> QED BY <1>1, <1>6, <1>12, <1>13 DEF DInv

LEMMA SubscriptionDiffers ==
    /\ \A s \in Streams, m \in Messages : Subscription(s) # Distribution(m)
    /\ \A s, t \in Streams : Subscription(s) = Subscription(t) => s = t
    /\ \A m, n \in Messages : Distribution(m) = Distribution(n) => m = n
<1>1. \A s \in Streams, m \in Messages : Subscription(s).kind # Distribution(m).kind
  BY RequestFacts
<1>2. \A s \in Streams : Subscription(s).stream = s
  BY RequestFacts
<1>3. \A m \in Messages : Distribution(m).msg = m
  BY RequestFacts
<1> QED BY <1>1, <1>2, <1>3

LEMMA SubscribeStep ==
    ASSUME DInv, NEW s \in Streams, Subscribe(s)
    PROVE  DInv'
<1>1. TypeOK /\ StoreKnown /\ StreamInv(s) /\ TypeOK' /\ StoreKnown' /\ Committed' = Committed
  BY SubscribeType DEF DInv
<1>2. /\ requests \in Seq(Requests) /\ Subscription(s) \in Requests
      /\ requests' = Append(requests, Subscription(s))
  BY <1>1, RequestFacts DEF TypeOK, StoreTypeOK, Subscribe, SendSubscription
<1>3. /\ at[s] = "subscribe" /\ at'[s] = "next" /\ cur[s] = None
      /\ \A t \in Streams \ {s} : at'[t] = at[t] /\ sub'[t] = sub[t]
      /\ sub'[s].open
      /\ UNCHANGED <<stored, owed, adding, handing, subscribed, taken, handled,
                     batch, cur, line, since>>
  BY <1>1 DEF Subscribe, SendSubscription, TypeOK, StoreTypeOK
<1>4. /\ \A m \in Messages : Holds(requests', Distribution(m)) <=> Holds(requests, Distribution(m))
      /\ \A t \in Streams : Asked(t)' <=> t = s \/ Asked(t)
  BY <1>2, HoldsAppend, SubscriptionDiffers DEF Asked
<1>5. \A t \in Streams : Once(requests', Subscription(t))
  BY <1>1, <1>2, <1>3, OnceAppend, SubscriptionDiffers DEF DInv, StreamInv, AskInv, Asked
<1>6. /\ \A m \in Messages : Coming(m) => Coming(m)'
      /\ \A t \in Streams, m \in Messages : Kept(t, m) => Kept(t, m)'
  BY <1>3, <1>4 DEF Coming, Kept
<1>7. ASSUME NEW t \in Streams
      PROVE  StreamInv(t)'
  <2>1. StreamInv(t)
    BY DEF DInv
  <2>2. CASE t # s
    <3>1. LineInv(t)'
      BY <1>1, <1>3, <2>1, <2>2 DEF StreamInv, LineInv
    <3>2. AskInv(t)'
      BY <1>3, <1>4, <1>5, <2>1, <2>2 DEF StreamInv, AskInv
    <3>3. LoadInv(t)'
      BY <1>3, <1>4, <1>6, <2>1, <2>2 DEF StreamInv, LoadInv
    <3>4. \A m \in Messages : Way(t, m) => Way(t, m)'
      BY <1>3, <1>6, <2>2 DEF Way
    <3>5. PassInv(t)'
      BY <1>3, <2>1, <2>2, <3>4 DEF StreamInv, PassInv
    <3> QED BY <3>1, <3>2, <3>3, <3>5 DEF StreamInv
  <2>3. CASE t = s
    <3>1. LineInv(s)'
      BY <1>1, <1>3 DEF StreamInv, LineInv
    <3>2. subscribed[Owner[s]] # s
      BY <1>1, <1>3 DEF StreamInv, AskInv
    <3>3. AskInv(s)'
      BY <1>3, <1>5, <3>2 DEF AskInv
    <3>4. LoadInv(s)'
      BY <1>1, <1>3, <1>6 DEF StreamInv, LoadInv
    <3>5. PassInv(s)'
      BY <1>3, <3>2 DEF PassInv
    <3> QED BY <2>3, <3>1, <3>3, <3>4, <3>5 DEF StreamInv
  <2> QED BY <2>2, <2>3
<1>8. RowsInv' /\ NothingLost'
  BY <1>1, <1>3, RowsFrame DEF DInv
<1> QED BY <1>1, <1>3, <1>7, <1>8 DEF DInv

\* A message is taken from the batch or from the subscription.
LEMMA OfferStep ==
    ASSUME DInv, NEW s \in Streams, NEW m \in Messages, Offer(s, m),
           TypeOK', StoreKnown', Committed' = Committed, m \in Committed,
           Within(batch'[s], Committed), sub'[s].open = sub[s].open,
           \A t \in Streams \ {s} : batch'[t] = batch[t] /\ sub'[t] = sub[t],
           \A n \in Messages : Holds(batch[s], n) => n = m \/ Holds(batch'[s], n),
           \A n \in Messages : Holds(sub[s].queue, n) => n = m \/ Holds(sub'[s].queue, n)
    PROVE  DInv'
<1>1. TypeOK /\ StoreKnown /\ StreamInv(s)
  BY DEF DInv
<1>2. /\ at[s] = "next" /\ at'[s] = "wait" /\ cur[s] = None /\ cur'[s] = m
      /\ line'[s] = "queued" /\ since'[s] = since[s]
      /\ \A t \in Streams \ {s} : at'[t] = at[t] /\ cur'[t] = cur[t] /\ line'[t] = line[t]
      /\ UNCHANGED <<stored, owed, adding, requests, handing, subscribed, taken, handled, since>>
  <2>1. at[s] = "next" => cur[s] = None
    BY <1>1 DEF TypeOK
  <2> QED BY <1>1, <2>1 DEF Offer, TypeOK
<1>3. LineInv(s)'
  BY <1>1, <1>2 DEF StreamInv, LineInv
<1>4. AskInv(s)'
  BY <1>1, <1>2 DEF StreamInv, AskInv, Asked, Streaming
<1>5. \A n \in Messages : /\ Kept(s, n) => Kept(s, n)'
                          /\ Coming(n) => Coming(n)'
  BY <1>2, Kinds DEF Kept, Coming
<1>6. \A n \in Messages : Way(s, n) => Way(s, n)'
  BY <1>2, <1>5 DEF Way, Kept
<1>7. LoadInv(s)'
  BY <1>1, <1>2, <1>5 DEF StreamInv, LoadInv, Asked, Streaming
<1>8. PassInv(s)'
  BY <1>1, <1>2, <1>6 DEF StreamInv, PassInv, Streaming
<1>9. StreamInv(s)'
  BY <1>3, <1>4, <1>7, <1>8 DEF StreamInv
<1>10. \A t \in Streams : StreamInv(t)'
  BY <1>1, <1>2, <1>9, OthersFrame DEF DInv
<1>11. RowsInv' /\ NothingLost'
  BY <1>1, <1>2, RowsFrame DEF DInv
<1> QED BY <1>2, <1>10, <1>11 DEF DInv

LEMMA NextLoadedStep ==
    ASSUME DInv, NEW s \in Streams, NextLoaded(s)
    PROVE  DInv'
<1>1. TypeOK /\ StoreKnown /\ StreamInv(s) /\ TypeOK' /\ StoreKnown' /\ Committed' = Committed
  BY NextLoadedType DEF DInv
<1>2. PICK m : m = Head(batch[s])
  OBVIOUS
<1>3. batch[s] \in Seq(Messages) /\ batch[s] # << >> /\ Within(batch[s], Committed)
  BY <1>1 DEF TypeOK, NextLoaded, StreamInv, LineInv
<1>4. m \in Messages /\ m \in Committed /\ Within(Tail(batch[s]), Committed)
  BY <1>2, <1>3, TailQueue, WithinTail
<1>5. \A n \in Messages : Holds(batch[s], n) => n = m \/ Holds(Tail(batch[s]), n)
  BY <1>2, <1>3, HoldsTail
<1>6. /\ Offer(s, m) /\ batch'[s] = Tail(batch[s]) /\ sub' = sub
      /\ \A t \in Streams \ {s} : batch'[t] = batch[t]
  BY <1>1, <1>2 DEF NextLoaded, TypeOK
<1> QED BY <1>1, <1>4, <1>5, <1>6, OfferStep

LEMMA NextLiveStep ==
    ASSUME DInv, NEW s \in Streams, NextLive(s)
    PROVE  DInv'
<1>1. TypeOK /\ StoreKnown /\ StreamInv(s) /\ TypeOK' /\ StoreKnown' /\ Committed' = Committed
  BY NextLiveType DEF DInv
<1>2. PICK m : m = Head(sub[s].queue)
  OBVIOUS
<1>3. /\ sub[s].queue \in Seq(Messages) /\ sub[s].queue # << >>
      /\ Within(sub[s].queue, Committed)
  BY <1>1 DEF TypeOK, StoreTypeOK, StoreKnown, NextLive
<1>4. m \in Messages /\ m \in Committed
  BY <1>2, <1>3, TailQueue, WithinTail
<1>5. \A n \in Messages : Holds(sub[s].queue, n) => n = m \/ Holds(Tail(sub[s].queue), n)
  BY <1>2, <1>3, HoldsTail
<1>6. /\ Offer(s, m) /\ batch' = batch
      /\ sub'[s].open = sub[s].open /\ sub'[s].queue = Tail(sub[s].queue)
      /\ \A t \in Streams \ {s} : sub'[t] = sub[t]
  BY <1>1, <1>2 DEF NextLive, TypeOK, StoreTypeOK
<1>7. Within(batch'[s], Committed)
  BY <1>1, <1>6 DEF StreamInv, LineInv
<1> QED BY <1>1, <1>4, <1>5, <1>6, <1>7, OfferStep

\* The task ends, for one reason or another.
LEMMA EndStep ==
    ASSUME DInv, NEW s \in Streams, End(s), TypeOK', StoreKnown', Committed' = Committed,
           UNCHANGED <<stored, owed, adding, requests, handing, subscribed, handled, since, taken>>
    PROVE  DInv'
<1>1. TypeOK /\ StreamInv(s)
  BY DEF DInv
<1>2. StreamInv(s)'
  BY <1>1, EndStream
<1>3. \A t \in Streams \ {s} :
          /\ at'[t] = at[t] /\ batch'[t] = batch[t] /\ cur'[t] = cur[t]
          /\ line'[t] = line[t] /\ sub'[t] = sub[t]
  BY <1>1 DEF End, Dropped, TypeOK, StoreTypeOK
<1>4. \A t \in Streams : StreamInv(t)'
  BY <1>1, <1>2, <1>3, OthersFrame DEF DInv
<1>5. RowsInv' /\ NothingLost'
  BY <1>1, RowsFrame DEF DInv
<1> QED BY <1>4, <1>5 DEF DInv

LEMMA EndsStep ==
    ASSUME DInv, NEW s \in Streams, Undeliverable(s) \/ Unfed(s) \/ StatementFails(s)
    PROVE  DInv'
<1>1. TypeOK' /\ StoreKnown' /\ Committed' = Committed
  BY EndsType DEF DInv
<1> QED BY <1>1, EndStep DEF Undeliverable, Unfed, StatementFails

\* Only an answered message is acknowledged, and it was processed.
LEMMA FeedbackStep ==
    ASSUME DInv, NEW s \in Streams, Feedback(s)
    PROVE  DInv'
<1>1. TypeOK /\ StreamInv(s) /\ TypeOK' /\ StoreKnown' /\ Committed' = Committed
  BY FeedbackType DEF DInv
<1>2. CASE line[s] = "err" /\ End(s)
  BY <1>1, <1>2, EndStep DEF Feedback
<1>3. CASE /\ line[s] = "ok"
           /\ at' = [at EXCEPT ![s] = "acknowledge"]
           /\ line' = [line EXCEPT ![s] = "none"]
           /\ UNCHANGED <<batch, cur, sub>>
  <2>1. /\ at[s] = "wait" /\ at'[s] = "acknowledge" /\ line'[s] = "none"
        /\ \A t \in Streams \ {s} : at'[t] = at[t] /\ line'[t] = line[t]
        /\ UNCHANGED <<stored, owed, adding, requests, handing, subscribed, taken, handled,
                       since, batch, cur, sub>>
    BY <1>1, <1>3 DEF Feedback, TypeOK
  <2>2. LineInv(s)'
    BY <1>1, <1>3, <2>1 DEF StreamInv, LineInv
  <2>3. AskInv(s)'
    BY <1>1, <2>1 DEF StreamInv, AskInv, Asked, Streaming
  <2>4. \A n \in Messages : /\ Kept(s, n) => Kept(s, n)'
                            /\ Coming(n) => Coming(n)'
                            /\ Way(s, n) => Way(s, n)'
    BY <2>1 DEF Kept, Coming, Way
  <2>5. LoadInv(s)' /\ PassInv(s)'
    BY <1>1, <2>1, <2>4 DEF StreamInv, LoadInv, PassInv, Asked, Streaming
  <2>6. StreamInv(s)'
    BY <2>2, <2>3, <2>5 DEF StreamInv
  <2>7. \A t \in Streams : StreamInv(t)'
    BY <1>1, <2>1, <2>6, OthersFrame DEF DInv
  <2>8. RowsInv' /\ NothingLost'
    BY <1>1, <2>1, RowsFrame DEF DInv
  <2> QED BY <1>1, <2>1, <2>7, <2>8 DEF DInv
<1> QED BY <1>2, <1>3 DEF Feedback

\* The first DELETE: the member has processed what it is no longer owed.
LEMMA AcknowledgeStep ==
    ASSUME DInv, NEW s \in Streams, Acknowledge(s)
    PROVE  DInv'
<1>1. TypeOK /\ StreamInv(s) /\ TypeOK' /\ StoreKnown' /\ Committed' = Committed
  BY AcknowledgeType DEF DInv
<1>2. /\ at[s] = "acknowledge" /\ at'[s] = "cleanup"
      /\ owed' = owed \ ({cur[s]} \X {Owner[s]})
      /\ \A t \in Streams \ {s} : at'[t] = at[t]
      /\ UNCHANGED <<stored, adding, requests, handing, subscribed, taken, handled,
                     since, batch, cur, line, sub>>
  BY <1>1 DEF Acknowledge, TypeOK, DropReceivers
<1>3. /\ owed' \subseteq owed /\ <<cur[s], Owner[s]>> \notin owed'
      /\ \A m, r : <<m, r>> \in owed => <<m, r>> \in owed' \/ (m = cur[s] /\ r = Owner[s])
  BY <1>2
<1>4. cur[s] \in handled[Owner[s]]
  BY <1>1, <1>2 DEF StreamInv, LineInv
<1>5. LineInv(s)'
  BY <1>1, <1>2, <1>3, <1>4 DEF StreamInv, LineInv
<1>6. AskInv(s)'
  BY <1>1, <1>2 DEF StreamInv, AskInv, Asked, Streaming
<1>7. \A n \in Messages : /\ Kept(s, n) => Kept(s, n)'
                          /\ Coming(n) => Coming(n)'
                          /\ Way(s, n) => Way(s, n)'
  BY <1>2 DEF Kept, Coming, Way
<1>8. LoadInv(s)' /\ PassInv(s)'
  BY <1>1, <1>2, <1>3, <1>7 DEF StreamInv, LoadInv, PassInv, Asked, Streaming
<1>9. StreamInv(s)'
  BY <1>5, <1>6, <1>8 DEF StreamInv
<1>10. \A t \in Streams : StreamInv(t)'
  BY <1>1, <1>2, <1>3, <1>9, OthersFrame DEF DInv
<1>11. RowsInv'
  BY <1>2, <1>3 DEF DInv, RowsInv
<1>12. NothingLost'
  <2> SUFFICES ASSUME NEW m \in Messages, NEW r \in Receivers, m \in Committed, r \in To[m]
               PROVE  m \in handled'[r] \/ (<<m, r>> \in owed' /\ m \in stored')
    BY <1>1, LostFacts
  <2>1. m \in handled[r] \/ (<<m, r>> \in owed /\ m \in stored)
    BY LostFacts DEF DInv
  <2> QED BY <1>2, <1>3, <1>4, <2>1
<1> QED BY <1>1, <1>2, <1>10, <1>11, <1>12 DEF DInv

\* The second DELETE: a message that somebody is owed stays.
LEMMA CleanupStep ==
    ASSUME DInv, NEW s \in Streams, Cleanup(s)
    PROVE  DInv'
<1>1. TypeOK /\ StreamInv(s) /\ TypeOK' /\ StoreKnown' /\ Committed' = Committed
  BY CleanupType DEF DInv
<1>2. /\ at[s] = "cleanup" /\ at'[s] = "next" /\ cur'[s] = None
      /\ \A t \in Streams \ {s} : at'[t] = at[t] /\ cur'[t] = cur[t]
      /\ UNCHANGED <<owed, adding, requests, handing, subscribed, taken, handled,
                     since, batch, line, sub>>
  BY <1>1 DEF Cleanup, TypeOK
<1>3. \A m \in Messages, r \in Receivers : m \in stored /\ <<m, r>> \in owed => m \in stored'
  BY DEF Cleanup, DropMessages
<1>4. <<cur[s], Owner[s]>> \notin owed
  BY <1>1, <1>2 DEF StreamInv, LineInv
<1>5. LineInv(s)'
  BY <1>1, <1>2 DEF StreamInv, LineInv
<1>6. AskInv(s)'
  BY <1>1, <1>2 DEF StreamInv, AskInv, Asked, Streaming
<1>7. \A n \in Messages : /\ Coming(n) => Coming(n)'
                          /\ <<n, Owner[s]>> \in owed => n # cur[s]
  BY <1>2, <1>4 DEF Coming
<1>8. \A n \in Messages : <<n, Owner[s]>> \in owed =>
          /\ Kept(s, n) => Kept(s, n)'
          /\ Way(s, n) => Way(s, n)'
  BY <1>2, <1>7 DEF Kept, Way
<1>9. LoadInv(s)' /\ PassInv(s)'
  BY <1>1, <1>2, <1>7, <1>8 DEF StreamInv, LoadInv, PassInv, Asked, Streaming
<1>10. StreamInv(s)'
  BY <1>5, <1>6, <1>9 DEF StreamInv
<1>11. \A t \in Streams : StreamInv(t)'
  BY <1>1, <1>2, <1>10, OthersFrame DEF DInv
<1>12. RowsInv'
  BY <1>2, <1>3 DEF DInv, RowsInv
<1>13. NothingLost'
  <2> SUFFICES ASSUME NEW m \in Messages, NEW r \in Receivers, m \in Committed, r \in To[m]
               PROVE  m \in handled'[r] \/ (<<m, r>> \in owed' /\ m \in stored')
    BY <1>1, LostFacts
  <2>1. m \in handled[r] \/ (<<m, r>> \in owed /\ m \in stored)
    BY LostFacts DEF DInv
  <2> QED BY <1>2, <1>3, <2>1
<1> QED BY <1>1, <1>2, <1>11, <1>12, <1>13 DEF DInv

(***************************************************************************)
(* handle_connection, the member, and the connection between them.         *)
(***************************************************************************)
LEMMA LineStepKeeps ==
    ASSUME DInv, NEW s \in Streams,
           Write(s) \/ MemberHandles(s) \/ MemberRefuses(s) \/ Disconnect(s)
    PROVE  DInv'
<1>1. TypeOK /\ StreamInv(s) /\ LineInv(s)
  BY DEF DInv, StreamInv
<1>2. TypeOK' /\ StoreKnown' /\ Committed' = Committed
  BY <1>1, LineType DEF DInv
<1>3. /\ \A t \in Streams \ {s} : line'[t] = line[t]
      /\ UNCHANGED <<stored, owed, adding, requests, handing, subscribed, taken,
                     since, at, batch, cur, sub>>
      /\ \A r \in Receivers : handled[r] \subseteq handled'[r]
  BY <1>1, Kinds DEF Write, MemberHandles, MemberRefuses, Disconnect, TypeOK, storeVars
<1>4. /\ line'[s] # "none" => line[s] # "none"
      /\ line'[s] = "ok" => line[s] = "ok" \/ cur[s] \in handled'[Owner[s]]
  BY <1>1, Kinds DEF Write, MemberHandles, MemberRefuses, Disconnect, TypeOK
<1>5. LineInv(s)'
  <2>1. handled[Owner[s]] \subseteq handled'[Owner[s]]
    BY <1>3, Kinds
  <2> QED BY <1>1, <1>2, <1>3, <1>4, <2>1 DEF LineInv
<1>6. AskInv(s)'
  BY <1>1, <1>3 DEF StreamInv, AskInv, Asked
<1>7. \A n \in Messages : /\ Kept(s, n) => Kept(s, n)'
                          /\ Coming(n) => Coming(n)'
                          /\ Way(s, n) => Way(s, n)'
  BY <1>3 DEF Kept, Coming, Way
<1>8. LoadInv(s)' /\ PassInv(s)'
  BY <1>1, <1>3, <1>7 DEF StreamInv, LoadInv, PassInv, Asked
<1>9. StreamInv(s)'
  BY <1>5, <1>6, <1>8 DEF StreamInv
<1>10. \A t \in Streams : StreamInv(t)'
  BY <1>1, <1>2, <1>3, <1>9, OthersFrame DEF DInv
<1>11. RowsInv' /\ NothingLost'
  BY <1>1, <1>2, <1>3, RowsFrame DEF DInv
<1> QED BY <1>2, <1>3, <1>10, <1>11 DEF DInv

LEMMA ServingEndsStep ==
    ASSUME DInv, NEW s \in Streams, ServingEnds(s)
    PROVE  DInv'
<1>1. TypeOK' /\ StoreKnown' /\ Committed' = Committed
  BY ServingEndsType DEF DInv
<1>2. CASE at[s] = "wait"
  BY <1>1, <1>2, EndStep DEF ServingEnds
<1>3. CASE at[s] # "wait"
  <2>1. UNCHANGED <<stored, owed, adding, requests, handing, subscribed, taken, handled,
                    since, at, batch, cur, line, sub>>
    BY <1>3 DEF ServingEnds
  <2>2. ASSUME NEW t \in Streams PROVE StreamInv(t)'
    BY <1>1, <2>1, <2>2, StreamFrame DEF DInv
  <2>3. RowsInv' /\ NothingLost'
    BY <1>1, <2>1, RowsFrame DEF DInv
  <2> QED BY <1>1, <2>1, <2>2, <2>3 DEF DInv
<1> QED BY <1>2, <1>3

(***************************************************************************)
(* add_message.                                                            *)
(***************************************************************************)
LEMMA BeginFailStep ==
    ASSUME DInv, NEW m \in Messages, Add(m), BeginAdd(m) \/ FailAdd(m)
    PROVE  DInv'
<1>1. TypeOK' /\ StoreKnown'
  BY AddType DEF DInv
<1>2. Committed' = Committed
  BY BeginAddStore, FailAddStore DEF DInv, TypeOK
<1>3. UNCHANGED <<stored, owed, requests, handing, subscribed, taken, handled,
                  since, at, batch, cur, line, sub>>
  BY DEF Add, BeginAdd, FailAdd, streamVars
<1>4. \A n \in Messages : adding[n] = "committed" => adding'[n] = "committed"
  BY DEF BeginAdd, FailAdd, DInv, TypeOK, StoreTypeOK
<1>5. ASSUME NEW t \in Streams PROVE StreamInv(t)'
  BY <1>2, <1>3, <1>4, <1>5, StreamFrame DEF DInv
<1>6. RowsInv' /\ NothingLost'
  BY <1>2, <1>3, RowsFrame DEF DInv
<1> QED BY <1>1, <1>2, <1>3, <1>5, <1>6 DEF DInv

\* A new row is not loaded, and its message is coming to the manager.
LEMMA CommitStep ==
    ASSUME DInv, NEW m \in Messages, Add(m), CommitAdd(m)
    PROVE  DInv'
<1>1. TypeOK /\ TypeOK' /\ StoreKnown' /\ Committed' = Committed \cup {m} /\ m \notin Committed
  BY AddType, CommitAddStore DEF DInv, TypeOK
<1>2. /\ UNCHANGED <<requests, handing, subscribed, taken, handled,
                     since, at, batch, cur, line, sub>>
      /\ stored' = stored \cup {m} /\ owed' = owed \cup ({m} \X To[m])
  BY DEF Add, CommitAdd, streamVars
<1>3. /\ \A n \in Messages : adding[n] = "committed" => adding'[n] = "committed"
      /\ adding'[m] = "committed"
  BY DEF CommitAdd, DInv, TypeOK, StoreTypeOK
<1>4. \A n \in Messages, r \in Receivers :
          <<n, r>> \in owed' <=> <<n, r>> \in owed \/ (n = m /\ r \in To[m])
  BY <1>2
<1>5. /\ \A n \in Messages : Coming(n) => Coming(n)'
      /\ Coming(m)'
  BY <1>2, <1>3 DEF Coming
<1>6. ASSUME NEW t \in Streams PROVE StreamInv(t)'
  <2>1. StreamInv(t) /\ Owner[t] \in Receivers
    BY Kinds DEF DInv
  <2>2. LineInv(t)'
    <3>1. Within(batch'[t], Committed')
      BY <1>1, <1>2, <2>1, WithinMore DEF StreamInv, LineInv
    <3>2. at[t] = "cleanup" => <<cur[t], Owner[t]>> \notin owed'
      <4>1. at[t] = "cleanup" => cur[t] \in Messages /\ cur[t] \in Committed
        BY <1>1, <2>1 DEF TypeOK, StreamInv, LineInv
      <4>2. at[t] = "cleanup" => <<cur[t], Owner[t]>> \notin owed
        BY <2>1 DEF StreamInv, LineInv
      <4> QED BY <1>1, <1>4, <2>1, <4>1, <4>2
    <3> QED BY <1>1, <1>2, <2>1, <3>1, <3>2 DEF StreamInv, LineInv
  <2>3. AskInv(t)'
    BY <1>2, <2>1 DEF StreamInv, AskInv, Asked
  <2>4. \A n \in Messages : /\ Kept(t, n) => Kept(t, n)'
                            /\ Way(t, n) => Way(t, n)'
                            /\ Way(t, m)'
    BY <1>2, <1>5 DEF Kept, Way
  <2>5. m \notin since[t]
    BY <1>1, <2>1 DEF StreamInv, LineInv
  <2>6. \A n \in Messages : <<n, Owner[t]>> \in owed' => <<n, Owner[t]>> \in owed \/ n = m
    BY <1>4, <2>1
  <2>7. LoadInv(t)'
    BY <1>2, <1>5, <2>1, <2>4, <2>5, <2>6 DEF StreamInv, LoadInv, Asked
  <2>8. PassInv(t)'
    BY <1>2, <2>1, <2>4, <2>6 DEF StreamInv, PassInv
  <2> QED BY <2>2, <2>3, <2>7, <2>8 DEF StreamInv
<1>7. RowsInv'
  BY <1>2, <1>4 DEF DInv, RowsInv
<1>8. NothingLost'
  <2> SUFFICES ASSUME NEW n \in Messages, NEW r \in Receivers, n \in Committed', r \in To[n]
               PROVE  n \in handled'[r] \/ (<<n, r>> \in owed' /\ n \in stored')
    BY LostFacts
  <2>1. n # m => n \in handled[r] \/ (<<n, r>> \in owed /\ n \in stored)
    BY <1>1, LostFacts DEF DInv
  <2> QED BY <1>2, <1>4, <2>1
<1> QED BY <1>1, <1>2, <1>6, <1>7, <1>8 DEF DInv

LEMMA DistributeStep ==
    ASSUME DInv, NEW m \in Messages, Add(m), Distribute(m)
    PROVE  DInv'
<1>1. TypeOK /\ TypeOK' /\ StoreKnown' /\ Committed' = Committed
  BY AddType, DistributeStore DEF DInv, TypeOK
<1>2. /\ requests \in Seq(Requests) /\ Distribution(m) \in Requests
      /\ requests' = Append(requests, Distribution(m))
      /\ UNCHANGED <<stored, owed, handing, subscribed, taken, handled,
                     since, at, batch, cur, line, sub>>
  BY <1>1, RequestFacts DEF Add, Distribute, streamVars, TypeOK, StoreTypeOK
<1>3. \A n \in Messages \ {m} : adding'[n] = adding[n]
  BY <1>1 DEF Distribute, TypeOK, StoreTypeOK
<1>4. /\ \A n \in Messages : Holds(requests, Distribution(n)) => Holds(requests', Distribution(n))
      /\ Holds(requests', Distribution(m))
      /\ \A t \in Streams : Asked(t)' <=> Asked(t)
  BY <1>2, HoldsAppend, SubscriptionDiffers DEF Asked
<1>5. \A t \in Streams : Once(requests', Subscription(t))
  BY <1>2, OnceAppend, SubscriptionDiffers DEF DInv, StreamInv, AskInv
<1>6. \A n \in Messages : Coming(n) => Coming(n)'
  BY <1>3, <1>4 DEF Coming
<1>7. ASSUME NEW t \in Streams PROVE StreamInv(t)'
  <2>1. StreamInv(t)
    BY DEF DInv
  <2>2. LineInv(t)'
    BY <1>1, <1>2, <2>1 DEF StreamInv, LineInv
  <2>3. AskInv(t)'
    BY <1>2, <1>4, <1>5, <2>1 DEF StreamInv, AskInv
  <2>4. \A n \in Messages : /\ Kept(t, n) => Kept(t, n)'
                            /\ Way(t, n) => Way(t, n)'
    BY <1>2, <1>6 DEF Kept, Way
  <2>5. LoadInv(t)' /\ PassInv(t)'
    BY <1>2, <1>4, <1>6, <2>1, <2>4 DEF StreamInv, LoadInv, PassInv
  <2> QED BY <2>2, <2>3, <2>5 DEF StreamInv
<1>8. RowsInv' /\ NothingLost'
  BY <1>1, <1>2, RowsFrame DEF DInv
<1> QED BY <1>1, <1>2, <1>7, <1>8 DEF DInv

(***************************************************************************)
(* The SubscriptionManager's task.                                         *)
(***************************************************************************)
\* The subscription is registered: what the member is owed was loaded, or is
\* still coming, or was handed out before.
LEMMA RegisterStep ==
    ASSUME DInv, Manage, NEW s \in Streams, Head(requests) = Subscription(s)
    PROVE  DInv'
<1>1. TypeOK /\ TypeOK' /\ StoreKnown' /\ Committed' = Committed
  BY ManageType DEF DInv
<1>2. /\ requests \in Seq(Requests) /\ requests # << >> /\ requests' = Tail(requests)
      /\ UNCHANGED <<stored, owed, adding, handled, at, batch, cur, line, sub>>
  BY <1>1 DEF Manage, TakeRequest, streamVars, TypeOK, StoreTypeOK
<1>3. Subscription(s).kind = "subscribe" /\ Subscription(s).stream = s /\ Owner[s] \in Receivers
  BY RequestFacts, Kinds
<1>4. /\ subscribed' = [subscribed EXCEPT ![Owner[s]] = s]
      /\ since' = [since EXCEPT ![s] = taken \ @]
      /\ UNCHANGED <<handing, taken>>
  BY <1>3 DEF Manage, TakeRequest
<1>5. /\ subscribed'[Owner[s]] = s
      /\ \A r \in Receivers \ {Owner[s]} : subscribed'[r] = subscribed[r]
      /\ since'[s] = taken \ since[s]
      /\ \A t \in Streams \ {s} : since'[t] = since[t]
  BY <1>1, <1>3, <1>4 DEF TypeOK, StoreTypeOK
<1>6. \A x : Holds(requests, x) <=> x = Subscription(s) \/ Holds(requests', x)
  BY <1>2, HoldsTail
<1>7. /\ \A t \in Streams : Once(requests', Subscription(t))
      /\ ~Holds(requests', Subscription(s))
  BY <1>2, OnceTail DEF DInv, StreamInv, AskInv
<1>8. /\ \A t \in Streams \ {s} : Asked(t)' <=> Asked(t)
      /\ ~Asked(s)' /\ Asked(s)
  BY <1>6, <1>7, SubscriptionDiffers DEF Asked
<1>9. \A m \in Messages : Coming(m) => Coming(m)'
  BY <1>2, <1>6, SubscriptionDiffers DEF Coming
<1>10. /\ \A t \in Streams, m \in Messages : Kept(t, m) => Kept(t, m)'
       /\ \A t \in Streams, m \in Messages : Way(t, m) => Way(t, m)'
  BY <1>2, <1>4, <1>9 DEF Kept, Way
<1>11. ASSUME NEW t \in Streams PROVE StreamInv(t)'
  <2>1. StreamInv(t) /\ Owner[t] \in Receivers
    BY Kinds DEF DInv
  <2>2. LineInv(t)'
    <3>1. since'[t] \subseteq Committed
      BY <1>5, <2>1 DEF StreamInv, LineInv, DInv
    <3> QED BY <1>1, <1>2, <2>1, <3>1 DEF StreamInv, LineInv
  <2>3. CASE t # s
    <3>1. subscribed'[Owner[t]] # s => Owner[t] # Owner[s] /\ subscribed'[Owner[t]] = subscribed[Owner[t]]
      BY <1>5, <2>1
    <3>2. AskInv(t)'
      BY <1>2, <1>7, <1>8, <2>1, <2>3, <3>1 DEF StreamInv, AskInv
    <3>3. LoadInv(t)'
      BY <1>2, <1>4, <1>5, <1>8, <1>9, <1>10, <2>1, <2>3 DEF StreamInv, LoadInv
    <3>4. PassInv(t)'
      BY <1>2, <1>5, <1>10, <2>1, <2>3, <3>1 DEF StreamInv, PassInv
    <3> QED BY <2>2, <3>2, <3>3, <3>4 DEF StreamInv
  <2>4. CASE t = s
    <3>1. AskInv(s) /\ LoadInv(s)
      BY DEF DInv, StreamInv
    <3>2. at[s] \notin {"off", "load", "subscribe"}
      BY <1>8, <3>1 DEF AskInv
    <3>3. AskInv(s)'
      BY <1>2, <1>7, <1>8, <3>1, <3>2 DEF AskInv
    <3>4. LoadInv(s)'
      BY <1>2, <1>8, <3>2 DEF LoadInv
    <3>5. \A m \in Messages : Kept(s, m) \/ Coming(m) => Way(s, m)
      BY DEF Way
    <3>6. PassInv(s)'
      BY <1>2, <1>5, <1>8, <1>10, <3>1, <3>5 DEF LoadInv, PassInv
    <3> QED BY <2>2, <2>4, <3>3, <3>4, <3>6 DEF StreamInv
  <2> QED BY <2>3, <2>4
<1>12. RowsInv' /\ NothingLost'
  BY <1>1, <1>2, RowsFrame DEF DInv
<1> QED BY <1>1, <1>4, <1>11, <1>12 DEF DInv

\* The manager takes a message: everybody who is owed it is on its list.
LEMMA TakeStep ==
    ASSUME DInv, Manage, NEW m \in Messages, Head(requests) = Distribution(m)
    PROVE  DInv'
<1>1. TypeOK /\ TypeOK' /\ StoreKnown' /\ Committed' = Committed
  BY ManageType DEF DInv
<1>2. /\ requests \in Seq(Requests) /\ requests # << >> /\ requests' = Tail(requests)
      /\ UNCHANGED <<stored, owed, adding, handled, at, batch, cur, line, sub>>
      /\ handing = Idle
  BY <1>1 DEF Manage, TakeRequest, streamVars, TypeOK, StoreTypeOK
<1>3. Distribution(m).kind = "distribute" /\ Distribution(m).msg = m
  BY RequestFacts
<1>4. /\ handing' = IF To[m] = {} THEN Idle ELSE [msg |-> m, left |-> To[m]]
      /\ taken' = taken \cup {m}
      /\ UNCHANGED <<subscribed, since>>
  BY <1>3 DEF Manage, TakeRequest
<1>5. \A x : Holds(requests, x) <=> x = Distribution(m) \/ Holds(requests', x)
  BY <1>2, HoldsTail
<1>6. \A t \in Streams : Once(requests', Subscription(t)) /\ (Asked(t)' <=> Asked(t))
  BY <1>2, <1>5, OnceTail, SubscriptionDiffers DEF DInv, StreamInv, AskInv, Asked
<1>7. \A n \in Messages : Coming(n) => n = m \/ Coming(n)'
  BY <1>2, <1>5, SubscriptionDiffers DEF Coming
<1>8. m \in Committed
  <2>1. 1 \in 1 .. Len(requests) /\ requests[1] = Distribution(m)
    BY <1>2, TailQueue
  <2> QED BY <1>3, <2>1 DEF DInv, StoreKnown
<1>9. ASSUME NEW t \in Streams PROVE StreamInv(t)'
  <2>1. StreamInv(t) /\ Owner[t] \in Receivers
    BY Kinds DEF DInv
  <2>2. LineInv(t)'
    BY <1>1, <1>2, <1>4, <2>1 DEF StreamInv, LineInv
  <2>3. AskInv(t)'
    BY <1>2, <1>4, <1>6, <2>1 DEF StreamInv, AskInv
  <2>4. \A n \in Messages : Kept(t, n) <=> Kept(t, n)'
    BY <1>2 DEF Kept
  <2>5. LoadInv(t)'
    BY <1>2, <1>4, <1>6, <1>7, <2>1, <2>4 DEF StreamInv, LoadInv
  <2>6. \A n \in Messages : Way(t, n) => Way(t, n)' \/ n = m
    BY <1>2, <1>7, <2>4 DEF Way, Idle
  <2>7. <<m, Owner[t]>> \in owed => Way(t, m)'
    <3>1. <<m, Owner[t]>> \in owed => Owner[t] \in To[m]
      BY <2>1 DEF DInv, RowsInv
    <3> QED BY <1>4, <3>1 DEF Way
  <2>8. PassInv(t)'
    BY <1>2, <1>4, <2>1, <2>6, <2>7 DEF StreamInv, PassInv
  <2> QED BY <2>2, <2>3, <2>5, <2>8 DEF StreamInv
<1>10. RowsInv' /\ NothingLost'
  BY <1>1, <1>2, RowsFrame DEF DInv
<1> QED BY <1>1, <1>4, <1>8, <1>9, <1>10 DEF DInv

LEMMA ManageStep ==
    ASSUME DInv, Manage
    PROVE  DInv'
<1>1. requests \in Seq(Requests) /\ requests # << >>
  BY DEF DInv, TypeOK, StoreTypeOK, Manage, TakeRequest
<1>2. Head(requests) \in Requests
  BY <1>1, TailQueue
<1>3. \/ \E m \in Messages : Head(requests) = Distribution(m)
      \/ \E s \in Streams : Head(requests) = Subscription(s)
  BY <1>2 DEF Requests
<1> QED BY <1>3, RegisterStep, TakeStep

\* The message goes to the stream the manager holds; a stream it lets go of
\* has ended.
LEMMA HandOverStep ==
    ASSUME DInv, NEW r \in Receivers, ManageHandOver(r)
    PROVE  DInv'
<1>1. TypeOK /\ TypeOK' /\ StoreKnown' /\ Committed' = Committed
  BY HandOverType DEF DInv
<1>2. /\ UNCHANGED <<stored, owed, adding, requests, taken, handled,
                     since, at, batch, cur, line>>
      /\ r \in handing.left
      /\ handing' = IF handing.left = {r} THEN Idle ELSE [handing EXCEPT !.left = @ \ {r}]
      /\ handing \in [msg : Messages \cup {None}, left : SUBSET Receivers]
  BY <1>1 DEF ManageHandOver, HandOver, streamVars, TypeOK, StoreTypeOK
<1>3. \A t \in Streams, n \in Messages :
          handing.msg = n /\ Owner[t] \in handing.left /\ Owner[t] # r =>
              handing'.msg = n /\ Owner[t] \in handing'.left
  BY <1>2
<1>4. subscribed[r] \in Streams \cup {None} /\ None \notin Streams
  BY <1>1, Kinds DEF TypeOK, StoreTypeOK
<1>5. /\ \A x \in Receivers : subscribed'[x] = subscribed[x] \/ subscribed'[x] = None
      /\ \A t \in Streams : sub'[t].open = sub[t].open
      /\ \A t \in Streams, n \in Messages : Holds(sub[t].queue, n) => Holds(sub'[t].queue, n)
      /\ \A t \in Streams : subscribed'[r] = t => Holds(sub'[t].queue, handing.msg)
  <2>1. CASE subscribed[r] = None
    <3>1. UNCHANGED <<subscribed, sub>>
      BY <2>1 DEF ManageHandOver, HandOver
    <3> QED BY <1>4, <2>1, <3>1
  <2>2. CASE subscribed[r] # None /\ ~sub[subscribed[r]].open
    <3>1. subscribed' = [subscribed EXCEPT ![r] = None] /\ sub' = sub
      BY <2>2 DEF ManageHandOver, HandOver
    <3>2. subscribed \in [Receivers -> Streams \cup {None}]
      BY <1>1 DEF TypeOK, StoreTypeOK
    <3> QED BY <1>4, <3>1, <3>2
  <2>3. CASE subscribed[r] # None /\ sub[subscribed[r]].open
    <3>1. PICK u \in Streams : u = subscribed[r]
      BY <1>4, <2>3
    <3>2. sub' = [sub EXCEPT ![u].queue = Append(@, handing.msg)] /\ subscribed' = subscribed
      BY <2>3, <3>1 DEF ManageHandOver, HandOver
    <3>3. handing.msg \in Messages
      BY <1>2 DEF DInv, StoreKnown, Committed
    <3>4. /\ sub[u].queue \in Seq(Messages)
          /\ sub'[u].queue = Append(sub[u].queue, handing.msg)
          /\ sub'[u].open = sub[u].open
          /\ \A t \in Streams \ {u} : sub'[t] = sub[t]
      BY <1>1, <3>2 DEF TypeOK, StoreTypeOK
    <3>5. \A n \in Messages :
              Holds(sub[u].queue, n) \/ n = handing.msg => Holds(sub'[u].queue, n)
      BY <3>3, <3>4, HoldsAppend
    <3> QED BY <3>1, <3>2, <3>3, <3>4, <3>5
  <2> QED BY <2>1, <2>2, <2>3
<1>6. ASSUME NEW t \in Streams PROVE StreamInv(t)'
  <2>1. StreamInv(t) /\ Owner[t] \in Receivers
    BY Kinds DEF DInv
  <2>2. LineInv(t)'
    BY <1>1, <1>2, <2>1 DEF StreamInv, LineInv
  <2>3. subscribed'[Owner[t]] = t => subscribed[Owner[t]] = t
    BY <1>4, <1>5, <2>1
  <2>4. AskInv(t)'
    BY <1>2, <1>5, <2>1, <2>3 DEF StreamInv, AskInv, Asked
  <2>5. \A n \in Messages : /\ Kept(t, n) => Kept(t, n)'
                            /\ Coming(n) => Coming(n)'
    BY <1>2 DEF Kept, Coming
  <2>6. LoadInv(t)'
    BY <1>2, <2>1, <2>5 DEF StreamInv, LoadInv, Asked
  <2>7. subscribed'[Owner[t]] = t => \A n \in Messages : Way(t, n) => Way(t, n)'
    BY <1>3, <1>5, <2>5 DEF Way
  <2>8. PassInv(t)'
    BY <1>2, <2>1, <2>3, <2>7 DEF StreamInv, PassInv
  <2> QED BY <2>2, <2>4, <2>6, <2>8 DEF StreamInv
<1>7. RowsInv' /\ NothingLost'
  BY <1>1, <1>2, RowsFrame DEF DInv
<1> QED BY <1>1, <1>2, <1>6, <1>7 DEF DInv

(***************************************************************************)
(* The server is restarted: only the tables and the members' memory stay.  *)
(***************************************************************************)
LEMMA RestartStep ==
    ASSUME DInv, Restart
    PROVE  DInv'
<1>1. TypeOK /\ TypeOK' /\ StoreKnown' /\ Committed' = Committed
  BY RestartType DEF DInv
<1>2. /\ UNCHANGED <<stored, owed, handled, since, taken>> /\ requests' = << >>
      /\ \A t \in Streams : /\ at'[t] \in {"off", "ended"} /\ batch'[t] = << >>
                            /\ cur'[t] = None /\ line'[t] = "none"
                            /\ subscribed'[Owner[t]] = None
  BY <1>1, Kinds DEF Restart, StoreRestart
<1>3. Within(<< >>, Committed)
  BY WithinEmpty
<1>4. ASSUME NEW t \in Streams PROVE StreamInv(t)'
  <2>1. LineInv(t)'
    BY <1>1, <1>2, <1>3 DEF DInv, StreamInv, LineInv
  <2>2. ~Asked(t)' /\ Once(requests', Subscription(t))
    BY <1>2, HoldsEmpty, OnceEmpty DEF Asked
  <2>3. AskInv(t)'
    BY <1>2, <2>2, Kinds DEF AskInv, Streaming
  <2>4. LoadInv(t)' /\ PassInv(t)'
    BY <1>2 DEF LoadInv, PassInv, Streaming
  <2> QED BY <2>1, <2>3, <2>4 DEF StreamInv
<1>5. RowsInv' /\ NothingLost'
  BY <1>1, <1>2, RowsFrame DEF DInv
<1> QED BY <1>1, <1>2, <1>4, <1>5 DEF DInv

(***************************************************************************)
(* The invariant.                                                          *)
(***************************************************************************)
LEMMA InitInv == Init => DInv
<1> SUFFICES ASSUME Init PROVE DInv
  OBVIOUS
<1>1. TypeOK /\ StoreKnown
  BY InitType
<1>2. owed = {} /\ taken = {} /\ Committed = {} /\ requests = << >>
  BY DEF Init, StoreInit, Committed
<1>3. RowsInv /\ NothingLost
  BY <1>2 DEF RowsInv, NothingLost
<1>4. Within(<< >>, Committed)
  BY WithinEmpty
<1>5. ASSUME NEW s \in Streams PROVE StreamInv(s)
  <2>1. /\ at[s] = "off" /\ cur[s] = None /\ line[s] = "none" /\ batch[s] = << >>
        /\ since[s] = {} /\ subscribed[Owner[s]] = None
    BY Kinds DEF Init, StoreInit
  <2>2. LineInv(s)
    BY <1>4, <2>1 DEF LineInv
  <2>3. AskInv(s)
    BY <1>2, <2>1, HoldsEmpty, OnceEmpty, Kinds DEF AskInv, Asked, Streaming
  <2>4. LoadInv(s) /\ PassInv(s)
    BY <2>1 DEF LoadInv, PassInv, Streaming
  <2> QED BY <2>2, <2>3, <2>4 DEF StreamInv
<1> QED BY <1>1, <1>2, <1>3, <1>5 DEF DInv

LEMMA StutterStep == DInv /\ UNCHANGED vars => DInv'
<1> SUFFICES ASSUME DInv, UNCHANGED vars PROVE DInv'
  OBVIOUS
<1>1. TypeOK' /\ StoreKnown' /\ Committed' = Committed
  <2>1. StoreTypeOK' /\ StoreKnown' /\ Committed' = Committed
    BY StoreFrame DEF DInv, TypeOK, vars, storeVars
  <2> QED BY <2>1 DEF DInv, TypeOK, vars
<1>2. ASSUME NEW t \in Streams PROVE StreamInv(t)'
  BY <1>1, <1>2, StreamFrame DEF DInv, vars
<1>3. RowsInv' /\ NothingLost'
  BY <1>1, RowsFrame DEF DInv, vars
<1> QED BY <1>1, <1>2, <1>3 DEF DInv, vars

LEMMA StreamNext ==
    ASSUME DInv, NEW s \in Streams,
           \/ Connect(s) \/ StreamStep(s) \/ StatementFails(s)
           \/ LineStep(s) \/ Disconnect(s) \/ ServingEnds(s)
    PROVE  DInv'
BY ConnectStep, LoadStep, SubscribeStep, NextLoadedStep, NextLiveStep, EndsStep, FeedbackStep,
   AcknowledgeStep, CleanupStep, LineStepKeeps, ServingEndsStep DEF StreamStep, LineStep

LEMMA AddNext ==
    ASSUME DInv, NEW m \in Messages, Add(m)
    PROVE  DInv'
<1>1. BeginAdd(m) \/ CommitAdd(m) \/ FailAdd(m) \/ Distribute(m)
  BY DEF Add
<1> QED BY <1>1, BeginFailStep, CommitStep, DistributeStep

LEMMA InvNext == DInv /\ [Next]_vars => DInv'
<1> SUFFICES ASSUME DInv, [Next]_vars PROVE DInv'
  OBVIOUS
<1>1. ASSUME ManagerStep PROVE DInv'
  BY <1>1, ManageStep, HandOverStep DEF ManagerStep
<1> QED BY <1>1, AddNext, StreamNext, RestartStep, StutterStep DEF Next

LEMMA InvAlways == Spec => []DInv
BY InitInv, InvNext, PTL DEF Spec

\* The state of the store, of the streams and of the members keeps its type,
\* and its channels their capacity, in every reachable state of delivery.
THEOREM DeliveryTypeCorrect == Spec => []TypeOK
<1>1. DInv => TypeOK
  BY DEF DInv
<1> QED BY <1>1, InvAlways, PTL

\* A message add_message has stored is never lost to a member it is for:
\* the rows are deleted only for a message the member processed, whatever
\* the connections, failed statements and restarts in between.
THEOREM NothingIsLost == Spec => []NothingLost
<1>1. DInv => NothingLost
  BY DEF DInv
<1> QED BY <1>1, InvAlways, PTL

\* Way is Underway.
LEMMA WayUnderway ==
    ASSUME TypeOK, NEW s \in Streams, NEW m \in Messages, Way(s, m)
    PROVE  Underway(s, m)
<1>1. /\ DOMAIN batch[s] = 1 .. Len(batch[s])
      /\ DOMAIN sub[s].queue = 1 .. Len(sub[s].queue)
      /\ DOMAIN requests = 1 .. Len(requests)
  BY DEF TypeOK, StoreTypeOK
<1> QED BY <1>1 DEF Way, Kept, Coming, Holds, Underway

\* Once the SubscriptionManager holds a stream's channel, every message its
\* member is owed is on its way to it, except for those that came between
\* load_all_for and the registration.
THEOREM NothingIsPassedBy == Spec => []NothingPassesBy
<1>1. DInv => NothingPassesBy
  BY WayUnderway DEF DInv, StreamInv, PassInv, NothingPassesBy, Streaming
<1> QED BY <1>1, InvAlways, PTL

=============================================================================

--------------------------- MODULE MessageStoreProofs ---------------------------
(***************************************************************************)
(* What the users of the message store rely on: the type of its state, and *)
(* that nothing but a stored message is ever on its way through the        *)
(* SubscriptionManager (StoreKnown), step by step, for every capacity of   *)
(* its channels.                                                           *)
(***************************************************************************)
EXTENDS MessageStore, FiniteSetTheorems, SequenceTheorems, TLAPS

\* Every message of the queue is one of S.
Within(q, S) == \A i \in 1 .. Len(q) : q[i] \in S

\* What is stored, asked to be handed out or handed out has been committed.
StoreKnown ==
    /\ stored \subseteq Committed
    /\ \A m \in Messages, r \in Receivers : <<m, r>> \in owed => m \in Committed
    /\ handing.left # {} => handing.msg \in Committed
    /\ \A i \in 1 .. Len(requests) :
          requests[i].kind = "distribute" => requests[i].msg \in Committed
    /\ \A s \in Streams : Within(sub[s].queue, Committed)

(***************************************************************************)
(* Queues.                                                                 *)
(***************************************************************************)
LEMMA TailQueue ==
    ASSUME NEW T, NEW q \in Seq(T), q # << >>
    PROVE  /\ Head(q) \in T /\ Head(q) = q[1] /\ Tail(q) \in Seq(T)
           /\ Len(q) \in Nat /\ Len(q) >= 1 /\ Len(Tail(q)) = Len(q) - 1
           /\ \A i \in 1 .. Len(Tail(q)) : i + 1 \in 1 .. Len(q) /\ Tail(q)[i] = q[i + 1]
           /\ \A i \in 1 .. Len(q) :
                 i = 1 \/ (i - 1 \in 1 .. Len(Tail(q)) /\ Tail(q)[i - 1] = q[i])
<1>1. /\ Len(q) \in Nat /\ Len(q) >= 1 /\ Head(q) = q[1] /\ Len(Tail(q)) = Len(q) - 1
      /\ Head(q) \in T /\ Tail(q) \in Seq(T)
      /\ \A i \in 1 .. Len(q) - 1 : Tail(q)[i] = q[i + 1]
  OBVIOUS
<1>2. \A i \in 1 .. Len(q) - 1 : i + 1 \in 1 .. Len(q)
  BY <1>1
<1>3. ASSUME NEW i \in 1 .. Len(q), i # 1
      PROVE  i - 1 \in 1 .. Len(Tail(q)) /\ Tail(q)[i - 1] = q[i]
  <2>1. i - 1 \in 1 .. Len(q) - 1 /\ (i - 1) + 1 = i
    BY <1>1, <1>3
  <2> QED BY <1>1, <2>1
<1> QED BY <1>1, <1>2, <1>3

LEMMA AppendQueue ==
    ASSUME NEW T, NEW q \in Seq(T), NEW x \in T
    PROVE  /\ Append(q, x) \in Seq(T) /\ Len(q) \in Nat /\ Len(Append(q, x)) = Len(q) + 1
           /\ \A i \in 1 .. Len(q) : i \in 1 .. Len(Append(q, x)) /\ Append(q, x)[i] = q[i]
           /\ Append(q, x)[Len(q) + 1] = x
           /\ \A i \in 1 .. Len(Append(q, x)) : i \in 1 .. Len(q) \/ i = Len(q) + 1
OBVIOUS

LEMMA WithinTail ==
    ASSUME NEW T, NEW q \in Seq(T), q # << >>, NEW S, Within(q, S)
    PROVE  Head(q) \in S /\ Within(Tail(q), S)
<1>1. 1 \in 1 .. Len(q)
  BY TailQueue
<1> QED BY <1>1, TailQueue DEF Within

LEMMA WithinAppend ==
    ASSUME NEW T, NEW q \in Seq(T), NEW x \in T, NEW S, Within(q, S), x \in S
    PROVE  Within(Append(q, x), S)
BY AppendQueue DEF Within

LEMMA WithinMore ==
    ASSUME NEW q, NEW S, NEW S2, S \subseteq S2, Within(q, S)
    PROVE  Within(q, S2)
BY DEF Within

LEMMA WithinEmpty ==
    ASSUME NEW S
    PROVE  Within(<< >>, S)
BY DEF Within

(***************************************************************************)
(* The steps of the store.                                                 *)
(***************************************************************************)
LEMMA RequestFacts ==
    /\ \A m \in Messages : /\ Distribution(m) \in Requests
                           /\ Distribution(m).kind = "distribute" /\ Distribution(m).msg = m
    /\ \A s \in Streams : /\ Subscription(s) \in Requests
                          /\ Subscription(s).kind = "subscribe" /\ Subscription(s).stream = s
    /\ \A q \in Requests : \/ q.kind = "distribute" /\ q.msg \in Messages
                           \/ q.kind = "subscribe" /\ q.stream \in Streams
<1>1. \A m \in Messages : /\ Distribution(m) \in Requests
                          /\ Distribution(m).kind = "distribute" /\ Distribution(m).msg = m
  BY DEF Distribution, Requests
<1>2. \A s \in Streams : /\ Subscription(s) \in Requests
                         /\ Subscription(s).kind = "subscribe" /\ Subscription(s).stream = s
  BY DEF Subscription, Requests
<1>3. \A q \in Requests :
         (\E m \in Messages : q = Distribution(m)) \/ (\E s \in Streams : q = Subscription(s))
  BY DEF Requests
<1> QED BY <1>1, <1>2, <1>3

LEMMA StoreInitType == StoreInit => StoreTypeOK /\ StoreKnown
<1> SUFFICES ASSUME StoreInit PROVE StoreTypeOK /\ StoreKnown
  OBVIOUS
<1>1. /\ << >> \in Seq(Requests) /\ << >> \in Seq(Messages) /\ Len(<< >>) = 0
  OBVIOUS
<1>2. StoreTypeOK
  BY <1>1, StoreAssumption DEF StoreInit, StoreTypeOK, Idle, NoSubscription
<1>3. StoreKnown
  BY <1>1 DEF StoreInit, StoreKnown, Idle, NoSubscription, Within
<1> QED BY <1>2, <1>3

\* A step that leaves the channels alone.
LEMMA ChannelsFrame ==
    ASSUME StoreKnown, Committed \subseteq Committed', UNCHANGED <<requests, handing, sub>>,
           stored' \subseteq Committed', owed' \subseteq owed
    PROVE  StoreKnown'
BY DEF StoreKnown, Within

LEMMA BeginAddStore ==
    ASSUME StoreTypeOK, StoreKnown, NEW m \in Messages, BeginAdd(m)
    PROVE  StoreTypeOK' /\ StoreKnown' /\ Committed' = Committed
<1>1. StoreTypeOK'
  BY DEF BeginAdd, StoreTypeOK, Committed
<1>2. Committed' = Committed
  BY DEF BeginAdd, StoreTypeOK, Committed
<1>3. StoreKnown'
  BY <1>2, ChannelsFrame DEF BeginAdd, StoreKnown
<1> QED BY <1>1, <1>2, <1>3

LEMMA FailAddStore ==
    ASSUME StoreTypeOK, StoreKnown, NEW m \in Messages, FailAdd(m)
    PROVE  StoreTypeOK' /\ StoreKnown' /\ Committed' = Committed
<1>1. StoreTypeOK'
  BY DEF FailAdd, StoreTypeOK
<1>2. Committed' = Committed
  BY DEF FailAdd, StoreTypeOK, Committed
<1>3. StoreKnown'
  BY <1>2, ChannelsFrame DEF FailAdd, StoreKnown
<1> QED BY <1>1, <1>2, <1>3

LEMMA CommitAddStore ==
    ASSUME StoreTypeOK, StoreKnown, NEW m \in Messages, CommitAdd(m)
    PROVE  StoreTypeOK' /\ StoreKnown' /\ Committed' = Committed \cup {m} /\ m \notin Committed
<1>1. StoreTypeOK'
  BY StoreAssumption DEF CommitAdd, StoreTypeOK
<1>2. Committed' = Committed \cup {m} /\ m \notin Committed
  BY DEF CommitAdd, StoreTypeOK, Committed
<1>3. StoreKnown'
  BY <1>2, StoreAssumption DEF CommitAdd, StoreKnown, Within
<1> QED BY <1>1, <1>2, <1>3

LEMMA DistributeStore ==
    ASSUME StoreTypeOK, StoreKnown, NEW m \in Messages, Distribute(m)
    PROVE  StoreTypeOK' /\ StoreKnown' /\ Committed' = Committed
<1>1. Committed' = Committed /\ m \in Committed
  BY DEF Distribute, StoreTypeOK, Committed
<1>2. /\ Distribution(m) \in Requests /\ requests \in Seq(Requests)
      /\ requests' = Append(requests, Distribution(m)) /\ Len(requests) < RequestCap
      /\ RequestCap \in Nat
  BY RequestFacts, StoreAssumption DEF Distribute, StoreTypeOK
<1>3. requests' \in Seq(Requests) /\ Len(requests') <= RequestCap
  BY <1>2
<1>4. StoreTypeOK'
  BY <1>3 DEF Distribute, StoreTypeOK
<1>5. \A i \in 1 .. Len(requests') :
          requests'[i].kind = "distribute" => requests'[i].msg \in Committed
  BY <1>1, <1>2, AppendQueue, RequestFacts DEF StoreKnown
<1>6. StoreKnown'
  BY <1>1, <1>5 DEF Distribute, StoreKnown
<1> QED BY <1>1, <1>4, <1>6

LEMMA TakeRequestStore ==
    ASSUME StoreTypeOK, StoreKnown, TakeRequest
    PROVE  StoreTypeOK' /\ StoreKnown' /\ Committed' = Committed
<1>1. PICK q : q = Head(requests)
  OBVIOUS
<1>2. /\ requests \in Seq(Requests) /\ requests # << >> /\ requests' = Tail(requests)
      /\ UNCHANGED <<stored, owed, adding, earlier, sub>>
      /\ Len(requests) <= RequestCap /\ RequestCap \in Nat
  BY StoreAssumption DEF TakeRequest, StoreTypeOK
<1>3. /\ q \in Requests /\ requests' \in Seq(Requests) /\ Len(requests') <= RequestCap
  BY <1>1, <1>2, TailQueue
<1>4. Committed' = Committed
  BY <1>2 DEF Committed
<1>5. \A i \in 1 .. Len(requests') :
          requests'[i].kind = "distribute" => requests'[i].msg \in Committed
  BY <1>2, TailQueue DEF StoreKnown
<1>6. q.kind = "distribute" => q.msg \in Committed
  <2>1. 1 \in 1 .. Len(requests) /\ q = requests[1]
    BY <1>1, <1>2, TailQueue
  <2> QED BY <2>1 DEF StoreKnown
<1>7. CASE q.kind = "subscribe"
  <2>1. q.stream \in Streams /\ Owner[q.stream] \in Receivers
    BY <1>3, <1>7, RequestFacts, StoreAssumption
  <2>2. /\ subscribed' = [subscribed EXCEPT ![Owner[q.stream]] = q.stream]
        /\ handing' = handing
    BY <1>1, <1>7 DEF TakeRequest
  <2>3. StoreTypeOK'
    BY <1>2, <1>3, <2>1, <2>2 DEF StoreTypeOK
  <2> QED BY <1>2, <1>4, <1>5, <2>2, <2>3 DEF StoreKnown
<1>8. CASE q.kind = "distribute"
  <2>1. q.msg \in Messages /\ To[q.msg] \in SUBSET Receivers
    BY <1>3, <1>8, RequestFacts, StoreAssumption
  <2>2. /\ handing' = IF To[q.msg] = {} THEN Idle ELSE [msg |-> q.msg, left |-> To[q.msg]]
        /\ subscribed' = subscribed
    BY <1>1, <1>8 DEF TakeRequest
  <2>3. /\ handing' \in [msg : Messages \cup {None}, left : SUBSET Receivers]
        /\ handing'.left # {} => handing'.msg \in Committed
    BY <1>6, <1>8, <2>1, <2>2 DEF Idle
  <2>4. StoreTypeOK'
    BY <1>2, <1>3, <2>2, <2>3 DEF StoreTypeOK
  <2> QED BY <1>2, <1>4, <1>5, <2>3, <2>4 DEF StoreKnown
<1> QED BY <1>1, <1>7, <1>8 DEF TakeRequest

LEMMA HandOverStore ==
    ASSUME StoreTypeOK, StoreKnown, NEW r \in Receivers, HandOver(r)
    PROVE  StoreTypeOK' /\ StoreKnown' /\ Committed' = Committed
<1>1. /\ UNCHANGED <<stored, owed, adding, earlier, requests>>
      /\ handing \in [msg : Messages \cup {None}, left : SUBSET Receivers]
      /\ handing' = IF handing.left = {r} THEN Idle ELSE [handing EXCEPT !.left = @ \ {r}]
      /\ subscribed[r] \in Streams \cup {None} /\ None \notin Streams
  BY StoreAssumption DEF HandOver, StoreTypeOK, None
<1>2. Committed' = Committed
  BY <1>1 DEF Committed
<1>3. /\ handing' \in [msg : Messages \cup {None}, left : SUBSET Receivers]
      /\ handing'.left # {} => handing.left # {} /\ handing'.msg = handing.msg
  BY <1>1 DEF Idle
<1>4. CASE subscribed[r] = None
  BY <1>1, <1>2, <1>3, <1>4 DEF HandOver, StoreTypeOK, StoreKnown
<1>5. CASE subscribed[r] # None /\ ~sub[subscribed[r]].open
  BY <1>1, <1>2, <1>3, <1>5 DEF HandOver, StoreTypeOK, StoreKnown
<1>6. CASE subscribed[r] # None /\ sub[subscribed[r]].open
  <2>1. PICK s \in Streams : s = subscribed[r]
    BY <1>1, <1>6
  <2>2. /\ sub' = [sub EXCEPT ![s].queue = Append(@, handing.msg)]
        /\ subscribed' = subscribed /\ Len(sub[s].queue) < SubscriptionCap
    BY <1>1, <1>6, <2>1 DEF HandOver, CanSend
  <2>3. handing.msg \in Committed /\ handing.msg \in Messages
    BY DEF HandOver, StoreKnown, Committed
  <2>4. /\ sub[s] \in [open : BOOLEAN, queue : Seq(Messages)]
        /\ SubscriptionCap \in Nat
    BY StoreAssumption DEF StoreTypeOK
  <2>5. PICK queue \in Seq(Messages) : queue = Append(sub[s].queue, handing.msg)
    <3>1. sub[s].queue \in Seq(Messages)
      BY <2>4
    <3>2. Append(sub[s].queue, handing.msg) \in Seq(Messages)
      BY <2>3, <3>1
    <3> QED BY <3>2
  <2>6. Len(queue) <= SubscriptionCap /\ Within(queue, Committed)
    BY <2>2, <2>3, <2>4, <2>5, WithinAppend DEF StoreKnown
  <2>7. /\ sub'[s].queue = queue
        /\ sub' \in [Streams -> [open : BOOLEAN, queue : Seq(Messages)]]
        /\ \A t \in Streams \ {s} : sub'[t] = sub[t]
    BY <2>2, <2>4, <2>5 DEF StoreTypeOK
  <2>8. StoreTypeOK'
    BY <1>1, <1>3, <2>2, <2>6, <2>7 DEF StoreTypeOK
  <2> QED BY <1>1, <1>2, <1>3, <2>6, <2>7, <2>8 DEF StoreKnown
<1> QED BY <1>1, <1>4, <1>5, <1>6

LEMMA StoreStepStore ==
    ASSUME StoreTypeOK, StoreKnown, StoreStep
    PROVE  StoreTypeOK' /\ StoreKnown' /\ Committed \subseteq Committed'
BY BeginAddStore, FailAddStore, CommitAddStore, DistributeStore, TakeRequestStore,
   HandOverStore DEF StoreStep

(***************************************************************************)
(* The steps its users take.                                               *)
(***************************************************************************)
LEMMA SubscribeStore ==
    ASSUME StoreTypeOK, StoreKnown, NEW s \in Streams, SendSubscription(s)
    PROVE  StoreTypeOK' /\ StoreKnown' /\ Committed' = Committed
<1>1. /\ requests \in Seq(Requests) /\ Subscription(s) \in Requests
      /\ requests' = Append(requests, Subscription(s)) /\ Len(requests) < RequestCap
      /\ RequestCap \in Nat /\ Subscription(s).kind # "distribute"
      /\ sub' = [sub EXCEPT ![s] = [open |-> TRUE, queue |-> <<>>]]
      /\ UNCHANGED <<stored, owed, adding, earlier, handing, subscribed>>
  BY StoreAssumption, RequestFacts DEF SendSubscription, StoreTypeOK
<1>2. requests' \in Seq(Requests) /\ Len(requests') <= RequestCap
  BY <1>1
<1>3. /\ sub' \in [Streams -> [open : BOOLEAN, queue : Seq(Messages)]]
      /\ sub'[s].queue = << >> /\ \A t \in Streams \ {s} : sub'[t] = sub[t]
  <2>1. [open |-> TRUE, queue |-> <<>>] \in [open : BOOLEAN, queue : Seq(Messages)]
    OBVIOUS
  <2> QED BY <1>1, <2>1 DEF StoreTypeOK
<1>4. StoreTypeOK'
  BY <1>1, <1>2, <1>3, StoreAssumption DEF StoreTypeOK
<1>5. Committed' = Committed
  BY <1>1 DEF Committed
<1>6. \A i \in 1 .. Len(requests') :
          requests'[i].kind = "distribute" => requests'[i].msg \in Committed
  BY <1>1, AppendQueue DEF StoreKnown
<1> QED BY <1>1, <1>3, <1>4, <1>5, <1>6, WithinEmpty DEF StoreKnown

\* A stream takes a message from its subscription, or drops the subscription.
LEMMA SubStore ==
    ASSUME StoreTypeOK, StoreKnown, NEW s \in Streams,
           \/ sub' = sub
           \/ sub' = Dropped(s)
           \/ sub[s].queue # << >> /\ sub' = [sub EXCEPT ![s].queue = Tail(@)],
           UNCHANGED <<stored, owed, adding, earlier, requests, handing, subscribed>>
    PROVE  StoreTypeOK' /\ StoreKnown' /\ Committed' = Committed
<1>1. Committed' = Committed
  BY DEF Committed
<1>2. /\ sub[s] \in [open : BOOLEAN, queue : Seq(Messages)]
      /\ Len(sub[s].queue) <= SubscriptionCap /\ SubscriptionCap \in Nat
      /\ Within(sub[s].queue, Committed)
  BY StoreAssumption DEF StoreTypeOK, StoreKnown
<1>3. CASE sub' = sub
  BY <1>1, <1>3 DEF StoreTypeOK, StoreKnown
<1>4. CASE sub' = Dropped(s)
  <2>1. NoSubscription \in [open : BOOLEAN, queue : Seq(Messages)] /\ NoSubscription.queue = << >>
    BY DEF NoSubscription
  <2>2. /\ sub' \in [Streams -> [open : BOOLEAN, queue : Seq(Messages)]]
        /\ sub'[s].queue = << >> /\ \A t \in Streams \ {s} : sub'[t] = sub[t]
    BY <1>4, <2>1 DEF Dropped, StoreTypeOK
  <2>3. StoreTypeOK'
    BY <1>2, <2>2 DEF StoreTypeOK
  <2> QED BY <1>1, <2>2, <2>3, WithinEmpty DEF StoreKnown
<1>5. CASE sub[s].queue # << >> /\ sub' = [sub EXCEPT ![s].queue = Tail(@)]
  <2>1. PICK queue : queue = Tail(sub[s].queue)
    OBVIOUS
  <2>2. queue \in Seq(Messages) /\ Len(queue) <= SubscriptionCap /\ Within(queue, Committed)
    BY <1>2, <1>5, <2>1, TailQueue, WithinTail
  <2>3. /\ sub' \in [Streams -> [open : BOOLEAN, queue : Seq(Messages)]]
        /\ sub'[s].queue = queue /\ \A t \in Streams \ {s} : sub'[t] = sub[t]
    BY <1>2, <1>5, <2>1, <2>2 DEF StoreTypeOK
  <2>4. StoreTypeOK'
    BY <2>2, <2>3 DEF StoreTypeOK
  <2> QED BY <1>1, <2>2, <2>3, <2>4 DEF StoreKnown
<1> QED BY <1>3, <1>4, <1>5

\* Rows are deleted.
LEMMA DeleteStore ==
    ASSUME StoreTypeOK, StoreKnown, stored' \subseteq stored, owed' \subseteq owed,
           UNCHANGED <<adding, earlier, requests, handing, subscribed, sub>>
    PROVE  StoreTypeOK' /\ StoreKnown' /\ Committed' = Committed
<1>1. Committed' = Committed
  BY DEF Committed
<1>2. StoreTypeOK'
  BY DEF StoreTypeOK
<1> QED BY <1>1, <1>2, ChannelsFrame DEF StoreKnown

LEMMA RestartStore ==
    ASSUME StoreTypeOK, StoreKnown, StoreRestart
    PROVE  StoreTypeOK' /\ StoreKnown' /\ Committed' = Committed
<1>1. /\ << >> \in Seq(Requests) /\ << >> \in Seq(Messages) /\ Len(<< >>) = 0
  OBVIOUS
<1>2. adding' \in [Messages -> {"new", "begun", "committed", "done", "lost"}]
  BY DEF StoreRestart, StoreTypeOK
<1>3. StoreTypeOK'
  BY <1>1, <1>2, StoreAssumption DEF StoreRestart, StoreTypeOK, Idle, NoSubscription
<1>4. Committed' = Committed
  BY DEF StoreRestart, StoreTypeOK, Committed
<1>5. StoreKnown'
  BY <1>1, <1>4 DEF StoreRestart, StoreKnown, Idle, NoSubscription, Within
<1> QED BY <1>3, <1>4, <1>5

\* load_all_for returns messages it was asked for.
LEMMA LoadsFacts ==
    ASSUME NEW S \in SUBSET Messages, NEW f \in Loads(S)
    PROVE  f \in Seq(Messages) /\ Within(f, S)
<1>1. Cardinality(S) \in Nat
  BY StoreAssumption, FS_Subset, FS_CardinalityType
<1>2. f \in [1 .. Cardinality(S) -> S]
  BY DEF Loads
<1>3. f \in Seq(S) /\ Len(f) = Cardinality(S)
  BY <1>1, <1>2
<1>4. f \in Seq(Messages)
  BY <1>1, <1>2
<1> QED BY <1>2, <1>3, <1>4 DEF Within

\* A step that leaves the store alone.
LEMMA StoreFrame ==
    ASSUME StoreTypeOK, StoreKnown, UNCHANGED storeVars
    PROVE  StoreTypeOK' /\ StoreKnown' /\ Committed' = Committed
BY DEF storeVars, StoreTypeOK, StoreKnown, Committed

\* load_all_for returns every message it was asked for.
LEMMA LoadsAll ==
    ASSUME NEW S \in SUBSET Messages, NEW f \in Loads(S)
    PROVE  \A m \in S : \E i \in 1 .. Len(f) : f[i] = m
<1>1. IsFiniteSet(S) /\ Cardinality(S) \in Nat
  BY StoreAssumption, FS_Subset, FS_CardinalityType
<1>2. /\ f \in [1 .. Cardinality(S) -> S]
      /\ \A i, j \in 1 .. Cardinality(S) : f[i] = f[j] => i = j
  BY DEF Loads
<1>3. Len(f) = Cardinality(S)
  BY <1>1, <1>2
<1>4. f \in Injection(1 .. Cardinality(S), S)
  BY <1>2 DEF Injection, IsInjective
<1>5. Cardinality(1 .. Cardinality(S)) = Cardinality(S)
  BY <1>1, FS_Interval
<1>6. f \in Surjection(1 .. Cardinality(S), S)
  BY <1>1, <1>4, <1>5, FS_Injection
<1> QED BY <1>3, <1>6 DEF Surjection

=============================================================================

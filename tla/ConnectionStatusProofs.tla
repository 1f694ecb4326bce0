------------------------ MODULE ConnectionStatusProofs -------------------------
(***************************************************************************)
(* What ConnectionStatus promises, for any number of peers, connections,   *)
(* clients and forwards and any capacity of the channels: sessions are     *)
(* opened over the latest connection of a peer (LatestIsNewest), and what  *)
(* a main view shows, changed by what is still on its way to it, is what   *)
(* the server holds (DisplayAgrees).                                       *)
(*                                                                         *)
(* An event passes through four queues.  The lemmas about Final say how    *)
(* its effect moves with it; StreamInv and ViewInv are what they keep, on  *)
(* the two sides of the client's state.                                    *)
(***************************************************************************)
EXTENDS ConnectionStatus, SequenceTheorems, TLAPS

\* The positions of the events about a.
About(q, a) == {i \in DOMAIN q : q[i].peer = a}

\* The registry: what was registered last is what is looked up, or has ended.
RegistryInv ==
    /\ \A c \in Conns : task[c] # "off" => conn[c] # "none"
    /\ \A p \in Peers :
          /\ latest[p] # None => latest[p] = newest[p]
          /\ newest[p] # None =>
                /\ conn[newest[p]] # "none"
                /\ latest[p] = newest[p] \/ conn[newest[p]] = "closed"

\* From the registry to the client's state.  What was broadcast since the
\* subscription agrees with the registry, also before the list is made.
StreamInv(w) ==
    /\ recv[w].on <=> status[w] \in {"subscribed", "streaming"}
    /\ status[w] \in {"off", "subscribed"} =>
          /\ listed[w] = {} /\ out[w] = << >> /\ online[w] = {}
    /\ recv[w].on /\ ~recv[w].lagged => Final(Registered, recv[w].queue) = Registered
    /\ status[w] = "streaming" /\ ~recv[w].lagged /\ serving[w] =>
          Final(Final(online[w], out[w]) \cup listed[w], recv[w].queue) = Registered

\* From the client's state to the main view.
ViewInv(w) ==
    /\ \A i \in DOMAIN out[w] : out[w][i].peer \in Agents
    /\ \A i \in DOMAIN updates[w].queue : updates[w].queue[i].peer \in Agents
    /\ ~updates[w].on => updates[w].queue = << >>
    /\ updates[w].on /\ ~updates[w].lagged => Final(shown[w], updates[w].queue) = online[w]

\* The inductive invariant.
StatusInv ==
    /\ TypeOK /\ RegistryInv
    /\ \A w \in Clients : StreamInv(w) /\ ViewInv(w)

(***************************************************************************)
(* What becomes of a set of agents by the events of a queue.               *)
(***************************************************************************)
LEMMA FinalOf ==
    ASSUME NEW S, NEW q, NEW a \in Agents
    PROVE  a \in Final(S, q) <=>
               IF About(q, a) = {} THEN a \in S
               ELSE \E i \in About(q, a) : q[i].online /\ \A j \in About(q, a) : j <= i
BY DEF Final, About

LEMMA FinalAgents == \A S, q : Final(S, q) \subseteq Agents
BY DEF Final

LEMMA FinalEmpty ==
    ASSUME NEW S \in SUBSET Agents
    PROVE  Final(S, << >>) = S
<1>1. \A a \in Agents : About(<< >>, a) = {}
  BY DEF About
<1>2. \A a \in Agents : a \in Final(S, << >>) <=> a \in S
  BY <1>1, FinalOf
<1> QED BY <1>2, FinalAgents

\* Only the members that no event is about count.
LEMMA FinalOfEqual ==
    ASSUME NEW S, NEW T, NEW q, NEW a \in Agents, a \in S <=> a \in T
    PROVE  a \in Final(S, q) <=> a \in Final(T, q)
BY FinalOf

LEMMA AboutAppend ==
    ASSUME NEW q \in Seq(Events), NEW e \in Events, NEW a \in Agents
    PROVE  /\ e.peer = a => About(Append(q, e), a) = About(q, a) \cup {Len(q) + 1}
           /\ e.peer # a => About(Append(q, e), a) = About(q, a)
           /\ \A i \in About(q, a) : i \in Nat /\ i <= Len(q) /\ Append(q, e)[i] = q[i]
           /\ Append(q, e)[Len(q) + 1] = e
<1>1. /\ Append(q, e) \in Seq(Events) /\ Len(Append(q, e)) = Len(q) + 1
      /\ \A i \in 1 .. Len(q) : Append(q, e)[i] = q[i]
      /\ Append(q, e)[Len(q) + 1] = e
  OBVIOUS
<1>2. DOMAIN q = 1 .. Len(q) /\ DOMAIN Append(q, e) = 1 .. Len(q) + 1 /\ Len(q) \in Nat
  BY <1>1
<1>3. DOMAIN Append(q, e) = DOMAIN q \cup {Len(q) + 1} /\ Len(q) + 1 \notin DOMAIN q
  BY <1>2
<1> QED BY <1>1, <1>2, <1>3 DEF About

LEMMA FinalAppend ==
    ASSUME NEW S, NEW q \in Seq(Events), NEW e \in Events
    PROVE  Final(S, Append(q, e)) = Update(Final(S, q), e) \cap Agents
<1>1. ASSUME NEW a \in Agents
      PROVE  a \in Final(S, Append(q, e)) <=> a \in Update(Final(S, q), e)
  <2> DEFINE r == Append(q, e)
  <2>1. CASE e.peer = a
    <3>1. /\ About(r, a) = About(q, a) \cup {Len(q) + 1} /\ r[Len(q) + 1] = e
          /\ \A j \in About(r, a) : j \in Nat /\ j <= Len(q) + 1
      BY <2>1, AboutAppend
    <3>2. a \in Final(S, r) <=> e.online
      <4>1. \A i \in About(r, a) : Len(q) + 1 <= i => i = Len(q) + 1
        BY <3>1
      <4> HIDE DEF r
      <4> QED BY <3>1, <4>1, FinalOf
    <3> QED BY <2>1, <3>2 DEF Update, Events
  <2>2. CASE e.peer # a
    <3>1. About(r, a) = About(q, a)
      BY <2>2, AboutAppend
    <3>2. \A i \in About(q, a) : i \in 1 .. Len(q) /\ r[i] = q[i]
      BY DEF About
    <3>3. a \in Final(S, r) <=> a \in Final(S, q)
      <4> HIDE DEF r
      <4> QED BY <3>1, <3>2, FinalOf
    <3> QED BY <2>2, <3>3 DEF Update, Events
  <2> QED BY <2>1, <2>2
<1> QED BY <1>1, FinalAgents

\* The positions in a queue that was put together of two.
LEMMA AboutConcat ==
    ASSUME NEW q \in Seq(Events), NEW r \in Seq(Events), NEW a \in Agents
    PROVE  /\ About(q \o r, a) = About(q, a) \cup {Len(q) + i : i \in About(r, a)}
           /\ \A i \in About(q, a) : i \in Nat /\ i <= Len(q) /\ (q \o r)[i] = q[i]
           /\ \A i \in About(r, a) : i \in Nat /\ i >= 1 /\ (q \o r)[Len(q) + i] = r[i]
<1>1. /\ q \o r \in Seq(Events) /\ Len(q \o r) = Len(q) + Len(r)
      /\ \A i \in 1 .. Len(q) : (q \o r)[i] = q[i]
      /\ \A i \in 1 .. Len(r) : (q \o r)[Len(q) + i] = r[i]
  OBVIOUS
<1>2. /\ DOMAIN q = 1 .. Len(q) /\ DOMAIN r = 1 .. Len(r) /\ DOMAIN (q \o r) = 1 .. Len(q) + Len(r)
      /\ Len(q) \in Nat /\ Len(r) \in Nat
  BY <1>1
<1>3. \A n \in 1 .. Len(q) + Len(r) :
          n \in 1 .. Len(q) \/ (n - Len(q) \in 1 .. Len(r) /\ n = Len(q) + (n - Len(q)))
  BY <1>2
<1>4. \A n \in 1 .. Len(r) : Len(q) + n \in 1 .. Len(q) + Len(r)
  BY <1>2
<1>5. ASSUME NEW n \in About(q \o r, a)
      PROVE  n \in About(q, a) \cup {Len(q) + i : i \in About(r, a)}
  <2>1. n \in 1 .. Len(q) + Len(r) /\ (q \o r)[n].peer = a
    BY <1>2, <1>5 DEF About
  <2>2. CASE n \in 1 .. Len(q)
    BY <1>1, <1>2, <2>1, <2>2 DEF About
  <2>3. CASE n - Len(q) \in 1 .. Len(r) /\ n = Len(q) + (n - Len(q))
    <3>1. PICK i \in 1 .. Len(r) : n = Len(q) + i
      BY <2>3
    <3>2. i \in About(r, a)
      BY <1>1, <1>2, <2>1, <3>1 DEF About
    <3> QED BY <3>1, <3>2
  <2> QED BY <1>3, <2>1, <2>2, <2>3
<1>6. About(q, a) \subseteq About(q \o r, a)
  BY <1>1, <1>2 DEF About
<1>7. ASSUME NEW i \in About(r, a) PROVE Len(q) + i \in About(q \o r, a)
  BY <1>1, <1>2, <1>4 DEF About
<1>8. /\ \A i \in About(q, a) : i \in Nat /\ i <= Len(q) /\ (q \o r)[i] = q[i]
      /\ \A i \in About(r, a) : i \in Nat /\ i >= 1 /\ (q \o r)[Len(q) + i] = r[i]
  BY <1>1, <1>2 DEF About
<1> QED BY <1>5, <1>6, <1>7, <1>8

LEMMA FinalConcat ==
    ASSUME NEW S, NEW q \in Seq(Events), NEW r \in Seq(Events)
    PROVE  Final(S, q \o r) = Final(Final(S, q), r)
<1>1. ASSUME NEW a \in Agents
      PROVE  a \in Final(S, q \o r) <=> a \in Final(Final(S, q), r)
  <2>1. PICK t : t = q \o r
    OBVIOUS
  <2>2. /\ About(t, a) = About(q, a) \cup {Len(q) + i : i \in About(r, a)}
        /\ \A i \in About(q, a) : i \in Nat /\ i <= Len(q) /\ t[i] = q[i]
        /\ \A i \in About(r, a) : i \in Nat /\ i >= 1 /\ t[Len(q) + i] = r[i]
        /\ Len(q) \in Nat
    BY <2>1, AboutConcat
  <2>3. CASE About(r, a) = {}
    <3>1. About(t, a) = About(q, a)
      BY <2>2, <2>3
    <3>2. a \in Final(S, t) <=> a \in Final(S, q)
      BY <2>2, <3>1, FinalOf
    <3>3. a \in Final(Final(S, q), r) <=> a \in Final(S, q)
      BY <2>3, FinalOf
    <3> QED BY <2>1, <3>2, <3>3
  <2>4. CASE About(r, a) # {}
    <3>1. ASSUME a \in Final(S, t) PROVE a \in Final(Final(S, q), r)
      <4>1. PICK i \in About(t, a) : t[i].online /\ \A j \in About(t, a) : j <= i
        BY <2>2, <2>4, <3>1, FinalOf
      <4>2. PICK k \in About(r, a) : TRUE
        BY <2>4
      <4>3. Len(q) + k <= i
        BY <2>2, <4>1, <4>2
      <4>4. i \notin About(q, a)
        BY <2>2, <4>2, <4>3
      <4>5. PICK n \in About(r, a) : i = Len(q) + n
        BY <2>2, <4>1, <4>4
      <4>6. \A j \in About(r, a) : j <= n
        BY <2>2, <4>1, <4>5
      <4> QED BY <2>2, <2>4, <4>1, <4>5, <4>6, FinalOf
    <3>2. ASSUME a \in Final(Final(S, q), r) PROVE a \in Final(S, t)
      <4>1. PICK n \in About(r, a) : r[n].online /\ \A j \in About(r, a) : j <= n
        BY <2>4, <3>2, FinalOf
      <4>2. Len(q) + n \in About(t, a) /\ t[Len(q) + n].online
        BY <2>2, <4>1
      <4>3. \A j \in About(t, a) : j <= Len(q) + n
        BY <2>2, <4>1
      <4> QED BY <4>2, <4>3, FinalOf
    <3> QED BY <2>1, <3>1, <3>2
  <2> QED BY <2>3, <2>4
<1>2. Final(S, q \o r) \subseteq Agents /\ Final(Final(S, q), r) \subseteq Agents
  BY FinalAgents
<1> QED BY <1>1, <1>2

\* The first event of a queue may as well have happened already.
LEMMA FinalTail ==
    ASSUME NEW S, NEW q \in Seq(Events), q # << >>
    PROVE  /\ Head(q) \in Events /\ Tail(q) \in Seq(Events)
           /\ Final(S, q) = Final(Update(S, Head(q)), Tail(q))
<1>0. /\ Head(q) \in Events /\ Tail(q) \in Seq(Events) /\ <<Head(q)>> \in Seq(Events)
      /\ << >> \in Seq(Events)
  OBVIOUS
<1>1. PICK e \in Events, t \in Seq(Events), u \in Seq(Events), z \in Seq(Events) :
          e = Head(q) /\ t = Tail(q) /\ u = <<Head(q)>> /\ z = << >>
  BY <1>0
<1>2. q = u \o t /\ u = Append(z, e)
  BY <1>1
<1>3. Final(S, u \o t) = Final(Final(S, u), t)
  BY FinalConcat
<1>4. Final(S, Append(z, e)) = Update(Final(S, z), e) \cap Agents
  BY FinalAppend
<1>5. ASSUME NEW a \in Agents PROVE a \in Final(S, u) <=> a \in Update(S, e)
  <2>1. About(z, a) = {}
    BY <1>1 DEF About
  <2>2. a \in Final(S, z) <=> a \in S
    BY <2>1, FinalOf
  <2> QED BY <1>2, <1>4, <2>2 DEF Update
<1>6. ASSUME NEW a \in Agents PROVE a \in Final(Final(S, u), t) <=> a \in Final(Update(S, e), t)
  BY <1>5, FinalOfEqual
<1>7. Final(Final(S, u), t) \subseteq Agents /\ Final(Update(S, e), t) \subseteq Agents
  BY FinalAgents
<1>8. Final(Final(S, u), t) = Final(Update(S, e), t)
  BY <1>6, <1>7
<1> QED BY <1>1, <1>2, <1>3, <1>8

(***************************************************************************)
(* Receivers of a broadcast.                                               *)
(***************************************************************************)
LEMMA Names ==
    /\ None \notin Conns /\ None \notin Forwards
    /\ StatusCap \in Nat \ {0} /\ OutCap \in Nat \ {0} /\ UpdateCap \in Nat \ {0}
    /\ Agents \subseteq Peers /\ PeerOf \in [Conns -> Peers]
BY StatusAssumption DEF None

LEMMA QueueType ==
    ASSUME NEW cap \in Nat, NEW q
    PROVE  q \in UNION {[1 .. n -> Events] : n \in 0 .. cap} <=>
               q \in Seq(Events) /\ Len(q) <= cap
<1>1. ASSUME NEW n \in 0 .. cap, q \in [1 .. n -> Events]
      PROVE  q \in Seq(Events) /\ Len(q) <= cap
  <2>1. q \in Seq(Events)
    BY <1>1
  <2>2. DOMAIN q = 1 .. n /\ DOMAIN q = 1 .. Len(q) /\ Len(q) \in Nat /\ n \in Nat /\ n <= cap
    BY <1>1, <2>1
  <2>3. \A k \in Nat : 1 .. n = 1 .. k => k = n
    BY <2>2
  <2> QED BY <2>1, <2>2, <2>3
<1>2. ASSUME q \in Seq(Events), Len(q) <= cap
      PROVE  q \in UNION {[1 .. n -> Events] : n \in 0 .. cap}
  <2>1. PICK n \in 0 .. cap : q \in [1 .. n -> Events]
    BY <1>2
  <2>2. [1 .. n -> Events] \in {[1 .. k -> Events] : k \in 0 .. cap}
    OBVIOUS
  <2> QED BY <2>1, <2>2
<1> QED BY <1>1, <1>2

LEMMA ReceiverType ==
    ASSUME NEW cap \in Nat, NEW r \in Receivers(cap)
    PROVE  /\ r.on \in BOOLEAN /\ r.lagged \in BOOLEAN
           /\ r.queue \in Seq(Events) /\ Len(r.queue) <= cap
           /\ r = [on |-> r.on, queue |-> r.queue, lagged |-> r.lagged]
BY QueueType DEF Receivers

LEMMA ReceiverMade ==
    ASSUME NEW cap \in Nat, NEW on \in BOOLEAN, NEW lagged \in BOOLEAN,
           NEW q \in Seq(Events), Len(q) <= cap
    PROVE  [on |-> on, queue |-> q, lagged |-> lagged] \in Receivers(cap)
BY QueueType DEF Receivers

LEMMA ReceiverExcept ==
    ASSUME NEW cap \in Nat, NEW r \in Receivers(cap), NEW q
    PROVE  /\ [r EXCEPT !.queue = q] = [on |-> r.on, queue |-> q, lagged |-> r.lagged]
           /\ [r EXCEPT !.on = TRUE] = [on |-> TRUE, queue |-> r.queue, lagged |-> r.lagged]
<1>1. PICK X : r \in [on : BOOLEAN, queue : X, lagged : BOOLEAN]
  BY DEF Receivers
<1>2. [r EXCEPT !.queue = q] = [on |-> r.on, queue |-> q, lagged |-> r.lagged]
  BY <1>1
<1>3. [r EXCEPT !.on = TRUE] = [on |-> TRUE, queue |-> r.queue, lagged |-> r.lagged]
  <2>1. PICK s, t : /\ s = [r EXCEPT !.on = TRUE]
                    /\ t = [on |-> TRUE, queue |-> r.queue, lagged |-> r.lagged]
    OBVIOUS
  <2>2. /\ s \in [on : BOOLEAN, queue : X, lagged : BOOLEAN]
        /\ t \in [on : BOOLEAN, queue : X, lagged : BOOLEAN]
    BY <1>1, <2>1
  <2>3. s.on = t.on /\ s.queue = t.queue /\ s.lagged = t.lagged
    BY <1>1, <2>1
  <2> QED BY <2>1, <2>2, <2>3
<1> QED BY <1>2, <1>3

LEMMA NoReceiverType ==
    ASSUME NEW cap \in Nat
    PROVE  /\ NoReceiver \in Receivers(cap)
           /\ [NoReceiver EXCEPT !.on = TRUE] \in Receivers(cap)
           /\ [NoReceiver EXCEPT !.lagged = TRUE] \in Receivers(cap)
<1>1. << >> \in Seq(Events) /\ Len(<< >>) <= cap
  OBVIOUS
<1>2. << >> \in UNION {[1 .. n -> Events] : n \in 0 .. cap}
  BY <1>1, QueueType
<1> QED BY <1>2 DEF NoReceiver, Receivers

\* One receiver of a broadcast.
Told(r, e, cap) ==
    IF ~r.on THEN r
    ELSE IF Len(r.queue) < cap
         THEN [r EXCEPT !.queue = Append(@, e)]
         ELSE [r EXCEPT !.queue = Append(Tail(@), e), !.lagged = TRUE]

LEMMA BroadcastIsTold ==
    \A rs, e, cap : Broadcast(rs, e, cap) = [w \in Clients |-> Told(rs[w], e, cap)]
BY DEF Broadcast, Told

LEMMA ToldFacts ==
    ASSUME NEW cap \in Nat \ {0}, NEW r \in Receivers(cap), NEW e \in Events
    PROVE  /\ Told(r, e, cap) \in Receivers(cap)
           /\ Told(r, e, cap).on = r.on
           /\ ~r.on => Told(r, e, cap) = r
           /\ r.on /\ ~Told(r, e, cap).lagged =>
                 ~r.lagged /\ Told(r, e, cap).queue = Append(r.queue, e)
           /\ \A i \in DOMAIN Told(r, e, cap).queue :
                 \/ Told(r, e, cap).queue[i] = e
                 \/ \E j \in DOMAIN r.queue : Told(r, e, cap).queue[i] = r.queue[j]
<1>1. /\ r.on \in BOOLEAN /\ r.lagged \in BOOLEAN /\ cap \in Nat
      /\ r.queue \in Seq(Events) /\ Len(r.queue) <= cap
      /\ r = [on |-> r.on, queue |-> r.queue, lagged |-> r.lagged]
  BY ReceiverType
<1>2. CASE ~r.on
  BY <1>2 DEF Told
<1>3. CASE r.on /\ Len(r.queue) < cap
  <2>1. PICK q : q = Append(r.queue, e)
    OBVIOUS
  <2>2. q \in Seq(Events) /\ Len(q) = Len(r.queue) + 1 /\ Len(q) <= cap
    BY <1>1, <1>3, <2>1
  <2>3. Told(r, e, cap) = [on |-> r.on, queue |-> q, lagged |-> r.lagged]
    BY <1>1, <1>3, <2>1 DEF Told
  <2>4. Told(r, e, cap) \in Receivers(cap)
    BY <1>1, <2>2, <2>3, ReceiverMade
  <2>5. \A i \in DOMAIN q : q[i] = e \/ \E j \in DOMAIN r.queue : q[i] = r.queue[j]
    <3>1. DOMAIN q = 1 .. Len(r.queue) + 1 /\ DOMAIN r.queue = 1 .. Len(r.queue)
      BY <1>1, <2>2
    <3>2. /\ \A i \in 1 .. Len(r.queue) : q[i] = r.queue[i]
          /\ q[Len(r.queue) + 1] = e
      BY <1>1, <2>1
    <3>3. \A i \in 1 .. Len(r.queue) + 1 : i \in 1 .. Len(r.queue) \/ i = Len(r.queue) + 1
      BY <1>1
    <3> QED BY <3>1, <3>2, <3>3
  <2> QED BY <1>3, <2>1, <2>3, <2>4, <2>5
<1>4. CASE r.on /\ ~(Len(r.queue) < cap)
  <2>1. PICK t : t = Tail(r.queue)
    OBVIOUS
  <2>2. PICK q : q = Append(t, e)
    OBVIOUS
  <2>3. Len(r.queue) = cap /\ r.queue # << >>
    BY <1>1, <1>4
  <2>4. /\ t \in Seq(Events) /\ Len(t) = Len(r.queue) - 1
        /\ \A i \in 1 .. Len(t) : t[i] = r.queue[i + 1]
    BY <1>1, <2>1, <2>3
  <2>5. q \in Seq(Events) /\ Len(q) = Len(t) + 1 /\ Len(q) <= cap
    BY <1>1, <2>2, <2>3, <2>4
  <2>6. Told(r, e, cap) = [on |-> r.on, queue |-> q, lagged |-> TRUE]
    BY <1>1, <1>4, <2>1, <2>2 DEF Told
  <2>7. Told(r, e, cap) \in Receivers(cap)
    BY <1>1, <2>5, <2>6, ReceiverMade
  <2>8. \A i \in DOMAIN q : q[i] = e \/ \E j \in DOMAIN r.queue : q[i] = r.queue[j]
    <3>1. DOMAIN q = 1 .. Len(t) + 1 /\ DOMAIN r.queue = 1 .. Len(r.queue)
      BY <1>1, <2>5
    <3>2. /\ \A i \in 1 .. Len(t) : q[i] = t[i]
          /\ q[Len(t) + 1] = e
      BY <2>2, <2>4
    <3>3. \A i \in 1 .. Len(t) + 1 : i \in 1 .. Len(t) \/ i = Len(t) + 1
      BY <2>4
    <3>4. \A i \in 1 .. Len(t) : i + 1 \in 1 .. Len(r.queue)
      BY <1>1, <2>4
    <3> QED BY <2>4, <3>1, <3>2, <3>3, <3>4
  <2> QED BY <1>4, <2>6, <2>7, <2>8
<1> QED BY <1>2, <1>3, <1>4

(***************************************************************************)
(* Frames.                                                                 *)
(***************************************************************************)
RegistryType ==
    /\ conn \in [Conns -> {"none", "open", "closed"}]
    /\ task \in [Conns -> {"off", "register", "serve", "done"}]
    /\ onclose \in [Conns -> {"off", "waiting", "done"}]
    /\ latest \in [Peers -> Conns \cup {None}]
    /\ newest \in [Peers -> Conns \cup {None}]
    /\ opening \in Forwards \cup {None}
    /\ forward \in [Forwards -> [at : {"off", "opening", "open", "ended", "failed"},
                                 via : Conns \cup {None}]]
    /\ closing \in {"no", "waiting", "closed"}

ClientsType ==
    /\ status \in [Clients -> {"off", "subscribed", "streaming", "ended"}]
    /\ listed \in [Clients -> SUBSET Agents]
    /\ recv \in [Clients -> Receivers(StatusCap)]
    /\ out \in [Clients -> Seq(Events)]
    /\ \A w \in Clients : Len(out[w]) <= OutCap
    /\ serving \in [Clients -> BOOLEAN]
    /\ online \in [Clients -> SUBSET Agents]
    /\ updates \in [Clients -> Receivers(UpdateCap)]
    /\ shown \in [Clients -> SUBSET Agents]

LEMMA TypeParts == TypeOK <=> RegistryType /\ ClientsType
BY DEF TypeOK, RegistryType, ClientsType

LEMMA StreamSame ==
    ASSUME NEW w \in Clients, StreamInv(w), UNCHANGED latest,
           status'[w] = status[w], listed'[w] = listed[w], recv'[w] = recv[w],
           out'[w] = out[w], serving'[w] = serving[w], online'[w] = online[w]
    PROVE  StreamInv(w)'
<1>1. Registered' = Registered
  BY DEF Registered
<1> QED BY <1>1 DEF StreamInv

LEMMA ViewSame ==
    ASSUME NEW w \in Clients, ViewInv(w), out'[w] = out[w], online'[w] = online[w],
           updates'[w] = updates[w], shown'[w] = shown[w]
    PROVE  ViewInv(w)'
BY DEF ViewInv

\* A step that the clients do not see.
LEMMA RegistrySide ==
    ASSUME StatusInv, UNCHANGED <<latest, status, listed, recv, clientVars>>,
           RegistryType', RegistryInv'
    PROVE  StatusInv'
<1>1. UNCHANGED <<latest, status, listed, recv, out, serving, online, updates, shown>>
  BY DEF clientVars
<1>2. ClientsType'
  BY <1>1, TypeParts DEF StatusInv, ClientsType
<1>3. TypeOK'
  BY <1>2 DEF TypeOK, RegistryType, ClientsType
<1>4. \A w \in Clients : StreamInv(w)'
  BY <1>1, StreamSame DEF StatusInv
<1>5. \A w \in Clients : ViewInv(w)'
  BY <1>1, ViewSame DEF StatusInv
<1> QED BY <1>3, <1>4, <1>5 DEF StatusInv

\* A step at one client, or of the task that streams to it.
LEMMA ClientSide ==
    ASSUME StatusInv, NEW w \in Clients, UNCHANGED registryVars, ClientsType',
           \A v \in Clients \ {w} :
               /\ status'[v] = status[v] /\ listed'[v] = listed[v] /\ recv'[v] = recv[v]
               /\ out'[v] = out[v] /\ serving'[v] = serving[v] /\ online'[v] = online[v]
               /\ updates'[v] = updates[v] /\ shown'[v] = shown[v],
           StreamInv(w)', ViewInv(w)'
    PROVE  StatusInv'
<1>1. UNCHANGED <<conn, task, onclose, latest, newest, opening, forward, closing>>
  BY DEF registryVars
<1>2. TypeOK'
  BY <1>1 DEF StatusInv, TypeOK, ClientsType
<1>3. RegistryInv'
  BY <1>1 DEF StatusInv, RegistryInv
<1>4. ASSUME NEW v \in Clients PROVE StreamInv(v)'
  BY <1>1, <1>4, StreamSame DEF StatusInv
<1>5. ASSUME NEW v \in Clients PROVE ViewInv(v)'
  BY <1>5, ViewSame DEF StatusInv
<1> QED BY <1>2, <1>3, <1>4, <1>5 DEF StatusInv

(***************************************************************************)
(* The registry.                                                           *)
(***************************************************************************)
LEMMA ConnStepQuiet ==
    ASSUME StatusInv, NEW c \in Conns,
           Arrive(c) \/ Disconnect(c) \/ ServeEnds(c) \/ ServeCancelled(c)
    PROVE  StatusInv'
<1>1. RegistryType /\ RegistryInv
  BY TypeParts DEF StatusInv
<1>2. UNCHANGED <<onclose, latest, newest, opening, forward, closing, status, listed, recv,
                  clientVars>>
  BY DEF Arrive, Disconnect, ServeEnds, ServeCancelled
<1>3. RegistryType'
  BY <1>1, <1>2 DEF RegistryType, Arrive, Disconnect, ServeEnds, ServeCancelled
<1>4. /\ \A b \in Conns : conn'[b] = conn[b] \/ (b = c /\ conn'[b] = "open" /\ conn[b] = "none")
                          \/ (conn'[b] = "closed" /\ conn[b] # "none")
      /\ \A b \in Conns : task'[b] # "off" => task[b] # "off" \/ conn'[b] # "none"
  BY <1>1 DEF RegistryType, Arrive, Disconnect, ServeEnds, ServeCancelled
<1>5. RegistryInv'
  <2>1. \A b \in Conns : task'[b] # "off" => conn'[b] # "none"
    BY <1>1, <1>4 DEF RegistryInv
  <2>2. ASSUME NEW p \in Peers, newest[p] # None
        PROVE  /\ conn'[newest[p]] # "none"
               /\ latest[p] = newest[p] \/ conn'[newest[p]] = "closed"
    BY <1>1, <1>4, <2>2 DEF RegistryInv, RegistryType
  <2> QED BY <1>1, <1>2, <2>1, <2>2 DEF RegistryInv
<1> QED BY <1>2, <1>3, <1>5, RegistrySide

LEMMA ForwardSteps ==
    ASSUME StatusInv, NEW f \in Forwards,
           (\E p \in Peers : Forward(f, p)) \/ Opened(f) \/ OpenFails(f) \/ SessionEnds(f)
    PROVE  StatusInv'
<1>1. RegistryType /\ RegistryInv
  BY TypeParts DEF StatusInv
<1>2. UNCHANGED <<conn, task, onclose, latest, newest, closing, status, listed, recv, clientVars>>
  BY DEF Forward, Opened, OpenFails, SessionEnds, forwardFrame
<1>3. /\ opening' \in Forwards \cup {None}
      /\ forward' \in [Forwards -> [at : {"off", "opening", "open", "ended", "failed"},
                                    via : Conns \cup {None}]]
  <2>1. CASE \E p \in Peers : Forward(f, p)
    BY <1>1, <2>1 DEF RegistryType, Forward
  <2>2. CASE Opened(f) \/ OpenFails(f) \/ SessionEnds(f)
    BY <1>1, <2>2 DEF RegistryType, Opened, OpenFails, SessionEnds
  <2> QED BY <2>1, <2>2
<1>4. RegistryType'
  BY <1>1, <1>2, <1>3 DEF RegistryType
<1>5. RegistryInv'
  BY <1>1, <1>2 DEF RegistryInv
<1> QED BY <1>2, <1>4, <1>5, RegistrySide

LEMMA CloseBeginsStep ==
    ASSUME StatusInv, CloseBegins
    PROVE  StatusInv'
<1>1. RegistryType /\ RegistryInv
  BY TypeParts DEF StatusInv
<1>2. RegistryType' /\ UNCHANGED <<latest, status, listed, recv, clientVars>>
  BY <1>1 DEF RegistryType, CloseBegins
<1>3. RegistryInv'
  BY <1>1 DEF RegistryInv, CloseBegins
<1> QED BY <1>2, <1>3, RegistrySide

\* The registry changes and tells the clients so: the event takes the effect of the
\* change to the end of every queue.
LEMMA RegistryTells ==
    ASSUME StatusInv, NEW e \in Events, RegistryType', RegistryInv',
           recv' = Broadcast(recv, e, StatusCap),
           Registered' = Update(Registered, e) \cap Agents,
           UNCHANGED <<status, listed, clientVars>>
    PROVE  StatusInv'
<1>1. UNCHANGED <<status, listed, out, serving, online, updates, shown>>
  BY DEF clientVars
<1>2. ClientsType /\ recv \in [Clients -> Receivers(StatusCap)] /\ StatusCap \in Nat \ {0}
  BY TypeParts, Names DEF StatusInv, ClientsType
<1>3. \A w \in Clients : recv'[w] = Told(recv[w], e, StatusCap)
  BY BroadcastIsTold
<1>4. ASSUME NEW w \in Clients
      PROVE  /\ recv'[w] \in Receivers(StatusCap) /\ recv'[w].on = recv[w].on
             /\ recv[w].on /\ ~recv'[w].lagged =>
                   ~recv[w].lagged /\ recv'[w].queue = Append(recv[w].queue, e)
             /\ recv[w].queue \in Seq(Events)
  <2>1. PICK r \in Receivers(StatusCap) : r = recv[w]
    BY <1>2
  <2>2. r.queue \in Seq(Events)
    BY <1>2, ReceiverType
  <2>3. /\ Told(r, e, StatusCap) \in Receivers(StatusCap) /\ Told(r, e, StatusCap).on = r.on
        /\ r.on /\ ~Told(r, e, StatusCap).lagged =>
              ~r.lagged /\ Told(r, e, StatusCap).queue = Append(r.queue, e)
    BY <1>2, ToldFacts
  <2> QED BY <1>3, <2>1, <2>2, <2>3
<1>5. recv' \in [Clients -> Receivers(StatusCap)]
  BY <1>4, BroadcastIsTold
<1>6. ClientsType'
  BY <1>1, <1>2, <1>5 DEF ClientsType
<1>7. TypeOK'
  BY <1>6 DEF TypeOK, RegistryType, ClientsType
<1>8. PICK R, N : R = Registered /\ N = Registered'
  OBVIOUS
<1>9. R \subseteq Agents /\ N = Update(R, e) \cap Agents
  BY <1>8 DEF Registered
<1>10. ASSUME NEW q \in Seq(Events), Final(R, q) = R
       PROVE  Final(N, Append(q, e)) = N
  <2>1. Final(N, Append(q, e)) = Update(Final(N, q), e) \cap Agents
    BY FinalAppend
  <2>2. ASSUME NEW a \in Agents, a # e.peer PROVE a \in Final(N, q) <=> a \in N
    <3>1. a \in N <=> a \in R
      BY <1>9, <2>2 DEF Update
    <3>2. a \in Final(N, q) <=> a \in Final(R, q)
      BY <3>1, FinalOfEqual
    <3> QED BY <1>10, <3>1, <3>2
  <2>3. \A a \in Agents : a \in Update(Final(N, q), e) <=> a \in N
    BY <1>9, <2>2 DEF Update
  <2> QED BY <1>9, <2>1, <2>3
<1>11. ASSUME NEW X, NEW q \in Seq(Events), Final(X, q) = R
       PROVE  Final(X, Append(q, e)) = N
  BY <1>9, <1>11, FinalAppend
<1>12. ASSUME NEW w \in Clients PROVE StreamInv(w)'
  <2>1. StreamInv(w)
    BY DEF StatusInv
  <2>2. PICK q \in Seq(Events) : q = recv[w].queue
    BY <1>4
  <2>20. PICK X : X = Final(online[w], out[w]) \cup listed[w]
    OBVIOUS
  <2>3. recv'[w].on <=> status'[w] \in {"subscribed", "streaming"}
    BY <1>1, <1>4, <2>1 DEF StreamInv
  <2>4. status'[w] \in {"off", "subscribed"} =>
            listed'[w] = {} /\ out'[w] = << >> /\ online'[w] = {}
    BY <1>1, <2>1 DEF StreamInv
  <2>5. ASSUME recv'[w].on, ~recv'[w].lagged PROVE Final(Registered', recv'[w].queue) = Registered'
    <3>1. recv'[w].queue = Append(q, e) /\ Final(R, q) = R
      BY <1>4, <1>8, <2>1, <2>2, <2>5 DEF StreamInv
    <3> QED BY <1>8, <1>10, <3>1
  <2>6. ASSUME status'[w] = "streaming", ~recv'[w].lagged, serving'[w]
        PROVE  Final(Final(online'[w], out'[w]) \cup listed'[w], recv'[w].queue) = Registered'
    <3>1. recv[w].on
      BY <1>1, <2>1, <2>6 DEF StreamInv
    <3>2. recv'[w].queue = Append(q, e) /\ Final(X, q) = R
      BY <1>1, <1>4, <1>8, <2>1, <2>2, <2>20, <2>6, <3>1 DEF StreamInv
    <3>3. X = Final(online'[w], out'[w]) \cup listed'[w]
      BY <1>1, <2>20
    <3> QED BY <1>8, <1>11, <3>2, <3>3
  <2> QED BY <2>3, <2>4, <2>5, <2>6 DEF StreamInv
<1>13. ASSUME NEW w \in Clients PROVE ViewInv(w)'
  BY <1>1, <1>13, ViewSame DEF StatusInv
<1> QED BY <1>7, <1>12, <1>13 DEF StatusInv

LEMMA RegisterStep ==
    ASSUME StatusInv, NEW c \in Conns, Register(c)
    PROVE  StatusInv'
<1>1. RegistryType /\ RegistryInv
  BY TypeParts DEF StatusInv
<1>2. PICK p \in Peers : p = PeerOf[c]
  BY Names
<1>3. PICK e \in Events : e = [peer |-> p, online |-> TRUE]
  BY DEF Events
<1>4. /\ latest' = [latest EXCEPT ![p] = c] /\ newest' = [newest EXCEPT ![p] = c]
      /\ recv' = Broadcast(recv, e, StatusCap)
      /\ onclose' = [onclose EXCEPT ![c] = "waiting"] /\ task' = [task EXCEPT ![c] = "serve"]
      /\ task[c] = "register"
      /\ UNCHANGED <<conn, opening, forward, closing, status, listed, clientVars>>
  BY <1>2, <1>3 DEF Register
<1>5. RegistryType'
  BY <1>1, <1>4 DEF RegistryType
<1>6. RegistryInv'
  <2>1. conn[c] # "none"
    BY <1>1, <1>4 DEF RegistryInv
  <2>2. /\ latest'[p] = c /\ newest'[p] = c
        /\ \A o \in Peers \ {p} : latest'[o] = latest[o] /\ newest'[o] = newest[o]
        /\ \A b \in Conns : task'[b] # "off" => task[b] # "off"
        /\ conn' = conn
    BY <1>1, <1>4 DEF RegistryType
  <2>3. \A b \in Conns : task'[b] # "off" => conn'[b] # "none"
    BY <1>1, <2>2 DEF RegistryInv
  <2>4. ASSUME NEW o \in Peers
        PROVE  /\ latest'[o] # None => latest'[o] = newest'[o]
               /\ newest'[o] # None =>
                     /\ conn'[newest'[o]] # "none"
                     /\ latest'[o] = newest'[o] \/ conn'[newest'[o]] = "closed"
    <3>1. CASE o = p
      BY <2>1, <2>2, <3>1
    <3>2. CASE o # p
      BY <1>1, <2>2, <3>2 DEF RegistryInv
    <3> QED BY <3>1, <3>2
  <2> QED BY <2>3, <2>4 DEF RegistryInv
<1>7. Registered' = Update(Registered, e) \cap Agents
  <2>1. c # None /\ e.online = TRUE /\ e.peer = p
    BY <1>3, Names
  <2>2. latest'[p] = c /\ \A o \in Peers \ {p} : latest'[o] = latest[o]
    BY <1>1, <1>4 DEF RegistryType
  <2>3. \A a \in Agents : a \in Registered' <=> a = p \/ a \in Registered
    BY <2>1, <2>2, Names DEF Registered
  <2> QED BY <2>1, <2>3 DEF Registered, Update
<1> QED BY <1>4, <1>5, <1>6, <1>7, RegistryTells

\* A connection takes away no other than itself.
LEMMA OnCloseStep ==
    ASSUME StatusInv, NEW c \in Conns, OnClose(c)
    PROVE  StatusInv'
<1>1. RegistryType /\ RegistryInv
  BY TypeParts DEF StatusInv
<1>2. PICK p \in Peers : p = PeerOf[c]
  BY Names
<1>3. PICK e \in Events : e = [peer |-> p, online |-> FALSE]
  BY DEF Events
<1>4. /\ onclose' = [onclose EXCEPT ![c] = "done"] /\ conn[c] = "closed"
      /\ UNCHANGED <<conn, task, newest, opening, forward, closing, status, listed, clientVars>>
  BY DEF OnClose
<1>5. CASE latest[p] # c
  <2>1. UNCHANGED <<latest, recv>>
    BY <1>2, <1>5 DEF OnClose
  <2>2. RegistryType' /\ RegistryInv'
    BY <1>1, <1>4, <2>1 DEF RegistryType, RegistryInv
  <2> QED BY <1>4, <2>1, <2>2, RegistrySide
<1>6. CASE latest[p] = c
  <2>1. latest' = [latest EXCEPT ![p] = None] /\ recv' = Broadcast(recv, e, StatusCap)
    BY <1>2, <1>3, <1>6 DEF OnClose
  <2>2. RegistryType'
    BY <1>1, <1>4, <2>1 DEF RegistryType
  <2>3. latest'[p] = None /\ \A o \in Peers \ {p} : latest'[o] = latest[o]
    BY <1>1, <2>1 DEF RegistryType
  <2>4. newest[p] = c
    BY <1>1, <1>6, Names DEF RegistryInv
  <2>5. RegistryInv'
    <3>1. ASSUME NEW o \in Peers
          PROVE  /\ latest'[o] # None => latest'[o] = newest'[o]
                 /\ newest'[o] # None =>
                       /\ conn'[newest'[o]] # "none"
                       /\ latest'[o] = newest'[o] \/ conn'[newest'[o]] = "closed"
      <4>1. CASE o = p
        BY <1>4, <2>3, <2>4, <4>1
      <4>2. CASE o # p
        BY <1>1, <1>4, <2>3, <4>2 DEF RegistryInv
      <4> QED BY <4>1, <4>2
    <3> QED BY <1>1, <1>4, <3>1 DEF RegistryInv
  <2>6. Registered' = Update(Registered, e) \cap Agents
    <3>1. e.online = FALSE /\ e.peer = p
      BY <1>3
    <3>2. \A a \in Agents : a \in Registered' <=> a # p /\ a \in Registered
      BY <2>3, Names DEF Registered
    <3> QED BY <3>1, <3>2 DEF Registered, Update
  <2> QED BY <1>4, <2>1, <2>2, <2>5, <2>6, RegistryTells
<1> QED BY <1>5, <1>6

LEMMA EndpointClosesStep ==
    ASSUME StatusInv, EndpointCloses
    PROVE  StatusInv'
<1>1. RegistryType /\ RegistryInv /\ ClientsType
  BY TypeParts DEF StatusInv
<1>2. /\ conn' = [c \in Conns |-> IF conn[c] = "open" THEN "closed" ELSE conn[c]]
      /\ closing' = "closed"
      /\ serving' = [w \in Clients |-> FALSE] /\ out' = [w \in Clients |-> << >>]
      /\ UNCHANGED <<task, onclose, latest, newest, opening, forward, status, listed, recv,
                     online, updates, shown>>
  BY DEF EndpointCloses
<1>3. RegistryType'
  BY <1>1, <1>2 DEF RegistryType
<1>4. RegistryInv'
  <2>1. \A c \in Conns : conn'[c] = conn[c] \/ (conn'[c] = "closed" /\ conn[c] # "none")
    BY <1>1, <1>2
  <2>2. ASSUME NEW p \in Peers, newest[p] # None
        PROVE  /\ conn'[newest[p]] # "none"
               /\ latest[p] = newest[p] \/ conn'[newest[p]] = "closed"
    BY <1>1, <2>1, <2>2 DEF RegistryInv, RegistryType
  <2> QED BY <1>1, <1>2, <2>1, <2>2 DEF RegistryInv
<1>5. ClientsType'
  <2>1. << >> \in Seq(Events) /\ Len(<< >>) <= OutCap
    BY Names
  <2> QED BY <1>1, <1>2, <2>1 DEF ClientsType
<1>6. TypeOK'
  BY <1>3, <1>5 DEF TypeOK, RegistryType, ClientsType
<1>7. Registered' = Registered
  BY <1>2 DEF Registered
<1>8. ASSUME NEW w \in Clients PROVE StreamInv(w)' /\ ViewInv(w)'
  <2>1. StreamInv(w) /\ ViewInv(w) /\ serving'[w] = FALSE /\ out'[w] = << >>
    BY <1>2 DEF StatusInv
  <2>2. StreamInv(w)'
    BY <1>2, <1>7, <2>1 DEF StreamInv
  <2>3. ViewInv(w)'
    BY <1>2, <2>1 DEF ViewInv
  <2> QED BY <2>2, <2>3
<1> QED BY <1>4, <1>6, <1>8 DEF StatusInv

(***************************************************************************)
(* stream_agent_online_status.                                             *)
(***************************************************************************)
LEMMA WatchStep ==
    ASSUME StatusInv, NEW w \in Clients, Watch(w)
    PROVE  StatusInv'
<1>1. ClientsType /\ StreamInv(w) /\ ViewInv(w) /\ status[w] = "off"
  BY TypeParts DEF StatusInv, Watch
<1>2. PICK r : r = [NoReceiver EXCEPT !.on = TRUE]
  OBVIOUS
<1>3. r \in Receivers(StatusCap) /\ r.on /\ r.queue = << >> /\ ~r.lagged
  BY <1>2, Names, NoReceiverType DEF NoReceiver
<1>4. /\ status' = [status EXCEPT ![w] = "subscribed"] /\ recv' = [recv EXCEPT ![w] = r]
      /\ serving' = [serving EXCEPT ![w] = TRUE]
      /\ UNCHANGED registryVars /\ UNCHANGED <<listed, out, online, updates, shown>>
  BY <1>2 DEF Watch
<1>5. ClientsType'
  BY <1>1, <1>3, <1>4 DEF ClientsType
<1>6. status'[w] = "subscribed" /\ recv'[w] = r /\ Registered' = Registered
  BY <1>1, <1>4 DEF ClientsType, registryVars, Registered
<1>7. Final(Registered, << >>) = Registered
  BY FinalEmpty DEF Registered
<1>8. StreamInv(w)'
  BY <1>1, <1>3, <1>4, <1>6, <1>7 DEF StreamInv
<1>9. ViewInv(w)'
  BY <1>1, <1>4, ViewSame
<1>10. \A v \in Clients \ {w} :
          status'[v] = status[v] /\ recv'[v] = recv[v] /\ serving'[v] = serving[v]
  BY <1>1, <1>4 DEF ClientsType
<1> QED BY <1>4, <1>5, <1>8, <1>9, <1>10, ClientSide

\* What was broadcast since the subscription is in the list too.
LEMMA ListStep ==
    ASSUME StatusInv, NEW w \in Clients, List(w)
    PROVE  StatusInv'
<1>1. ClientsType /\ StreamInv(w) /\ ViewInv(w) /\ status[w] = "subscribed"
  BY TypeParts DEF StatusInv, List
<1>2. /\ status' = [status EXCEPT ![w] = "streaming"]
      /\ listed' = [listed EXCEPT ![w] = Registered]
      /\ UNCHANGED registryVars /\ UNCHANGED <<recv, out, serving, online, updates, shown>>
  BY DEF List, clientVars
<1>3. Registered \in SUBSET Agents
  BY DEF Registered
<1>4. ClientsType'
  BY <1>1, <1>2, <1>3 DEF ClientsType
<1>5. status'[w] = "streaming" /\ listed'[w] = Registered /\ Registered' = Registered
  BY <1>1, <1>2 DEF ClientsType, registryVars, Registered
<1>6. Final({}, << >>) = {}
  BY FinalEmpty
<1>7. Final(online'[w], out'[w]) \cup listed'[w] = Registered
  BY <1>1, <1>2, <1>5, <1>6 DEF StreamInv
<1>8. StreamInv(w)'
  BY <1>1, <1>2, <1>5, <1>7 DEF StreamInv
<1>9. ViewInv(w)'
  BY <1>1, <1>2, ViewSame
<1>10. \A v \in Clients \ {w} : status'[v] = status[v] /\ listed'[v] = listed[v]
  BY <1>1, <1>2 DEF ClientsType
<1> QED BY <1>2, <1>4, <1>8, <1>9, <1>10, ClientSide

\* What sender.send does with an event about an agent.
LEMMA SendFacts ==
    ASSUME ClientsType, NEW w \in Clients, NEW e \in Events, Send(w, e), ViewInv(w),
           e.peer \in Agents
    PROVE  /\ out' \in [Clients -> Seq(Events)] /\ \A v \in Clients : Len(out'[v]) <= OutCap
           /\ \A v \in Clients \ {w} : out'[v] = out[v]
           /\ serving[w] => out'[w] = Append(out[w], e)
           /\ ~serving[w] => out'[w] = out[w]
           /\ \A i \in DOMAIN out'[w] : out'[w][i].peer \in Agents
<1>1. out \in [Clients -> Seq(Events)] /\ \A v \in Clients : Len(out[v]) <= OutCap
  BY DEF ClientsType
<1>2. CASE serving[w]
  <2>1. out' = [out EXCEPT ![w] = Append(out[w], e)] /\ Len(out[w]) < OutCap
    BY <1>2 DEF Send
  <2>2. PICK q \in Seq(Events) : q = out[w]
    BY <1>1
  <2>3. /\ Append(q, e) \in Seq(Events) /\ Len(Append(q, e)) = Len(q) + 1
        /\ Len(Append(q, e)) <= OutCap
    BY <2>1, <2>2, Names
  <2>4. \A i \in DOMAIN Append(q, e) : Append(q, e)[i].peer \in Agents
    <3>1. \A i \in DOMAIN q : q[i].peer \in Agents
      BY <2>2 DEF ViewInv
    <3> QED BY <3>1
  <2> QED BY <1>1, <1>2, <2>1, <2>2, <2>3, <2>4
<1>3. CASE ~serving[w]
  <2>1. out' = out
    BY <1>3 DEF Send
  <2> QED BY <1>1, <1>3, <2>1 DEF ViewInv
<1> QED BY <1>2, <1>3

LEMMA SendListedStep ==
    ASSUME StatusInv, NEW w \in Clients, SendListed(w)
    PROVE  StatusInv'
<1>1. ClientsType /\ StreamInv(w) /\ ViewInv(w) /\ status[w] = "streaming"
  BY TypeParts DEF StatusInv, SendListed
<1>2. PICK a \in listed[w] : /\ Send(w, [peer |-> a, online |-> TRUE])
                             /\ listed' = [listed EXCEPT ![w] = listed[w] \ {a}]
  BY DEF SendListed
<1>3. UNCHANGED registryVars /\ UNCHANGED <<status, recv, serving, online, updates, shown>>
  BY DEF SendListed
<1>4. a \in Agents /\ listed[w] \subseteq Agents
  BY <1>1, <1>2 DEF ClientsType
<1>5. PICK e \in Events : e = [peer |-> a, online |-> TRUE]
  BY <1>4, Names DEF Events
<1>6. e.peer = a /\ e.online = TRUE
  BY <1>5
<1>7. /\ out' \in [Clients -> Seq(Events)] /\ \A v \in Clients : Len(out'[v]) <= OutCap
      /\ \A v \in Clients \ {w} : out'[v] = out[v]
      /\ serving[w] => out'[w] = Append(out[w], e)
      /\ \A i \in DOMAIN out'[w] : out'[w][i].peer \in Agents
  BY <1>1, <1>2, <1>4, <1>5, <1>6, SendFacts
<1>8. /\ listed' \in [Clients -> SUBSET Agents] /\ listed'[w] = listed[w] \ {a}
      /\ \A v \in Clients \ {w} : listed'[v] = listed[v]
  BY <1>1, <1>2, <1>4 DEF ClientsType
<1>9. ClientsType'
  BY <1>1, <1>3, <1>7, <1>8 DEF ClientsType
<1>10. Registered' = Registered
  BY <1>3 DEF registryVars, Registered
<1>11. ASSUME serving[w]
       PROVE  Final(online'[w], out'[w]) \cup listed'[w] = Final(online[w], out[w]) \cup listed[w]
  <2>1. PICK q \in Seq(Events) : q = out[w]
    BY <1>1 DEF ClientsType
  <2>2. Final(online[w], Append(q, e)) = Update(Final(online[w], q), e) \cap Agents
    BY FinalAppend
  <2>3. Update(Final(online[w], q), e) \cap Agents = Final(online[w], q) \cup {a}
    BY <1>4, <1>6, FinalAgents DEF Update
  <2>4. online'[w] = online[w] /\ out'[w] = Append(q, e)
    BY <1>3, <1>7, <1>11, <2>1
  <2>5. Final(online'[w], out'[w]) = Final(online[w], out[w]) \cup {a}
    BY <2>1, <2>2, <2>3, <2>4
  <2>6. listed'[w] = listed[w] \ {a} /\ a \in listed[w]
    BY <1>2, <1>8
  <2> QED BY <2>5, <2>6
<1>12. StreamInv(w)'
  BY <1>1, <1>3, <1>10, <1>11 DEF StreamInv
<1>13. ViewInv(w)'
  BY <1>1, <1>3, <1>7 DEF ViewInv
<1> QED BY <1>3, <1>7, <1>8, <1>9, <1>12, <1>13, ClientSide

\* What a queue agreed with, its rest agrees with.
LEMMA FinalRest ==
    ASSUME NEW R \in SUBSET Agents, NEW q \in Seq(Events), q # << >>, Final(R, q) = R
    PROVE  Final(R, Tail(q)) = R
<1>0. Tail(q) \in Seq(Events)
  OBVIOUS
<1>1. PICK t \in Seq(Events) : t = Tail(q)
  BY <1>0
<1>20. PICK U : U = Update(R, Head(q))
  OBVIOUS
<1>2. Final(R, q) = Final(U, t)
  BY <1>1, <1>20, FinalTail
<1>3. ASSUME NEW a \in Agents PROVE a \in Final(R, t) <=> a \in R
  <2>1. CASE About(t, a) = {}
    BY <2>1, FinalOf
  <2>2. CASE About(t, a) # {}
    <3>1. a \in Final(R, t) <=> a \in Final(U, t)
      BY <2>2, FinalOf
    <3> QED BY <1>2, <3>1
  <2> QED BY <2>1, <2>2
<1>4. Final(R, t) \subseteq Agents
  BY FinalAgents
<1> QED BY <1>1, <1>3, <1>4

\* The first event of the broadcast goes to the client's channel.
LEMMA ForwardStatusStep ==
    ASSUME StatusInv, NEW w \in Clients, ForwardStatus(w)
    PROVE  StatusInv'
<1>1. /\ ClientsType /\ StreamInv(w) /\ ViewInv(w) /\ status[w] = "streaming"
      /\ listed[w] = {} /\ ~recv[w].lagged /\ recv[w].queue # << >>
      /\ UNCHANGED registryVars
      /\ UNCHANGED <<status, listed, serving, online, updates, shown>>
  BY TypeParts DEF StatusInv, ForwardStatus
<1>2. PICK r \in Receivers(StatusCap) : r = recv[w]
  BY <1>1 DEF ClientsType
<1>3. /\ r.on \in BOOLEAN /\ r.lagged \in BOOLEAN
      /\ r.queue \in Seq(Events) /\ Len(r.queue) <= StatusCap /\ StatusCap \in Nat
      /\ r = [on |-> r.on, queue |-> r.queue, lagged |-> r.lagged]
  BY ReceiverType, Names
<1>4. PICK q \in Seq(Events) : q = r.queue
  BY <1>3
<1>5. q # << >> /\ Head(q) \in Events /\ Tail(q) \in Seq(Events) /\ Len(Tail(q)) <= StatusCap
  BY <1>1, <1>2, <1>3, <1>4
<1>6. PICK e \in Events, t \in Seq(Events) : e = Head(q) /\ t = Tail(q)
  BY <1>5
<1>7. PICK s : s = [on |-> r.on, queue |-> t, lagged |-> r.lagged]
  OBVIOUS
<1>8. s \in Receivers(StatusCap)
  BY <1>3, <1>5, <1>6, <1>7, ReceiverMade
<1>9. recv' = [recv EXCEPT ![w] = s]
  <2>1. recv' = [recv EXCEPT ![w] = [recv[w] EXCEPT !.queue = Tail(recv[w].queue)]]
    BY DEF ForwardStatus
  <2>2. [r EXCEPT !.queue = t] = s /\ t = Tail(r.queue)
    BY <1>3, <1>4, <1>6, <1>7, ReceiverExcept
  <2> QED BY <1>2, <2>1, <2>2
<1>10. /\ recv' \in [Clients -> Receivers(StatusCap)] /\ recv'[w] = s
       /\ \A v \in Clients \ {w} : recv'[v] = recv[v]
  BY <1>1, <1>8, <1>9 DEF ClientsType
<1>11. \/ e.peer \in Agents /\ Send(w, e)
       \/ e.peer \notin Agents /\ UNCHANGED out
  BY <1>2, <1>4, <1>6 DEF ForwardStatus
<1>12. /\ out' \in [Clients -> Seq(Events)] /\ \A v \in Clients : Len(out'[v]) <= OutCap
       /\ \A v \in Clients \ {w} : out'[v] = out[v]
       /\ \A i \in DOMAIN out'[w] : out'[w][i].peer \in Agents
       /\ serving[w] /\ e.peer \in Agents => out'[w] = Append(out[w], e)
       /\ e.peer \notin Agents => out'[w] = out[w]
  <2>1. CASE e.peer \in Agents /\ Send(w, e)
    BY <1>1, <2>1, SendFacts
  <2>2. CASE e.peer \notin Agents /\ UNCHANGED out
    BY <1>1, <2>2 DEF ClientsType, ViewInv
  <2> QED BY <1>11, <2>1, <2>2
<1>13. ClientsType'
  BY <1>1, <1>10, <1>12 DEF ClientsType
<1>14. PICK R \in SUBSET Agents : R = Registered /\ R = Registered'
  BY <1>1 DEF registryVars, Registered
<1>15. ASSUME recv'[w].on, ~recv'[w].lagged PROVE Final(R, t) = R
  <2>1. Final(R, q) = R
    BY <1>1, <1>2, <1>4, <1>7, <1>10, <1>14, <1>15 DEF StreamInv
  <2> QED BY <1>5, <1>6, <2>1, FinalRest
<1>16. ASSUME serving[w] PROVE Final(Final(online'[w], out'[w]) \cup listed'[w], t) = R
  <2>0. PICK o \in Seq(Events) : o = out[w]
    BY <1>1 DEF ClientsType
  <2>1. PICK N, X : N = online[w] /\ X = Final(N, o)
    OBVIOUS
  <2>2. Final(X \cup {}, q) = R
    BY <1>1, <1>2, <1>4, <1>14, <1>16, <2>0, <2>1 DEF StreamInv
  <2>3. Final(X, q) = Final(Update(X, e), t)
    BY <1>5, <1>6, FinalTail
  <2>4. X \cup {} = X
    OBVIOUS
  <2>5. Final(Update(X, e), t) = R
    BY <2>2, <2>3, <2>4
  <2>6. CASE e.peer \in Agents
    <3>1. Final(N, Append(o, e)) = Update(X, e) \cap Agents
      BY <2>1, FinalAppend
    <3>2. Update(X, e) \cap Agents = Update(X, e)
      BY <2>1, <2>6, FinalAgents DEF Update
    <3>3. Final(online'[w], out'[w]) \cup listed'[w] = Update(X, e)
      BY <1>1, <1>12, <1>16, <2>0, <2>1, <2>6, <3>1, <3>2
    <3> QED BY <2>5, <3>3
  <2>7. CASE e.peer \notin Agents
    <3>1. Final(online'[w], out'[w]) \cup listed'[w] = X
      BY <1>1, <1>12, <2>0, <2>1, <2>7
    <3>2. \A a \in Agents : a \in X <=> a \in Update(X, e)
      BY <2>7 DEF Update
    <3>3. \A a \in Agents : a \in Final(X, t) <=> a \in Final(Update(X, e), t)
      BY <3>2, FinalOfEqual
    <3>4. Final(X, t) \subseteq Agents /\ Final(Update(X, e), t) \subseteq Agents
      BY FinalAgents
    <3>5. Final(X, t) = R
      BY <2>5, <3>3, <3>4
    <3> QED BY <3>1, <3>5
  <2> QED BY <2>6, <2>7
<1>17. StreamInv(w)'
  BY <1>1, <1>2, <1>7, <1>10, <1>14, <1>15, <1>16 DEF StreamInv
<1>18. ViewInv(w)'
  BY <1>1, <1>12 DEF ViewInv
<1> QED BY <1>1, <1>10, <1>12, <1>13, <1>17, <1>18, ClientSide

LEMMA OvertakenStep ==
    ASSUME StatusInv, NEW w \in Clients, Overtaken(w)
    PROVE  StatusInv'
<1>1. ClientsType /\ StreamInv(w) /\ ViewInv(w)
  BY TypeParts DEF StatusInv
<1>2. /\ status' = [status EXCEPT ![w] = "ended"] /\ recv' = [recv EXCEPT ![w] = NoReceiver]
      /\ UNCHANGED registryVars
      /\ UNCHANGED <<listed, out, serving, online, updates, shown>>
  BY DEF Overtaken, clientVars
<1>3. NoReceiver \in Receivers(StatusCap) /\ NoReceiver.on = FALSE
  BY Names, NoReceiverType DEF NoReceiver
<1>4. ClientsType'
  BY <1>1, <1>2, <1>3 DEF ClientsType
<1>5. /\ status'[w] = "ended" /\ recv'[w] = NoReceiver
      /\ \A v \in Clients \ {w} : status'[v] = status[v] /\ recv'[v] = recv[v]
  BY <1>1, <1>2 DEF ClientsType
<1>6. StreamInv(w)'
  BY <1>3, <1>5 DEF StreamInv
<1>7. ViewInv(w)'
  BY <1>1, <1>2, ViewSame
<1> QED BY <1>2, <1>4, <1>5, <1>6, <1>7, ClientSide

\* The first event of a queue and the others.
LEMMA TailsPeers ==
    ASSUME NEW q \in Seq(Events), q # << >>, \A i \in DOMAIN q : q[i].peer \in Agents
    PROVE  /\ Head(q) \in Events /\ Tail(q) \in Seq(Events)
           /\ Len(q) \in Nat /\ Len(Tail(q)) \in Nat /\ Len(Tail(q)) <= Len(q)
           /\ Head(q).peer \in Agents
           /\ \A i \in DOMAIN Tail(q) : Tail(q)[i].peer \in Agents
<1>1. /\ Head(q) \in Events /\ Tail(q) \in Seq(Events) /\ Len(q) \in Nat /\ Len(q) >= 1
      /\ Len(Tail(q)) = Len(q) - 1 /\ Head(q) = q[1]
      /\ \A i \in 1 .. Len(q) - 1 : Tail(q)[i] = q[i + 1]
  OBVIOUS
<1>2. DOMAIN q = 1 .. Len(q) /\ DOMAIN Tail(q) = 1 .. Len(q) - 1
  BY <1>1
<1>3. \A i \in 1 .. Len(q) - 1 : i + 1 \in 1 .. Len(q)
  BY <1>1
<1>4. 1 \in 1 .. Len(q)
  BY <1>1
<1> QED BY <1>1, <1>2, <1>3, <1>4

(***************************************************************************)
(* The client.                                                             *)
(***************************************************************************)

\* An event leaves the client's channel for its state and for its main view.
LEMMA HandleStep ==
    ASSUME StatusInv, NEW w \in Clients, Handle(w)
    PROVE  StatusInv'
<1>1. /\ ClientsType /\ StreamInv(w) /\ ViewInv(w) /\ serving[w] /\ out[w] # << >>
      /\ UNCHANGED registryVars /\ UNCHANGED <<status, listed, recv, serving, shown>>
  BY TypeParts DEF StatusInv, Handle
<1>2. PICK q \in Seq(Events) : q = out[w]
  BY <1>1 DEF ClientsType
<1>3. /\ q # << >> /\ Head(q) \in Events /\ Tail(q) \in Seq(Events)
      /\ Len(Tail(q)) <= Len(q) /\ Len(q) <= OutCap /\ OutCap \in Nat
      /\ Head(q).peer \in Agents
      /\ \A i \in DOMAIN Tail(q) : Tail(q)[i].peer \in Agents
  <2>1. q # << >> /\ Len(q) <= OutCap /\ OutCap \in Nat
    BY <1>1, <1>2, Names DEF ClientsType
  <2>2. \A i \in DOMAIN q : q[i].peer \in Agents
    BY <1>1, <1>2 DEF ViewInv
  <2> QED BY <2>1, <2>2, TailsPeers
<1>4. PICK e \in Events, t \in Seq(Events) : e = Head(q) /\ t = Tail(q)
  BY <1>3
<1>5. PICK r \in Receivers(UpdateCap) : r = updates[w]
  BY <1>1 DEF ClientsType
<1>6. PICK s : s = Told(r, e, UpdateCap)
  OBVIOUS
<1>7. /\ s \in Receivers(UpdateCap) /\ s.on = r.on /\ (~r.on => s = r)
      /\ r.on /\ ~s.lagged => ~r.lagged /\ s.queue = Append(r.queue, e)
      /\ \A i \in DOMAIN s.queue :
            s.queue[i] = e \/ \E j \in DOMAIN r.queue : s.queue[i] = r.queue[j]
  BY <1>6, Names, ToldFacts
<1>8. /\ out' = [out EXCEPT ![w] = t]
      /\ updates' = [updates EXCEPT ![w] = s]
      /\ online' = [online EXCEPT ![w] = Update(online[w], e)]
  <2>1. Broadcast(updates, e, UpdateCap)[w] = s
    BY <1>5, <1>6, BroadcastIsTold
  <2>2. /\ out' = [out EXCEPT ![w] = Tail(out[w])]
        /\ updates' = [updates EXCEPT ![w] = Broadcast(updates, Head(out[w]), UpdateCap)[w]]
        /\ online' = [online EXCEPT ![w] = Update(online[w], Head(out[w]))]
    BY DEF Handle
  <2> QED BY <1>2, <1>4, <2>1, <2>2
<1>9. e.peer \in Agents /\ \A i \in DOMAIN t : t[i].peer \in Agents
  BY <1>3, <1>4
<1>10. PICK N \in SUBSET Agents, M \in SUBSET Agents : N = online[w] /\ M = Update(N, e)
  <2>1. online[w] \in SUBSET Agents /\ Update(online[w], e) \in SUBSET Agents
    BY <1>1, <1>9 DEF ClientsType, Update
  <2> QED BY <2>1
<1>11. /\ out' \in [Clients -> Seq(Events)] /\ out'[w] = t
       /\ updates' \in [Clients -> Receivers(UpdateCap)] /\ updates'[w] = s
       /\ online' \in [Clients -> SUBSET Agents] /\ online'[w] = M
       /\ \A v \in Clients \ {w} :
             out'[v] = out[v] /\ updates'[v] = updates[v] /\ online'[v] = online[v]
  BY <1>1, <1>7, <1>8, <1>10 DEF ClientsType
<1>12. Len(t) <= OutCap
  BY <1>3, <1>4
<1>13. ClientsType'
  BY <1>1, <1>11, <1>12 DEF ClientsType
<1>14. Registered' = Registered
  BY <1>1 DEF registryVars, Registered
<1>15. Final(N, q) = Final(M, t)
  BY <1>3, <1>4, <1>10, FinalTail
<1>16. status[w] \notin {"off", "subscribed"}
  BY <1>1 DEF StreamInv
<1>17. StreamInv(w)'
  BY <1>1, <1>2, <1>10, <1>11, <1>14, <1>15, <1>16 DEF StreamInv
<1>18. ViewInv(w)'
  <2>1. \A i \in DOMAIN s.queue : s.queue[i].peer \in Agents
    BY <1>1, <1>5, <1>7, <1>9 DEF ViewInv
  <2>2. ~s.on => s.queue = << >>
    BY <1>1, <1>5, <1>7 DEF ViewInv
  <2>3. ASSUME s.on, ~s.lagged PROVE Final(shown[w], s.queue) = M
    <3>1. Final(shown[w], r.queue) = N
      BY <1>1, <1>5, <1>7, <1>10, <2>3 DEF ViewInv
    <3>2. PICK u \in Seq(Events) : u = r.queue
      BY Names, ReceiverType
    <3>3. Final(shown[w], Append(u, e)) = Update(Final(shown[w], u), e) \cap Agents
      BY FinalAppend
    <3> QED BY <1>7, <1>10, <2>3, <3>1, <3>2, <3>3
  <2> QED BY <1>1, <1>9, <1>11, <2>1, <2>2, <2>3 DEF ViewInv
<1> QED BY <1>1, <1>11, <1>13, <1>17, <1>18, ClientSide

LEMMA SubscribeStep ==
    ASSUME StatusInv, NEW w \in Clients, Subscribe(w)
    PROVE  StatusInv'
<1>1. /\ ClientsType /\ StreamInv(w) /\ ViewInv(w) /\ ~updates[w].on
      /\ UNCHANGED registryVars
      /\ UNCHANGED <<status, listed, recv, out, serving, online>>
  BY TypeParts DEF StatusInv, Subscribe
<1>2. PICK r \in Receivers(UpdateCap), N \in SUBSET Agents : r = updates[w] /\ N = online[w]
  BY <1>1 DEF ClientsType
<1>3. /\ r.on \in BOOLEAN /\ r.lagged \in BOOLEAN /\ UpdateCap \in Nat
      /\ r.queue \in Seq(Events) /\ Len(r.queue) <= UpdateCap
      /\ r = [on |-> r.on, queue |-> r.queue, lagged |-> r.lagged]
  BY ReceiverType, Names
<1>4. PICK s : s = [on |-> TRUE, queue |-> r.queue, lagged |-> r.lagged]
  OBVIOUS
<1>5. s \in Receivers(UpdateCap)
  BY <1>3, <1>4, ReceiverMade
<1>6. updates' = [updates EXCEPT ![w] = s] /\ shown' = [shown EXCEPT ![w] = N]
  <2>1. /\ updates' = [updates EXCEPT ![w] = [updates[w] EXCEPT !.on = TRUE]]
        /\ shown' = [shown EXCEPT ![w] = online[w]]
    BY DEF Subscribe
  <2>2. [r EXCEPT !.on = TRUE] = s
    BY <1>3, <1>4, ReceiverExcept
  <2> QED BY <1>2, <2>1, <2>2
<1>7. /\ updates' \in [Clients -> Receivers(UpdateCap)] /\ updates'[w] = s
      /\ shown' \in [Clients -> SUBSET Agents] /\ shown'[w] = N
      /\ \A v \in Clients \ {w} : updates'[v] = updates[v] /\ shown'[v] = shown[v]
  BY <1>1, <1>2, <1>5, <1>6 DEF ClientsType
<1>8. ClientsType'
  BY <1>1, <1>7 DEF ClientsType
<1>9. StreamInv(w)'
  BY <1>1, StreamSame DEF registryVars
<1>10. s.queue = << >> /\ s.on
  BY <1>1, <1>2, <1>4 DEF ViewInv
<1>11. Final(N, << >>) = N
  BY FinalEmpty
<1>12. ViewInv(w)'
  BY <1>1, <1>2, <1>7, <1>10, <1>11 DEF ViewInv
<1> QED BY <1>1, <1>7, <1>8, <1>9, <1>12, ClientSide

LEMMA UpdateViewStep ==
    ASSUME StatusInv, NEW w \in Clients, UpdateView(w)
    PROVE  StatusInv'
<1>1. /\ ClientsType /\ StreamInv(w) /\ ViewInv(w)
      /\ updates[w].on /\ ~updates[w].lagged /\ updates[w].queue # << >>
      /\ UNCHANGED registryVars
      /\ UNCHANGED <<status, listed, recv, out, serving, online>>
  BY TypeParts DEF StatusInv, UpdateView
<1>2. PICK r \in Receivers(UpdateCap) : r = updates[w]
  BY <1>1 DEF ClientsType
<1>3. /\ r.on \in BOOLEAN /\ r.lagged \in BOOLEAN /\ UpdateCap \in Nat
      /\ r.queue \in Seq(Events) /\ Len(r.queue) <= UpdateCap
      /\ r = [on |-> r.on, queue |-> r.queue, lagged |-> r.lagged]
  BY ReceiverType, Names
<1>4. PICK q \in Seq(Events) : q = r.queue
  BY <1>3
<1>5. /\ q # << >> /\ Head(q) \in Events /\ Tail(q) \in Seq(Events)
      /\ Len(Tail(q)) <= UpdateCap /\ Head(q).peer \in Agents
      /\ \A i \in DOMAIN Tail(q) : Tail(q)[i].peer \in Agents
  <2>1. q # << >> /\ Len(q) <= UpdateCap /\ UpdateCap \in Nat
    BY <1>1, <1>2, <1>3, <1>4
  <2>2. \A i \in DOMAIN q : q[i].peer \in Agents
    BY <1>1, <1>2, <1>4 DEF ViewInv
  <2>3. /\ Head(q) \in Events /\ Tail(q) \in Seq(Events) /\ Len(Tail(q)) <= Len(q)
        /\ Len(q) \in Nat /\ Len(Tail(q)) \in Nat
        /\ Head(q).peer \in Agents /\ \A i \in DOMAIN Tail(q) : Tail(q)[i].peer \in Agents
    BY <2>1, <2>2, TailsPeers
  <2> QED BY <2>1, <2>3
<1>6. PICK e \in Events, t \in Seq(Events) : e = Head(q) /\ t = Tail(q)
  BY <1>5
<1>7. PICK s : s = [on |-> r.on, queue |-> t, lagged |-> r.lagged]
  OBVIOUS
<1>8. s \in Receivers(UpdateCap)
  BY <1>3, <1>5, <1>6, <1>7, ReceiverMade
<1>9. PICK V \in SUBSET Agents, W \in SUBSET Agents : V = shown[w] /\ W = Update(V, e)
  <2>1. shown[w] \in SUBSET Agents /\ Update(shown[w], e) \in SUBSET Agents
    BY <1>1, <1>5, <1>6 DEF ClientsType, Update
  <2> QED BY <2>1
<1>10. updates' = [updates EXCEPT ![w] = s] /\ shown' = [shown EXCEPT ![w] = W]
  <2>1. /\ updates' = [updates EXCEPT ![w] = [updates[w] EXCEPT !.queue = Tail(updates[w].queue)]]
        /\ shown' = [shown EXCEPT ![w] = Update(shown[w], Head(updates[w].queue))]
    BY DEF UpdateView
  <2>2. [r EXCEPT !.queue = t] = s /\ t = Tail(r.queue)
    BY <1>3, <1>4, <1>6, <1>7, ReceiverExcept
  <2> QED BY <1>2, <1>4, <1>6, <1>9, <2>1, <2>2
<1>11. /\ updates' \in [Clients -> Receivers(UpdateCap)] /\ updates'[w] = s
       /\ shown' \in [Clients -> SUBSET Agents] /\ shown'[w] = W
       /\ \A v \in Clients \ {w} : updates'[v] = updates[v] /\ shown'[v] = shown[v]
  BY <1>1, <1>8, <1>9, <1>10 DEF ClientsType
<1>12. ClientsType'
  BY <1>1, <1>11 DEF ClientsType
<1>13. StreamInv(w)'
  BY <1>1, StreamSame DEF registryVars
<1>14. Final(V, q) = Final(W, t)
  BY <1>5, <1>6, <1>9, FinalTail
<1>15. s.queue = t /\ s.on = r.on /\ s.lagged = r.lagged
  BY <1>7
<1>16. Final(W, t) = online[w]
  BY <1>1, <1>2, <1>4, <1>9, <1>14 DEF ViewInv
<1>17. ViewInv(w)'
  BY <1>1, <1>2, <1>5, <1>6, <1>11, <1>15, <1>16 DEF ViewInv
<1> QED BY <1>1, <1>11, <1>12, <1>13, <1>17, ClientSide

LEMMA ViewOvertakenStep ==
    ASSUME StatusInv, NEW w \in Clients, ViewOvertaken(w)
    PROVE  StatusInv'
<1>1. /\ ClientsType /\ StreamInv(w) /\ ViewInv(w) /\ UNCHANGED registryVars
      /\ UNCHANGED <<status, listed, recv, out, serving, online, shown>>
  BY TypeParts DEF StatusInv, ViewOvertaken
<1>2. PICK s : s = [NoReceiver EXCEPT !.lagged = TRUE]
  OBVIOUS
<1>3. s \in Receivers(UpdateCap) /\ s.on = FALSE /\ s.queue = << >>
  BY <1>2, Names, NoReceiverType DEF NoReceiver
<1>4. updates' = [updates EXCEPT ![w] = s]
  BY <1>2 DEF ViewOvertaken
<1>5. /\ updates' \in [Clients -> Receivers(UpdateCap)] /\ updates'[w] = s
      /\ \A v \in Clients \ {w} : updates'[v] = updates[v]
  BY <1>1, <1>3, <1>4 DEF ClientsType
<1>6. ClientsType'
  BY <1>1, <1>5 DEF ClientsType
<1>7. StreamInv(w)'
  BY <1>1, StreamSame DEF registryVars
<1>8. ViewInv(w)'
  BY <1>1, <1>3, <1>5 DEF ViewInv
<1> QED BY <1>1, <1>5, <1>6, <1>7, <1>8, ClientSide

LEMMA LostStep ==
    ASSUME StatusInv, NEW w \in Clients, Lost(w)
    PROVE  StatusInv'
<1>1. /\ ClientsType /\ StreamInv(w) /\ ViewInv(w) /\ UNCHANGED registryVars
      /\ serving' = [serving EXCEPT ![w] = FALSE] /\ out' = [out EXCEPT ![w] = << >>]
      /\ UNCHANGED <<status, listed, recv, online, updates, shown>>
  BY TypeParts DEF StatusInv, Lost
<1>2. << >> \in Seq(Events) /\ Len(<< >>) <= OutCap
  BY Names
<1>3. /\ out' \in [Clients -> Seq(Events)] /\ out'[w] = << >>
      /\ serving' \in [Clients -> BOOLEAN] /\ serving'[w] = FALSE
      /\ \A v \in Clients \ {w} : out'[v] = out[v] /\ serving'[v] = serving[v]
  BY <1>1, <1>2 DEF ClientsType
<1>4. ClientsType'
  BY <1>1, <1>2, <1>3 DEF ClientsType
<1>5. Registered' = Registered
  BY <1>1 DEF registryVars, Registered
<1>6. StreamInv(w)'
  BY <1>1, <1>3, <1>5 DEF StreamInv
<1>7. ViewInv(w)'
  BY <1>1, <1>3 DEF ViewInv
<1> QED BY <1>1, <1>3, <1>4, <1>6, <1>7, ClientSide

(***************************************************************************)
(* The theorems.                                                           *)
(***************************************************************************)
LEMMA StatusInit == Init => StatusInv
<1> SUFFICES ASSUME Init PROVE StatusInv
  OBVIOUS
<1>1. NoReceiver \in Receivers(StatusCap) /\ NoReceiver \in Receivers(UpdateCap)
  BY Names, NoReceiverType
<1>2. << >> \in Seq(Events) /\ Len(<< >>) <= OutCap
  BY Names
<1>3. RegistryType
  BY DEF Init, RegistryType
<1>4. ClientsType
  BY <1>1, <1>2 DEF Init, ClientsType
<1>5. RegistryInv
  BY DEF Init, RegistryInv
<1>6. NoReceiver.on = FALSE /\ NoReceiver.queue = << >>
  BY DEF NoReceiver
<1>7. ASSUME NEW w \in Clients PROVE StreamInv(w) /\ ViewInv(w)
  BY <1>6 DEF Init, StreamInv, ViewInv
<1> QED BY <1>3, <1>4, <1>5, <1>7, TypeParts DEF StatusInv

LEMMA StatusStutter ==
    ASSUME StatusInv, UNCHANGED vars
    PROVE  StatusInv'
<1>1. /\ UNCHANGED <<latest, status, listed, recv, clientVars>>
      /\ UNCHANGED <<conn, task, onclose, newest, opening, forward, closing>>
  BY DEF vars, clientVars
<1>2. RegistryType' /\ RegistryInv'
  BY <1>1, TypeParts DEF StatusInv, RegistryType, RegistryInv
<1> QED BY <1>1, <1>2, RegistrySide

LEMMA StatusNext ==
    ASSUME StatusInv, [Next]_vars
    PROVE  StatusInv'
<1>1. ASSUME NEW c \in Conns, Arrive(c) \/ Disconnect(c) \/ ServeCancelled(c) \/ ConnStep(c)
      PROVE  StatusInv'
  BY <1>1, ConnStepQuiet, RegisterStep, OnCloseStep DEF ConnStep
<1>2. ASSUME NEW f \in Forwards, (\E p \in Peers : Forward(f, p)) \/ ForwardStep(f)
      PROVE  StatusInv'
  BY <1>2, ForwardSteps DEF ForwardStep
<1>3. CASE CloseBegins \/ EndpointCloses
  BY <1>3, CloseBeginsStep, EndpointClosesStep
<1>4. ASSUME NEW w \in Clients, Watch(w) \/ Subscribe(w) \/ Lost(w)
      PROVE  StatusInv'
  BY <1>4, WatchStep, SubscribeStep, LostStep
<1>5. ASSUME NEW w \in Clients, StatusStep(w)
      PROVE  StatusInv'
  BY <1>5, ListStep, SendListedStep, ForwardStatusStep, OvertakenStep DEF StatusStep
<1>6. ASSUME NEW w \in Clients, ClientStep(w)
      PROVE  StatusInv'
  BY <1>6, HandleStep, UpdateViewStep, ViewOvertakenStep DEF ClientStep
<1> QED BY <1>1, <1>2, <1>3, <1>4, <1>5, <1>6, StatusStutter DEF Next

\* StatusInv is an invariant: every step of the server, of the tasks that stream
\* and of the clients keeps it.
THEOREM StatusInvariant == Spec => []StatusInv
<1>1. StatusInv /\ [Next]_vars => StatusInv'
  BY StatusNext
<1> QED BY <1>1, StatusInit, PTL DEF Spec

\* Every variable keeps its type; no receiver of a broadcast and no client's
\* channel ever holds more than its capacity.
THEOREM StatusTypeCorrect == Spec => []TypeOK
<1>1. StatusInv => TypeOK
  BY DEF StatusInv
<1> QED BY <1>1, StatusInvariant, PTL

\* The end of a connection never takes away a later one of the same peer, in
\* whatever order connections are registered and update_connection_data_on_close
\* notices their ends.
THEOREM LatestIsAlwaysNewest == Spec => []LatestIsNewest
<1>1. ASSUME StatusInv PROVE LatestIsNewest
  BY <1>1 DEF StatusInv, RegistryInv, LatestIsNewest
<1> QED BY <1>1, StatusInvariant, PTL

\* What a main view shows, changed by what is still on its way to it through the
\* four queues, is what the server holds: nothing is lost between the subscription
\* and the list, nor reordered on the way, whatever the capacities.
THEOREM DisplayAlwaysAgrees == Spec => []DisplayAgrees
<1>1. ASSUME StatusInv, NEW w \in Clients,
             status[w] = "streaming", ~recv[w].lagged, serving[w],
             updates[w].on, ~updates[w].lagged
      PROVE  Final(Final(shown[w], updates[w].queue \o out[w]) \cup listed[w], recv[w].queue)
                 = Registered
  <2>1. ClientsType /\ StreamInv(w) /\ ViewInv(w)
    BY <1>1, TypeParts DEF StatusInv
  <2>2. PICK r \in Receivers(UpdateCap), o \in Seq(Events) : r = updates[w] /\ o = out[w]
    BY <2>1 DEF ClientsType
  <2>3. PICK q \in Seq(Events) : q = r.queue
    BY Names, ReceiverType
  <2>20. PICK V : V = shown[w]
    OBVIOUS
  <2>4. Final(V, q \o o) = Final(Final(V, q), o)
    BY FinalConcat
  <2>5. Final(V, q) = online[w]
    BY <1>1, <2>1, <2>2, <2>3, <2>20 DEF ViewInv
  <2>6. Final(Final(online[w], o) \cup listed[w], recv[w].queue) = Registered
    BY <1>1, <2>1, <2>2 DEF StreamInv
  <2> QED BY <2>2, <2>3, <2>20, <2>4, <2>5, <2>6
<1>2. ASSUME StatusInv PROVE DisplayAgrees
  BY <1>1, <1>2 DEF DisplayAgrees
<1> QED BY <1>2, StatusInvariant, PTL

===============================================================================

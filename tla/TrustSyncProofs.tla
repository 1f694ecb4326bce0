--------------------------- MODULE TrustSyncProofs ---------------------------
(***************************************************************************)
(* Theorems about TrustSync, for every set of clients and agents, every    *)
(* capacity and every number of stops and restarts: type correctness, the  *)
(* safety of the server's side, and that of the nodes: whatever is sent to *)
(* them, lost, stored, applied or loaded again, they only ever hold        *)
(* beginnings of the one history of the server's table.                    *)
(*                                                                         *)
(* The invariant is built in layers, each inductive given the ones before: *)
(*   TypeInv    types, and tables that have a newest row;                  *)
(*   ServerInv  what remains true of a handler's stale check;              *)
(*   LogInv     the table is one history without repetitions or gaps;      *)
(*   FeedInv    whatever is on its way to a node is a row of the table;    *)
(*   LifeInv    how a node's life cycle fits its session and its add;      *)
(*   BlockInv   the block of an add, at the client and at the server;      *)
(*   RowsInv    a node's table is the table of the server up to a row;     *)
(*   ChainInv   chain, file and table of a node fit together.              *)
(***************************************************************************)
EXTENDS TrustSync, FiniteSetTheorems, SequenceTheorems, TLAPS

\* A table is a finite set of blocks with a newest one.
IsTable(table) ==
    /\ table \subseteq Block
    /\ IsFiniteSet(table)
    /\ table # {} => \E b \in table : \A d \in table : Sequence(d) <= Sequence(b)

\* TypeOK with what its induction needs: the tables have a newest row, and a
\* block that is under way adds a certificate.
TypeInv ==
    /\ TypeOK
    /\ IsTable(db)
    /\ \A n \in Nodes : IsTable(rows[n])
    /\ \A c \in Clients : handler[c].stage # "idle" => handler[c].block # NoBlock
    /\ \A n \in Nodes : pend[n].stage # "idle" => pend[n].block # NoBlock
    /\ \A c \in Clients : add[c].stage \in {"sent", "confirmed", "stored"} =>
                              add[c].block # NoBlock

LEMMA MembersFacts ==
    /\ Server \in Members /\ Server \in Certs
    /\ Nodes \subseteq Members /\ Clients \subseteq Nodes /\ Agents \subseteq Nodes
    /\ Agents \subseteq Certs /\ Server \notin Nodes
    /\ Genesis \in Block /\ NoBlock \in Block /\ Genesis # NoBlock
BY ConstantsAssumption DEF Members, Nodes, Certs, Genesis, NoBlock, Block

LEMMA BlockFacts ==
    ASSUME NEW b \in Block
    PROVE  /\ Sequence(b) \in Nat
           /\ ResultingState(b) \in SUBSET Certs
           /\ b # NoBlock => Transaction(b) \in Certs
           /\ Import(b) \in ChainType
           /\ Sequence(b) > 0 => b # NoBlock
  BY DEF Block, Sequence, ResultingState, Transaction, NoBlock, Import, ChainType

LEMMA RowsAfterType ==
    ASSUME NEW table, IsTable(table), NEW after
    PROVE  /\ RowsAfter(table, after) \in Seq(Block)
           /\ RowsAfter(table, after) \in Seq(table)
<1> DEFINE later == {b \in table : Sequence(b) > after}
<1> DEFINE sorted == {s \in [1 .. Cardinality(later) -> later] :
                      \A i, j \in DOMAIN s : i < j => Sequence(s[i]) < Sequence(s[j])}
<1>1. IsFiniteSet(later)
  BY FS_Subset DEF IsTable
<1>2. Cardinality(later) \in Nat
  BY <1>1, FS_CardinalityType
<1>3. \A s \in sorted : s \in Seq(Block) /\ s \in Seq(table)
  <2> SUFFICES ASSUME NEW s \in sorted PROVE s \in Seq(Block) /\ s \in Seq(table)
    OBVIOUS
  <2>1. s \in [1 .. Cardinality(later) -> later]
    OBVIOUS
  <2>2. later \subseteq table /\ table \subseteq Block
    BY DEF IsTable
  <2>3. s \in Seq(later)
    <3> HIDE DEF later, sorted
    <3> QED BY <2>1, <1>2, SeqDef
  <2>4. s \in Seq(table)
    <3> HIDE DEF later, sorted
    <3> QED BY <2>2, <2>3, SeqMonotonic
  <2> QED
    <3> HIDE DEF later, sorted
    <3> QED BY <2>2, <2>4, SeqMonotonic
<1>4. RowsAfter(table, after) = IF sorted = {} THEN << >> ELSE CHOOSE s \in sorted : TRUE
  BY DEF RowsAfter
<1> HIDE DEF sorted
<1>5. CASE sorted = {}
  BY <1>4, <1>5, EmptySeq
<1>6. CASE sorted # {}
  <2>1. (CHOOSE s \in sorted : TRUE) \in sorted
    BY <1>6
  <2> QED BY <1>3, <1>4, <1>6, <2>1
<1> QED BY <1>5, <1>6

LEMMA MaxSequenceType ==
    ASSUME NEW table, IsTable(table)
    PROVE  MaxSequence(table) \in Nat
<1>1. CASE table = {}
  BY <1>1 DEF MaxSequence
<1>2. CASE table # {}
  <2>1. PICK b \in table : \A d \in table : Sequence(d) <= Sequence(b)
    BY <1>2 DEF IsTable
  <2> DEFINE S == {Sequence(d) : d \in table}
  <2>2. S \subseteq Nat
    BY BlockFacts DEF IsTable
  <2>3. \E x \in S : \A y \in S : x >= y
    BY <2>1, <2>2
  <2>4. Max(S) \in S
    BY <2>3 DEF Max
  <2> QED BY <1>2, <2>2, <2>4 DEF MaxSequence
<1> QED BY <1>1, <1>2

LEMMA TableGrows ==
    ASSUME NEW table, IsTable(table), NEW b \in Block
    PROVE  IsTable(table \cup {b})
<1>1. IsFiniteSet(table \cup {b})
  BY FS_AddElement DEF IsTable
<1>2. \E t \in table \cup {b} : \A d \in table \cup {b} : Sequence(d) <= Sequence(t)
  <2>1. \A d \in table \cup {b} : Sequence(d) \in Nat
    BY BlockFacts DEF IsTable
  <2> QED BY <2>1 DEF IsTable
<1> QED BY <1>1, <1>2 DEF IsTable

LEMMA ApplyType ==
    ASSUME NEW ch \in ChainType, NEW b \in Block, b # NoBlock
    PROVE  Apply(ch, b) \in ChainType
BY BlockFacts DEF Apply, StateApply, ChainType

LEMMA ReplayedType ==
    ASSUME NEW table, IsTable(table), NEW snapshot \in Block
    PROVE  Replayed(snapshot, table) \in Block
<1>1. RowsAfter(table, Sequence(snapshot)) \in Seq(Block)
  BY RowsAfterType
<1> QED BY <1>1 DEF Replayed, Last
LEMMA ReceiverQueueType ==
    ASSUME NEW r \in ReceiverType, NEW q \in Seq(Block), Len(q) <= BroadcastCap,
           NEW l \in BOOLEAN
    PROVE  /\ [r EXCEPT !.queue = q] \in ReceiverType
           /\ [r EXCEPT !.queue = q, !.lagged = l] \in ReceiverType
BY DEF ReceiverType

LEMMA ReceiverPhaseType ==
    ASSUME NEW r \in ReceiverType, NEW cur1 \in Seq(Block),
           NEW p \in {"subscribed", "selected", "draining", "digest", "live"}
    PROVE  /\ [r EXCEPT !.phase = p] \in ReceiverType
           /\ [r EXCEPT !.phase = p, !.current = cur1] \in ReceiverType
           /\ [r EXCEPT !.phase = p, !.lagged = FALSE] \in ReceiverType
BY DEF ReceiverType

LEMMA EnqueueType ==
    ASSUME NEW r \in ReceiverType, NEW b \in Block
    PROVE  Enqueue(r, b) \in ReceiverType
<1>1. /\ r.queue \in Seq(Block) /\ Len(r.queue) <= BroadcastCap
      /\ Len(r.queue) \in Nat /\ BroadcastCap \in Nat \ {0}
  BY ConstantsAssumption DEF ReceiverType
<1>2. CASE Len(r.queue) < BroadcastCap
  <2> DEFINE q == Append(r.queue, b)
  <2>1. q \in Seq(Block) /\ Len(q) <= BroadcastCap
    BY <1>1, <1>2
  <2>2. Enqueue(r, b) = [r EXCEPT !.queue = q]
    BY <1>2 DEF Enqueue
  <2> HIDE DEF q
  <2> QED BY <2>1, <2>2, ReceiverQueueType
<1>3. CASE ~(Len(r.queue) < BroadcastCap)
  <2> DEFINE q == Append(Tail(r.queue), b)
  <2>1. r.queue # << >>
    BY <1>1, <1>3
  <2>2. /\ Tail(r.queue) \in Seq(Block) /\ Len(Tail(r.queue)) = Len(r.queue) - 1
    BY <1>1, <2>1
  <2>3. q \in Seq(Block) /\ Len(q) <= BroadcastCap
    BY <1>1, <2>2
  <2>4. Enqueue(r, b) = [r EXCEPT !.queue = q, !.lagged = TRUE]
    BY <1>3 DEF Enqueue
  <2> HIDE DEF q
  <2> QED BY <2>3, <2>4, ReceiverQueueType
<1> QED BY <1>2, <1>3

LEMMA ConstantTypes ==
    /\ NoChain \in ChainType /\ Idle \in HandlerType /\ Idle \in PendType
    /\ NoAdd \in AddType /\ NoReceiver \in ReceiverType
    /\ Idle.stage = "idle" /\ NoAdd.stage = "idle"
BY MembersFacts, ConstantsAssumption
   DEF NoChain, ChainType, Idle, HandlerType, PendType, NoAdd, AddType,
       NoReceiver, ReceiverType

LEMMA InitType == Init => TypeInv
<1> SUFFICES ASSUME Init PROVE TypeInv
  OBVIOUS
<1>1. IsTable({})
  BY FS_EmptySet DEF IsTable
<1>2. MaxSequence({}) = 1
  BY DEF MaxSequence
<1>3. Import(Genesis) \in ChainType
  BY BlockFacts, MembersFacts
<1>4. TypeOK
  BY <1>2, <1>3, ConstantTypes, MembersFacts, ConstantsAssumption
     DEF Init, TypeOK, StatusType
<1> QED BY <1>1, <1>4, ConstantTypes DEF Init, TypeInv

(***************************************************************************)
(* The server takes a block.                                               *)
(***************************************************************************)
LEMMA AnswerType ==
    ASSUME TypeInv, NEW c \in Clients, NEW r \in {"ok", "err"}, Answer(c, r)
    PROVE  reply' \in [Clients -> {"none", "ok", "err"}]
BY DEF TypeInv, TypeOK, Answer

HandlerOK ==
    /\ handler \in [Clients -> HandlerType]
    /\ \A c \in Clients : handler[c].stage # "idle" => handler[c].block # NoBlock

LEMMA HandlerMoves ==
    ASSUME TypeInv, NEW c \in Clients, handler[c].stage # "idle",
           NEW s \in {"checked", "inserted", "published"},
           handler' = [handler EXCEPT ![c].stage = s]
    PROVE  HandlerOK'
<1>1. /\ handler \in [Clients -> HandlerType]
      /\ \A d \in Clients : handler[d].stage # "idle" => handler[d].block # NoBlock
  BY DEF TypeInv, TypeOK
<1>2. handler' \in [Clients -> HandlerType]
  BY <1>1 DEF HandlerType
<1>3. /\ handler'[c].block = handler[c].block
      /\ \A d \in Clients : d # c => handler'[d] = handler[d]
  BY <1>1 DEF HandlerType
<1> QED BY <1>1, <1>2, <1>3 DEF HandlerOK

LEMMA HandlerEnds ==
    ASSUME TypeInv, NEW c \in Clients, handler' = [handler EXCEPT ![c] = Idle]
    PROVE  HandlerOK'
BY ConstantTypes DEF TypeInv, TypeOK, HandlerOK

LEMMA HandlerBlock ==
    ASSUME TypeInv, NEW c \in Clients
    PROVE  /\ handler[c].block \in Block
           /\ handler[c].stage # "idle" => handler[c].block # NoBlock
BY DEF TypeInv, TypeOK, HandlerType

LEMMA HandlerCheckType ==
    ASSUME TypeInv, NEW c \in Clients, HandlerCheck(c)
    PROVE  TypeInv'
<1>1. reply' \in [Clients -> {"none", "ok", "err"}]
  BY AnswerType DEF HandlerCheck, TypeInv, TypeOK
<1>2. HandlerOK'
  BY HandlerMoves, HandlerEnds DEF HandlerCheck
<1> QED
  BY <1>1, <1>2
     DEF HandlerCheck, TypeInv, TypeOK, HandlerOK, feedVars, diskVars, nodeVars

LEMMA HandlerInsertType ==
    ASSUME TypeInv, NEW c \in Clients, HandlerInsert(c)
    PROVE  TypeInv'
<1>1. reply' \in [Clients -> {"none", "ok", "err"}]
  BY AnswerType DEF HandlerInsert, TypeInv, TypeOK
<1>2. HandlerOK'
  BY HandlerMoves, HandlerEnds DEF HandlerInsert
<1>3. IsTable(db')
  <2>1. IsTable(db \cup {handler[c].block})
    BY HandlerBlock, TableGrows DEF TypeInv
  <2> QED BY <2>1 DEF HandlerInsert, TypeInv
<1> QED
  BY <1>1, <1>2, <1>3
     DEF HandlerInsert, TypeInv, TypeOK, HandlerOK, feedVars, diskVars,
         nodeVars, IsTable

LEMMA HandlerPublishType ==
    ASSUME TypeInv, NEW c \in Clients, HandlerPublish(c)
    PROVE  TypeInv'
<1>1. reply' \in [Clients -> {"none", "ok", "err"}]
  BY AnswerType DEF HandlerPublish, TypeInv, TypeOK
<1>2. HandlerOK'
  BY HandlerMoves, HandlerEnds DEF HandlerPublish
<1>3. handler[c].block \in Block /\ curSeq' \in Nat
  BY HandlerBlock, BlockFacts DEF HandlerPublish
<1>4. receiver' \in [Nodes -> ReceiverType]
  BY <1>3, EnqueueType DEF HandlerPublish, TypeInv, TypeOK
<1> QED
  BY <1>1, <1>2, <1>3, <1>4
     DEF HandlerPublish, TypeInv, TypeOK, HandlerOK, diskVars, nodeVars

LEMMA ApplyAtType ==
    ASSUME TypeInv, NEW m \in Members, NEW b \in Block, b # NoBlock,
           chain' = [chain EXCEPT ![m] = Apply(@, b)],
           panicked' = IF ApplyPanics(chain[m], b)
                       THEN panicked \cup {m} ELSE panicked
    PROVE  chain' \in [Members -> ChainType] /\ panicked' \subseteq Members
<1>1. Apply(chain[m], b) \in ChainType
  BY ApplyType DEF TypeInv, TypeOK
<1> QED BY <1>1 DEF TypeInv, TypeOK

LEMMA HandlerApplyType ==
    ASSUME TypeInv, NEW c \in Clients, HandlerApply(c)
    PROVE  TypeInv'
<1>1. reply' \in [Clients -> {"none", "ok", "err"}]
  BY AnswerType DEF HandlerApply, TypeInv, TypeOK
<1>2. HandlerOK'
  BY HandlerEnds DEF HandlerApply
<1>3. chain' \in [Members -> ChainType] /\ panicked' \subseteq Members
  BY HandlerBlock, ApplyAtType, MembersFacts DEF HandlerApply
<1> QED
  BY <1>1, <1>2, <1>3
     DEF HandlerApply, TypeInv, TypeOK, HandlerOK, feedVars, diskVars, nodeVars

(***************************************************************************)
(* The server feeds a node.                                                *)
(***************************************************************************)
LEMMA SendType ==
    ASSUME TypeInv, NEW n \in Nodes, NEW u \in Seq(Message),
           NEW r \in ReceiverType, Send(n, u, r)
    PROVE  /\ receiver' \in [Nodes -> ReceiverType]
           /\ wire' \in [Nodes -> Seq(Message)]
<1>1. CASE session[n] = "off"
  BY <1>1, ConstantTypes DEF Send, TypeInv, TypeOK
<1>2. CASE session[n] # "off"
  <2>1. wire[n] \o u \in Seq(Message)
    BY DEF TypeInv, TypeOK
  <2> QED BY <1>2, <2>1 DEF Send, TypeInv, TypeOK
<1> QED BY <1>1, <1>2

LEMMA ReceiverFacts ==
    ASSUME TypeInv, NEW n \in Nodes
    PROVE  /\ receiver[n] \in ReceiverType
           /\ receiver[n].queue \in Seq(Block) /\ receiver[n].current \in Seq(Block)
           /\ Len(receiver[n].queue) <= BroadcastCap
           /\ receiver[n].after \in Nat
BY DEF TypeInv, TypeOK, ReceiverType

LEMMA UpdateType ==
    /\ \A b \in Block : /\ Update("Transaction", b) \in Message
                        /\ Update("Close", b) \in Message
    /\ \A ch \in ChainType : Update("UpToDate", Digest(ch)) \in Message
BY DEF Update, Message, Digest, ChainType

\* A step that changes only the receivers and the wires.
LEMMA FeedStepType ==
    ASSUME TypeInv,
           receiver' \in [Nodes -> ReceiverType], wire' \in [Nodes -> Seq(Message)],
           UNCHANGED <<chain, panicked, serverVars, diskVars, nodeVars, add,
                       stops, restarts>>
    PROVE  TypeInv'
BY DEF TypeInv, TypeOK, serverVars, diskVars, nodeVars

LEMMA SubscribeType ==
    ASSUME TypeInv, NEW n \in Nodes, Subscribe(n)
    PROVE  TypeInv'
<1> DEFINE r == [receiver[n] EXCEPT !.phase = "subscribed"]
<1>1. r \in ReceiverType
  BY ReceiverFacts, ReceiverPhaseType, EmptySeq
<1>2. receiver' = [receiver EXCEPT ![n] = r]
  BY DEF Subscribe
<1> HIDE DEF r
<1> QED BY <1>1, <1>2, FeedStepType DEF Subscribe, TypeInv, TypeOK

LEMMA SelectType ==
    ASSUME TypeInv, NEW n \in Nodes, Select(n)
    PROVE  TypeInv'
<1> DEFINE selected == RowsAfter(db, receiver[n].after)
           r == [receiver[n] EXCEPT !.phase = "selected", !.current = selected]
<1>1. selected \in Seq(Block)
  BY RowsAfterType DEF TypeInv
<1>2. receiver' = [receiver EXCEPT ![n] = r]
  BY DEF Select
<1>3. r \in ReceiverType
  <2> HIDE DEF selected
  <2> QED BY <1>1, ReceiverFacts, ReceiverPhaseType
<1> HIDE DEF r
<1> QED BY <1>2, <1>3, FeedStepType DEF Select, TypeInv, TypeOK

LEMMA DeliverType ==
    ASSUME TypeInv, NEW n \in Nodes, NEW blocks \in Seq(Block),
           NEW rest \in Seq(Block), Len(rest) <= BroadcastCap,
           Deliver(n, blocks, rest)
    PROVE  /\ receiver' \in [Nodes -> ReceiverType]
           /\ wire' \in [Nodes -> Seq(Message)]
<1> DEFINE updates == [i \in DOMAIN blocks |-> Update("Transaction", blocks[i])]
           r == [phase |-> "draining", after |-> receiver[n].after,
                 current |-> << >>, queue |-> rest, lagged |-> FALSE]
<1>1. updates \in Seq(Message)
  BY UpdateType
<1>2. r \in ReceiverType
  BY ReceiverFacts DEF ReceiverType
<1>3. Send(n, updates, r)
  BY DEF Deliver
<1> HIDE DEF updates, r
<1> QED BY <1>1, <1>2, <1>3, SendType

LEMMA SendCurrentType ==
    ASSUME TypeInv, NEW n \in Nodes, SendCurrent(n)
    PROVE  TypeInv'
<1> DEFINE r     == receiver[n]
           top   == IF r.current = << >> THEN r.after
                                         ELSE Sequence(Last(r.current))
           newer == {i \in DOMAIN r.queue : Sequence(r.queue[i]) > top}
<1>1. ASSUME NEW k \in newer,
             Deliver(n, r.current \o <<r.queue[k]>>,
                     SubSeq(r.queue, k + 1, Len(r.queue)))
      PROVE  /\ receiver' \in [Nodes -> ReceiverType]
             /\ wire' \in [Nodes -> Seq(Message)]
  <2>1. k \in 1 .. Len(r.queue)
    BY ReceiverFacts
  <2>2. r.current \o <<r.queue[k]>> \in Seq(Block)
    BY <2>1, ReceiverFacts
  <2>3. /\ SubSeq(r.queue, k + 1, Len(r.queue)) \in Seq(Block)
        /\ Len(SubSeq(r.queue, k + 1, Len(r.queue))) <= BroadcastCap
    BY <2>1, ReceiverFacts, ConstantsAssumption
  <2> QED BY <1>1, <2>2, <2>3, DeliverType
<1>2. /\ << >> \in Seq(Block) /\ Len(<< >>) <= BroadcastCap
  BY ConstantsAssumption
<1>3. \/ \E k \in newer : Deliver(n, r.current \o <<r.queue[k]>>,
                                  SubSeq(r.queue, k + 1, Len(r.queue)))
      \/ Deliver(n, r.current, << >>)
      \/ Deliver(n, r.current, r.queue)
  BY DEF SendCurrent
<1>4. /\ receiver' \in [Nodes -> ReceiverType]
      /\ wire' \in [Nodes -> Seq(Message)]
  BY <1>1, <1>2, <1>3, DeliverType, ReceiverFacts
<1> QED BY <1>4, FeedStepType DEF SendCurrent

LEMMA ForwardHead ==
    ASSUME TypeInv, NEW n \in Nodes, receiver[n].queue # << >>
    PROVE  /\ <<Update("Transaction", Head(receiver[n].queue))>> \in Seq(Message)
           /\ [receiver[n] EXCEPT !.queue = Tail(@)] \in ReceiverType
<1>1. /\ Head(receiver[n].queue) \in Block /\ Tail(receiver[n].queue) \in Seq(Block)
      /\ Len(Tail(receiver[n].queue)) <= BroadcastCap
  BY ReceiverFacts, ConstantsAssumption
<1>2. Update("Transaction", Head(receiver[n].queue)) \in Message
  BY <1>1, UpdateType
<1>3. [receiver[n] EXCEPT !.queue = Tail(receiver[n].queue)] \in ReceiverType
  BY <1>1, ReceiverFacts, ReceiverQueueType
<1> QED BY <1>2, <1>3

LEMMA DrainType ==
    ASSUME TypeInv, NEW n \in Nodes, Drain(n)
    PROVE  TypeInv'
<1>1. /\ receiver' \in [Nodes -> ReceiverType]
      /\ wire' \in [Nodes -> Seq(Message)]
  <2>1. CASE ~receiver[n].lagged /\ receiver[n].queue # << >>
    BY <2>1, ForwardHead, SendType DEF Drain
  <2>2. CASE receiver[n].lagged \/ receiver[n].queue = << >>
    <3> DEFINE r == [receiver[n] EXCEPT !.phase = "digest", !.lagged = FALSE]
    <3>1. r \in ReceiverType
      BY ReceiverFacts, ReceiverPhaseType, EmptySeq
    <3>2. receiver' = [receiver EXCEPT ![n] = r] /\ UNCHANGED wire
      BY <2>2 DEF Drain
    <3> HIDE DEF r
    <3> QED BY <3>1, <3>2 DEF TypeInv, TypeOK
  <2> QED BY <2>1, <2>2
<1> QED BY <1>1, FeedStepType DEF Drain

LEMMA SendUpToDateType ==
    ASSUME TypeInv, NEW n \in Nodes, SendUpToDate(n)
    PROVE  TypeInv'
<1>1. <<Update("UpToDate", Digest(chain[Server]))>> \in Seq(Message)
  BY UpdateType, MembersFacts DEF TypeInv, TypeOK
<1>2. [receiver[n] EXCEPT !.phase = "live"] \in ReceiverType
  BY ReceiverFacts DEF ReceiverType
<1> QED BY <1>1, <1>2, SendType, FeedStepType DEF SendUpToDate

LEMMA ForwardType ==
    ASSUME TypeInv, NEW n \in Nodes, Forward(n)
    PROVE  TypeInv'
<1>1. <<Update("Close", NoBlock)>> \in Seq(Message)
  BY UpdateType, MembersFacts
<1>2. /\ receiver' \in [Nodes -> ReceiverType]
      /\ wire' \in [Nodes -> Seq(Message)]
  BY <1>1, ForwardHead, SendType, ConstantTypes DEF Forward
<1> QED BY <1>2, FeedStepType DEF Forward

(***************************************************************************)
(* A node starts and follows.                                              *)
(***************************************************************************)
PendOK ==
    /\ pend \in [Nodes -> PendType]
    /\ \A n \in Nodes : pend[n].stage # "idle" => pend[n].block # NoBlock

LEMMA NodeFacts ==
    ASSUME TypeInv, NEW n \in Nodes
    PROVE  /\ chain[n] \in ChainType /\ chain[n].last \in Block
           /\ file[n] \in Block /\ IsTable(rows[n])
           /\ pend[n].block \in Block
           /\ pend[n].stage # "idle" => pend[n].block # NoBlock
BY MembersFacts DEF TypeInv, TypeOK, ChainType, PendType

LEMMA StartType ==
    ASSUME TypeInv, NEW n \in Nodes, Start(n)
    PROVE  TypeInv'
<1> DEFINE last == Replayed(file[n], rows[n])
           r    == [NoReceiver EXCEPT !.phase = "request", !.after = Sequence(last)]
<1>1. last \in Block
  BY NodeFacts, ReplayedType
<1>2. chain' = [chain EXCEPT ![n] = Import(last)]
  BY DEF Start
<1>3. file' = [file EXCEPT ![n] = last]
  BY DEF Start
<1>4. receiver' = [receiver EXCEPT ![n] = r]
  BY DEF Start
<1>5. r \in ReceiverType
  <2>1. \A k \in Nat : [NoReceiver EXCEPT !.phase = "request", !.after = k]
                            \in ReceiverType
    BY ConstantTypes DEF ReceiverType
  <2> HIDE DEF last
  <2> QED BY <1>1, <2>1, BlockFacts
<1>6. Import(last) \in ChainType
  BY <1>1, BlockFacts
<1>7. MaxSequence(rows[n]) \in Nat
  BY NodeFacts, MaxSequenceType
<1> HIDE DEF last, r
<1>8. /\ chain' \in [Members -> ChainType] /\ file' \in [Nodes -> Block]
      /\ receiver' \in [Nodes -> ReceiverType]
  BY <1>1, <1>2, <1>3, <1>4, <1>5, <1>6, MembersFacts DEF TypeInv, TypeOK
<1>9. /\ cur' \in [Nodes -> Nat] /\ wire' \in [Nodes -> Seq(Message)]
      /\ status' \in [Nodes -> StatusType]
      /\ session' \in [Nodes -> {"off", "sync", "live"}]
  BY <1>7 DEF Start, TypeInv, TypeOK, StatusType
<1> QED BY <1>8, <1>9 DEF Start, TypeInv, TypeOK, serverVars

LEMMA EndSessionType ==
    ASSUME TypeInv, NEW n \in Nodes, EndSession(n)
    PROVE  /\ session' \in [Nodes -> {"off", "sync", "live"}]
           /\ wire' \in [Nodes -> Seq(Message)]
           /\ PendOK'
           /\ status' \in [Nodes -> StatusType]
           /\ chain' \in [Members -> ChainType]
           /\ panicked' \subseteq Members
<1>1. PendOK'
  BY ConstantTypes DEF EndSession, PendOK, TypeInv, TypeOK
<1>2. /\ session' \in [Nodes -> {"off", "sync", "live"}]
      /\ wire' \in [Nodes -> Seq(Message)]
  BY DEF EndSession, TypeInv, TypeOK
<1>3. /\ status' \in [Nodes -> StatusType]
      /\ chain' \in [Members -> ChainType] /\ panicked' \subseteq Members
  <2>1. CASE session[n] = "sync"
    BY <2>1, ConstantTypes DEF EndSession, TypeInv, TypeOK, StatusType
  <2>2. CASE session[n] # "sync"
    BY <2>2 DEF EndSession, TypeInv, TypeOK
  <2> QED BY <2>1, <2>2
<1> QED BY <1>1, <1>2, <1>3

\* A step of UpdateTrustStore::dispatch leaves the rest of the state alone.
LEMMA FollowStepType ==
    ASSUME TypeInv,
           session' \in [Nodes -> {"off", "sync", "live"}],
           wire' \in [Nodes -> Seq(Message)],
           PendOK',
           status' \in [Nodes -> StatusType],
           chain' \in [Members -> ChainType],
           panicked' \subseteq Members,
           UNCHANGED <<serverVars, receiver, diskVars, cur, add, stops, restarts>>
    PROVE  TypeInv'
BY DEF TypeInv, TypeOK, PendOK, serverVars, diskVars

LEMMA ReadsFacts ==
    ASSUME TypeInv, NEW n \in Nodes, NEW kind, Reads(n, kind)
    PROVE  /\ wire' = [wire EXCEPT ![n] = Tail(@)] =>
                  wire' \in [Nodes -> Seq(Message)]
           /\ kind = "Transaction" => Head(wire[n]).data \in Block
<1>1. wire[n] \in Seq(Message) /\ wire[n] # << >>
  BY DEF Reads, TypeInv, TypeOK
<1>2. Head(wire[n]) \in Message /\ Tail(wire[n]) \in Seq(Message)
  BY <1>1
<1>3. kind = "Transaction" => Head(wire[n]).data \in Block
  BY <1>2 DEF Reads, Message
<1> QED BY <1>2, <1>3 DEF TypeInv, TypeOK

LEMMA ReadTransactionType ==
    ASSUME TypeInv, NEW n \in Nodes, ReadTransaction(n)
    PROVE  TypeInv'
<1> DEFINE block == Head(wire[n]).data
<1>1. block \in Block /\ (wire' = [wire EXCEPT ![n] = Tail(@)] =>
                              wire' \in [Nodes -> Seq(Message)])
  BY ReadsFacts DEF ReadTransaction
<1>2. CASE n \notin panicked /\ Check(chain[n], block)
  <2>1. block # NoBlock
    BY <1>1, <1>2, BlockFacts, NodeFacts DEF Check
  <2>2. /\ pend' = [pend EXCEPT ![n] = [stage |-> "checked", block |-> block]]
        /\ wire' = [wire EXCEPT ![n] = Tail(@)]
        /\ UNCHANGED <<chain, panicked, status, session>>
    BY <1>2 DEF ReadTransaction
  <2> HIDE DEF block
  <2>3. [stage |-> "checked", block |-> block] \in PendType
    BY <1>1 DEF PendType
  <2>4. PendOK'
    BY <2>1, <2>2, <2>3 DEF PendOK, TypeInv, TypeOK
  <2> QED
    BY <1>1, <2>2, <2>4, FollowStepType DEF ReadTransaction, TypeInv, TypeOK
<1>3. CASE ~(n \notin panicked /\ Check(chain[n], block))
  <2>1. EndSession(n)
    BY <1>3 DEF ReadTransaction
  <2> QED BY <2>1, EndSessionType, FollowStepType DEF ReadTransaction
<1> QED BY <1>2, <1>3

LEMMA TableAddType ==
    ASSUME TypeInv, NEW n \in Nodes, NEW b \in Block, TableAdd(n, b)
    PROVE  /\ rows' \in [Nodes -> SUBSET Block]
           /\ \A m \in Nodes : IsTable(rows'[m])
           /\ cur' \in [Nodes -> Nat]
<1>1. IsTable(rows[n] \cup {b})
  BY NodeFacts, TableGrows
<1>2. rows[n] \cup {b} \in SUBSET Block
  BY <1>1 DEF IsTable
<1>3. Max({cur[n], Sequence(b)}) \in Nat
  <2>1. cur[n] \in Nat /\ Sequence(b) \in Nat
    BY BlockFacts DEF TypeInv, TypeOK
  <2>2. \E x \in {cur[n], Sequence(b)} : \A y \in {cur[n], Sequence(b)} : x >= y
    BY <2>1
  <2> QED BY <2>1, <2>2 DEF Max
<1> QED BY <1>1, <1>2, <1>3 DEF TableAdd, TypeInv, TypeOK

LEMMA StoreBlockType ==
    ASSUME TypeInv, NEW n \in Nodes, StoreBlock(n)
    PROVE  TypeInv'
<1>1. CASE TableAccepts(rows[n], cur[n], pend[n].block)
  <2>1. /\ TableAdd(n, pend[n].block)
        /\ pend[n].stage = "checked"
        /\ pend' = [pend EXCEPT ![n].stage = "stored"]
        /\ UNCHANGED <<chain, panicked, status, session, wire>>
    BY <1>1 DEF StoreBlock
  <2>2. PendOK'
    BY <2>1 DEF PendOK, PendType, TypeInv, TypeOK
  <2>3. /\ rows' \in [Nodes -> SUBSET Block]
        /\ \A m \in Nodes : IsTable(rows'[m])
        /\ cur' \in [Nodes -> Nat]
    BY <2>1, NodeFacts, TableAddType
  <2> QED BY <2>1, <2>2, <2>3 DEF StoreBlock, PendOK, TypeInv, TypeOK, serverVars
<1>2. CASE ~TableAccepts(rows[n], cur[n], pend[n].block)
  <2>1. EndSession(n) /\ UNCHANGED <<rows, cur>>
    BY <1>2 DEF StoreBlock
  <2> QED BY <2>1, EndSessionType, FollowStepType DEF StoreBlock, diskVars
<1> QED BY <1>1, <1>2

LEMMA ApplyBlockType ==
    ASSUME TypeInv, NEW n \in Nodes, ApplyBlock(n)
    PROVE  TypeInv'
<1>1. CASE ApplyAt(n, pend[n].block) /\ pend' = [pend EXCEPT ![n] = Idle]
           /\ \/ UNCHANGED <<status, session, wire>>
              \/ /\ session' = [session EXCEPT ![n] = "off"]
                 /\ wire' = [wire EXCEPT ![n] = << >>]
                 /\ UNCHANGED status
  <2>1. pend[n].block \in Block /\ pend[n].block # NoBlock
    BY NodeFacts DEF ApplyBlock
  <2>2. chain' \in [Members -> ChainType] /\ panicked' \subseteq Members
    BY <1>1, <2>1, ApplyAtType, MembersFacts DEF ApplyAt
  <2>3. PendOK'
    BY <1>1, ConstantTypes DEF PendOK, TypeInv, TypeOK
  <2>4. /\ session' \in [Nodes -> {"off", "sync", "live"}]
        /\ wire' \in [Nodes -> Seq(Message)] /\ status' \in [Nodes -> StatusType]
    <3>1. CASE UNCHANGED <<status, session, wire>>
      BY <3>1 DEF TypeInv, TypeOK
    <3>2. CASE /\ session' = [session EXCEPT ![n] = "off"]
               /\ wire' = [wire EXCEPT ![n] = << >>]
               /\ UNCHANGED status
      BY <3>2 DEF TypeInv, TypeOK
    <3> QED BY <1>1, <3>1, <3>2
  <2> QED BY <2>2, <2>3, <2>4, FollowStepType DEF ApplyBlock
<1>2. CASE EndSession(n)
  BY <1>2, EndSessionType, FollowStepType DEF ApplyBlock
<1> QED BY <1>1, <1>2 DEF ApplyBlock

LEMMA ReadUpToDateType ==
    ASSUME TypeInv, NEW n \in Nodes, ReadUpToDate(n)
    PROVE  TypeInv'
<1>1. CASE EndSession(n)
  BY <1>1, EndSessionType, FollowStepType DEF ReadUpToDate
<1>2. CASE ~EndSession(n)
  <2>1. /\ session' = [session EXCEPT ![n] = "live"]
        /\ status' = [status EXCEPT ![n] = "ready"]
        /\ wire' = [wire EXCEPT ![n] = Tail(@)]
        /\ UNCHANGED <<chain, panicked, pend>>
    BY <1>2 DEF ReadUpToDate
  <2>2. wire' \in [Nodes -> Seq(Message)]
    <3>1. Reads(n, "UpToDate")
      BY DEF ReadUpToDate
    <3> QED BY <2>1, <3>1, ReadsFacts
  <2>3. PendOK'
    BY <2>1 DEF PendOK, TypeInv, TypeOK
  <2>4. /\ session' \in [Nodes -> {"off", "sync", "live"}]
        /\ status' \in [Nodes -> StatusType]
        /\ chain' \in [Members -> ChainType] /\ panicked' \subseteq Members
    BY <2>1 DEF TypeInv, TypeOK, StatusType
  <2> QED BY <2>2, <2>3, <2>4, FollowStepType DEF ReadUpToDate
<1> QED BY <1>1, <1>2

LEMMA ReadCloseType ==
    ASSUME TypeInv, NEW n \in Nodes, ReadClose(n)
    PROVE  TypeInv'
BY EndSessionType, FollowStepType DEF ReadClose

LEMMA SaveType ==
    ASSUME TypeInv, NEW n \in Nodes, Save(n)
    PROVE  TypeInv'
BY NodeFacts DEF Save, TypeInv, TypeOK, serverVars, feedVars, nodeVars

(***************************************************************************)
(* A client adds an agent.                                                 *)
(***************************************************************************)
AddOK ==
    /\ add \in [Clients -> AddType]
    /\ \A c \in Clients : add[c].stage \in {"sent", "confirmed", "stored"} =>
                              add[c].block # NoBlock

LEMMA AddFacts ==
    ASSUME TypeInv, NEW c \in Clients
    PROVE  /\ add[c] \in AddType /\ add[c].block \in Block
           /\ add[c].snapshot \in Block /\ add[c].agent \in Certs
           /\ add[c].stage \in {"sent", "confirmed", "stored"} =>
                  add[c].block # NoBlock
BY DEF TypeInv, TypeOK, AddType

LEMMA AddSends ==
    ASSUME TypeInv, NEW c \in Clients, NEW b \in Block, b # NoBlock,
           add' = [add EXCEPT ![c].stage = "sent", ![c].block = b]
    PROVE  AddOK'
<1> DEFINE x == [add[c] EXCEPT !.stage = "sent", !.block = b]
<1>1. x \in AddType /\ x.block # NoBlock
  BY AddFacts DEF AddType
<1>2. add' = [add EXCEPT ![c] = x]
  OBVIOUS
<1> HIDE DEF x
<1> QED BY <1>1, <1>2 DEF AddOK, TypeInv, TypeOK

LEMMA AddMoves ==
    ASSUME TypeInv, NEW c \in Clients, NEW s \in {"confirmed", "stored"},
           add[c].stage \in {"sent", "confirmed", "stored"},
           add' = [add EXCEPT ![c].stage = s]
    PROVE  AddOK'
BY DEF AddOK, AddType, TypeInv, TypeOK

LEMMA AddEndsType ==
    ASSUME TypeInv, NEW c \in Clients, add' = [add EXCEPT ![c] = NoAdd]
    PROVE  AddOK'
BY ConstantTypes DEF AddOK, TypeInv, TypeOK

LEMMA StatusSet ==
    ASSUME TypeInv, NEW n, NEW s \in StatusType, status' = [status EXCEPT ![n] = s]
    PROVE  status' \in [Nodes -> StatusType]
BY DEF TypeInv, TypeOK

LEMMA AddFailsType ==
    ASSUME TypeInv, NEW c \in Clients, AddFails(c)
    PROVE  AddOK' /\ status' \in [Nodes -> StatusType]
BY AddEndsType, StatusSet DEF AddFails, StatusType

LEMMA EnrollType ==
    ASSUME TypeInv, NEW c \in Clients, NEW a \in Agents, Enroll(c, a)
    PROVE  TypeInv'
<1> DEFINE new == [stage |-> "exported", block |-> NoBlock,
                   agent |-> a, snapshot |-> chain[c].last]
<1>1. new \in AddType /\ new.stage = "exported"
  BY NodeFacts, MembersFacts DEF AddType
<1>2. add' = [add EXCEPT ![c] = new]
  BY DEF Enroll
<1> HIDE DEF new
<1>3. AddOK'
  BY <1>1, <1>2 DEF AddOK, TypeInv, TypeOK
<1>4. status' \in [Nodes -> StatusType]
  BY StatusSet DEF Enroll, StatusType
<1> QED
  BY <1>3, <1>4
     DEF Enroll, AddOK, TypeInv, TypeOK, serverVars, feedVars, diskVars

LEMMA PackageAndSendType ==
    ASSUME TypeInv, NEW c \in Clients, PackageAndSend(c)
    PROVE  TypeInv'
<1> DEFINE block == Package(chain[c], add[c].agent)
<1>1. block \in Block /\ block # NoBlock
  <2>1. chain[c].last \in Seq(Certs) /\ add[c].agent \in Certs
    BY NodeFacts, AddFacts, MembersFacts DEF Block
  <2>2. /\ Append(chain[c].last, add[c].agent) \in Seq(Certs)
        /\ Len(Append(chain[c].last, add[c].agent)) = Len(chain[c].last) + 1
    BY <2>1
  <2>3. Append(chain[c].last, add[c].agent) # << >>
    BY <2>1, <2>2, EmptySeq
  <2> QED BY <2>2, <2>3 DEF Package, Block, NoBlock
<1>2. AddOK' /\ HandlerOK' /\ status' \in [Nodes -> StatusType]
  <2>1. CASE AddFails(c) /\ UNCHANGED handler
    BY <2>1, AddFailsType DEF HandlerOK, TypeInv, TypeOK
  <2>2. CASE ~(AddFails(c) /\ UNCHANGED handler)
    <3>1. /\ add' = [add EXCEPT ![c].stage = "sent", ![c].block = block]
          /\ handler' = [handler EXCEPT ![c] = [stage |-> "received",
                                                block |-> block]]
          /\ UNCHANGED status
      BY <2>2 DEF PackageAndSend
    <3> HIDE DEF block
    <3>2. AddOK'
      BY <1>1, <3>1, AddSends
    <3>3. [stage |-> "received", block |-> block] \in HandlerType
      BY <1>1 DEF HandlerType
    <3>4. HandlerOK'
      BY <1>1, <3>1, <3>3 DEF HandlerOK, TypeInv, TypeOK
    <3> QED BY <3>1, <3>2, <3>4 DEF TypeInv, TypeOK
  <2> QED BY <2>1, <2>2
<1> QED
  BY <1>2 DEF PackageAndSend, AddOK, HandlerOK, TypeInv, TypeOK, feedVars, diskVars

LEMMA AddAnsweredType ==
    ASSUME TypeInv, NEW c \in Clients, AddAnswered(c)
    PROVE  TypeInv'
<1>1. AddOK' /\ status' \in [Nodes -> StatusType]
  <2>1. CASE AddFails(c)
    BY <2>1, AddFailsType
  <2>2. CASE ~AddFails(c)
    BY <2>2, AddMoves, AddFacts DEF AddAnswered, TypeInv, TypeOK
  <2> QED BY <2>1, <2>2
<1>2. reply' \in [Clients -> {"none", "ok", "err"}]
  BY DEF AddAnswered, TypeInv, TypeOK
<1> QED
  BY <1>1, <1>2 DEF AddAnswered, AddOK, TypeInv, TypeOK, feedVars, diskVars

LEMMA AddStoreType ==
    ASSUME TypeInv, NEW c \in Clients, AddStore(c)
    PROVE  TypeInv'
<1>1. c \in Nodes
  BY MembersFacts
<1>2. AddOK' /\ status' \in [Nodes -> StatusType]
  <2>1. CASE AddFails(c)
    BY <2>1, AddFailsType
  <2>2. CASE ~AddFails(c)
    BY <2>2, AddMoves, AddFacts DEF AddStore, TypeInv, TypeOK
  <2> QED BY <2>1, <2>2
<1>3. /\ rows' \in [Nodes -> SUBSET Block]
      /\ \A m \in Nodes : IsTable(rows'[m])
      /\ cur' \in [Nodes -> Nat]
  <2>1. CASE TableAdd(c, add[c].block)
    BY <1>1, <2>1, AddFacts, TableAddType
  <2>2. CASE UNCHANGED <<rows, cur>>
    BY <2>2 DEF TypeInv, TypeOK
  <2> QED BY <2>1, <2>2 DEF AddStore
<1> QED
  BY <1>2, <1>3 DEF AddStore, AddOK, TypeInv, TypeOK, serverVars, feedVars

LEMMA AddApplyType ==
    ASSUME TypeInv, NEW c \in Clients, AddApply(c)
    PROVE  TypeInv'
<1>1. /\ add[c].stage = "stored"
      /\ add[c].block \in Block /\ add[c].block # NoBlock /\ c \in Members
  BY AddFacts, MembersFacts DEF AddApply
<1>2. chain' \in [Members -> ChainType] /\ panicked' \subseteq Members
  <2>1. CASE ApplyAt(c, add[c].block)
    BY <1>1, <2>1, ApplyAtType DEF ApplyAt
  <2>2. CASE UNCHANGED <<chain, panicked>>
    BY <2>2 DEF TypeInv, TypeOK
  <2> QED BY <2>1, <2>2 DEF AddApply
<1>3. AddOK' /\ status' \in [Nodes -> StatusType] /\ file' \in [Nodes -> Block]
  <2>1. CASE AddFails(c) /\ UNCHANGED file
    BY <2>1, AddFailsType DEF TypeInv, TypeOK
  <2>2. CASE ~(AddFails(c) /\ UNCHANGED file)
    <3>1. /\ add' = [add EXCEPT ![c] = NoAdd]
          /\ status' = [status EXCEPT ![add[c].agent] = "down"]
          /\ file' = [file EXCEPT ![add[c].agent] = add[c].snapshot]
      BY <2>2 DEF AddApply
    <3>2. status' \in [Nodes -> StatusType]
      BY <3>1, StatusSet DEF StatusType
    <3>3. file' \in [Nodes -> Block]
      BY <3>1, AddFacts DEF TypeInv, TypeOK
    <3> QED BY <3>1, <3>2, <3>3, AddEndsType
  <2> QED BY <2>1, <2>2
<1> QED
  BY <1>2, <1>3 DEF AddApply, AddOK, TypeInv, TypeOK, serverVars, feedVars

(***************************************************************************)
(* Stops and restarts.                                                     *)
(***************************************************************************)
LEMMA StopType ==
    ASSUME TypeInv, NEW n \in Nodes, Stop(n)
    PROVE  TypeInv'
<1>1. stops' \in 0 .. MaxStops
  BY ConstantsAssumption DEF Stop, TypeInv, TypeOK
<1>2. PendOK'
  BY ConstantTypes DEF Stop, PendOK, TypeInv, TypeOK
<1>3. AddOK' /\ status' \in [Nodes -> StatusType]
      /\ reply' \in [Clients -> {"none", "ok", "err"}]
  <2>1. CASE n \in Clients /\ add[n].stage # "idle"
    <3>1. /\ add' = [add EXCEPT ![n] = NoAdd]
          /\ status' = [status EXCEPT ![n] = "down", ![add[n].agent] = "failed"]
          /\ reply' = [reply EXCEPT ![n] = "none"]
      BY <2>1 DEF Stop
    <3> QED BY <2>1, <3>1, AddEndsType DEF TypeInv, TypeOK, StatusType
  <2>2. CASE ~(n \in Clients /\ add[n].stage # "idle")
    <3>1. status' = [status EXCEPT ![n] = "down"] /\ UNCHANGED <<add, reply>>
      BY <2>2 DEF Stop
    <3> QED BY <3>1 DEF AddOK, TypeInv, TypeOK, StatusType
  <2> QED BY <2>1, <2>2
<1>4. /\ chain' \in [Members -> ChainType] /\ panicked' \subseteq Members
      /\ session' \in [Nodes -> {"off", "sync", "live"}]
      /\ wire' \in [Nodes -> Seq(Message)]
  <2>1. /\ chain' = [chain EXCEPT ![n] = NoChain] /\ panicked' = panicked \ {n}
        /\ session' = [session EXCEPT ![n] = "off"]
        /\ wire' = [wire EXCEPT ![n] = << >>]
    BY DEF Stop
  <2>2. << >> \in Seq(Message)
    OBVIOUS
  <2> QED BY <2>1, <2>2, ConstantTypes DEF TypeInv, TypeOK
<1> QED
  BY <1>1, <1>2, <1>3, <1>4 DEF Stop, PendOK, AddOK, TypeInv, TypeOK, diskVars

LEMMA RestartServerType ==
    ASSUME TypeInv, RestartServer
    PROVE  TypeInv'
<1>1. restarts' \in 0 .. MaxRestarts
  BY ConstantsAssumption DEF RestartServer, TypeInv, TypeOK
<1>2. curSeq' \in Nat
  BY MaxSequenceType DEF RestartServer, TypeInv
<1>3. chain' \in [Members -> ChainType] /\ panicked' \subseteq Members
  <2>1. Import(Genesis) \in ChainType
    BY BlockFacts, MembersFacts
  <2> QED BY <2>1, ConstantTypes DEF RestartServer, TypeInv, TypeOK
<1>4. PendOK'
  BY ConstantTypes DEF RestartServer, PendOK, TypeInv, TypeOK
<1>5. AddOK'
  BY ConstantTypes DEF RestartServer, AddOK, TypeInv, TypeOK
<1>6. status' \in [Nodes -> StatusType]
  BY DEF RestartServer, TypeInv, TypeOK, StatusType
<1>7. HandlerOK' /\ receiver' \in [Nodes -> ReceiverType]
  BY ConstantTypes DEF RestartServer, HandlerOK
<1>8. /\ reply' \in [Clients -> {"none", "ok", "err"}]
      /\ wire' \in [Nodes -> Seq(Message)]
      /\ session' \in [Nodes -> {"off", "sync", "live"}]
  BY DEF RestartServer
<1> QED
  BY <1>1, <1>2, <1>3, <1>4, <1>5, <1>6, <1>7, <1>8
     DEF RestartServer, PendOK, AddOK, HandlerOK, TypeInv, TypeOK, diskVars

-----------------------------------------------------------------------------
LEMMA NextType == TypeInv /\ [Next]_vars => TypeInv'
<1> SUFFICES ASSUME TypeInv, [Next]_vars PROVE TypeInv'
  OBVIOUS
<1>1. ASSUME NEW c \in Clients, ServerStep(c) PROVE TypeInv'
  BY <1>1, HandlerCheckType, HandlerInsertType, HandlerPublishType,
     HandlerApplyType DEF ServerStep
<1>2. ASSUME NEW c \in Clients, AddStep(c) PROVE TypeInv'
  BY <1>2, PackageAndSendType, AddAnsweredType, AddStoreType, AddApplyType
     DEF AddStep
<1>3. ASSUME NEW c \in Clients, NEW a \in Agents, Enroll(c, a) PROVE TypeInv'
  BY <1>3, EnrollType
<1>4. ASSUME NEW n \in Nodes, FeedStep(n) PROVE TypeInv'
  BY <1>4, SubscribeType, SelectType, SendCurrentType, DrainType,
     SendUpToDateType, ForwardType DEF FeedStep
<1>5. ASSUME NEW n \in Nodes, FollowStep(n) PROVE TypeInv'
  BY <1>5, ReadTransactionType, StoreBlockType, ApplyBlockType,
     ReadUpToDateType, ReadCloseType DEF FollowStep
<1>6. ASSUME NEW n \in Nodes, Start(n) \/ Save(n) \/ Stop(n) PROVE TypeInv'
  BY <1>6, StartType, SaveType, StopType
<1>7. CASE UNCHANGED vars
  BY <1>7 DEF vars, serverVars, feedVars, diskVars, nodeVars, TypeInv, TypeOK
<1> QED
  BY <1>1, <1>2, <1>3, <1>4, <1>5, <1>6, <1>7, RestartServerType DEF Next

\* Every state that trust-store replication reaches is well typed, and no
\* broadcast receiver ever holds more than the channel's capacity.
THEOREM TypeCorrect == Spec => []TypeOK
<1>1. TypeInv => TypeOK
  BY DEF TypeInv
<1> QED BY <1>1, InitType, NextType, PTL DEF Spec

-----------------------------------------------------------------------------
(***************************************************************************)
(* Safety of the server's side of TrustSync: its table is one chain, its   *)
(* chain in memory is a row of the table, its apply never panics, and it   *)
(* is at most one block behind.                                            *)
(*                                                                         *)
(* The difficulty is that MessageHandler::handle checks a block under the  *)
(* lock of the trust store, releases it, inserts the block, broadcasts it  *)
(* and only then applies it, while handlers of other clients do the same.  *)
(* The check is stale when the INSERT is tried: another block may have     *)
(* been applied since.  HandlerInv says why this is harmless: whoever      *)
(* applied a block since the check had inserted a row with the sequence of *)
(* the block, so the primary key refuses the INSERT.                       *)
(***************************************************************************)

\* The handlers whose block is in the table but not yet in the chain.
Applying == {c \in Clients : handler[c].stage \in {"inserted", "published"}}

HandlerInv ==
    /\ \A c \in Clients : handler[c].stage = "checked" =>
           \/ Check(chain[Server], handler[c].block)
           \/ HasRow(db, Sequence(handler[c].block))
    /\ \A c \in Applying : /\ handler[c].block \in db
                           /\ Check(chain[Server], handler[c].block)
    /\ \A c, d \in Applying : c = d

\* Before the first restart no row is more than one ahead of the chain.
LagInv ==
    restarts = 0 =>
        \A b \in db : Sequence(b) <= Sequence(chain[Server].last) + 1

ServerInv == TableIsOneChain /\ ServerChainStored /\ HandlerInv /\ LagInv

LEMMA InitServer == Init => ServerInv
<1> SUFFICES ASSUME Init PROVE ServerInv
  OBVIOUS
<1>1. chain[Server] = Import(Genesis) /\ db = {} /\ panicked = {} /\ Applying = {}
  BY MembersFacts DEF Init, Applying, Idle
<1>2. \A c \in Clients : handler[c].stage = "idle"
  BY DEF Init, Idle
<1> QED
  BY <1>1, <1>2
     DEF ServerInv, TableIsOneChain, ServerChainStored, HandlerInv, LagInv, Import

\* A step that changes neither the server's chain nor its table, and moves no
\* handler but to a stage before "checked".
LEMMA ServerFrame ==
    ASSUME ServerInv, chain'[Server] = chain[Server], UNCHANGED <<db, restarts>>,
           Server \in panicked' => Server \in panicked,
           \A c \in Clients : \/ handler'[c] = handler[c]
                              \/ handler'[c].stage \in {"idle", "received"}
    PROVE  ServerInv'
<1>1. TableIsOneChain' /\ ServerChainStored' /\ LagInv'
  BY DEF ServerInv, TableIsOneChain, ServerChainStored, LagInv
<1>2. \A c \in Applying' : c \in Applying /\ handler'[c] = handler[c]
  BY DEF Applying
<1>3. HandlerInv'
  BY <1>2 DEF ServerInv, HandlerInv
<1> QED BY <1>1, <1>3 DEF ServerInv

LEMMA RowFacts ==
    ASSUME TypeInv, ServerInv
    PROVE  /\ \A b \in db : Sequence(b) \in Nat /\ Sequence(b) >= 2
           /\ Sequence(Genesis) = 1
           /\ Sequence(chain[Server].last) \in Nat
           /\ Sequence(chain[Server].last) >= 1
           /\ \A c \in Clients : Sequence(handler[c].block) \in Nat
<1>1. Sequence(Genesis) = 1
  BY DEF Genesis, Sequence
<1>2. \A b \in db : Sequence(b) \in Nat /\ Sequence(b) >= 2
  BY BlockFacts DEF TypeInv, TypeOK, ServerInv, TableIsOneChain
<1> QED BY <1>1, <1>2, HandlerBlock, BlockFacts DEF ServerInv, ServerChainStored

\* trust_store.check: the block is the next one, at this moment.
LEMMA HandlerCheckServer ==
    ASSUME TypeInv, ServerInv, NEW c \in Clients, HandlerCheck(c)
    PROVE  ServerInv'
<1>1. CASE ~Check(chain[Server], handler[c].block)
  <2>1. handler' = [handler EXCEPT ![c] = Idle]
    BY <1>1 DEF HandlerCheck
  <2>2. \A d \in Clients : handler'[d] = handler[d] \/ handler'[d].stage = "idle"
    BY <2>1, ConstantTypes DEF TypeInv, TypeOK
  <2> QED BY <2>2, ServerFrame DEF HandlerCheck
<1>2. CASE Check(chain[Server], handler[c].block)
  <2>1. /\ handler[c].stage = "received"
        /\ handler' = [handler EXCEPT ![c].stage = "checked"]
        /\ UNCHANGED <<chain, panicked, db, restarts>>
    BY <1>2 DEF HandlerCheck
  <2>2. /\ handler'[c].stage = "checked" /\ handler'[c].block = handler[c].block
        /\ \A d \in Clients \ {c} : handler'[d] = handler[d]
    BY <2>1 DEF TypeInv, TypeOK, HandlerType
  <2>3. \A d \in Applying' : d \in Applying /\ handler'[d] = handler[d]
    BY <2>1, <2>2 DEF Applying
  <2>4. HandlerInv'
    BY <1>2, <2>1, <2>2, <2>3 DEF ServerInv, HandlerInv
  <2> QED
    BY <2>1, <2>4 DEF ServerInv, TableIsOneChain, ServerChainStored, LagInv
<1> QED BY <1>1, <1>2

\* The INSERT succeeds only while the check still holds.
LEMMA HandlerInsertServer ==
    ASSUME TypeInv, ServerInv, NEW c \in Clients, HandlerInsert(c)
    PROVE  ServerInv'
<1> DEFINE block == handler[c].block
<1>1. CASE ~InsertAccepted(block)
  <2>1. handler' = [handler EXCEPT ![c] = Idle] /\ UNCHANGED db
    BY <1>1 DEF HandlerInsert
  <2>2. \A d \in Clients : handler'[d] = handler[d] \/ handler'[d].stage = "idle"
    BY <2>1, ConstantTypes DEF TypeInv, TypeOK
  <2> QED BY <2>1, <2>2, ServerFrame DEF HandlerInsert
<1>2. CASE InsertAccepted(block)
  <2>1. /\ handler[c].stage = "checked"
        /\ handler' = [handler EXCEPT ![c].stage = "inserted"]
        /\ db' = db \cup {block}
        /\ UNCHANGED <<chain, panicked, restarts>>
    BY <1>2 DEF HandlerInsert
  <2>2. ~HasRow(db, Sequence(block)) /\ Check(chain[Server], block)
    BY <1>2, <2>1 DEF InsertAccepted, ServerInv, HandlerInv
  <2>3. /\ Sequence(block) = Sequence(chain[Server].last) + 1
        /\ PreviousBlock(block) = chain[Server].last
    BY <2>2 DEF Check
  <2>4. TableIsOneChain'
    <3>1. \A b \in db : Sequence(b) # Sequence(block)
      BY <2>2 DEF HasRow
    <3>2. \A b \in db' : /\ Sequence(b) >= 2
                         /\ PreviousBlock(b) \in db' \cup {Genesis}
      BY <2>1, <2>3, RowFacts DEF ServerInv, TableIsOneChain, ServerChainStored
    <3>3. \A b, d \in db' : Sequence(b) = Sequence(d) => b = d
      BY <2>1, <3>1 DEF ServerInv, TableIsOneChain
    <3> QED BY <3>2, <3>3 DEF TableIsOneChain
  <2>5. ServerChainStored'
    BY <2>1 DEF ServerInv, ServerChainStored
  <2>6. LagInv'
    BY <2>1, <2>3, RowFacts DEF ServerInv, LagInv
  <2>7. /\ handler'[c].stage = "inserted" /\ handler'[c].block = block
        /\ \A d \in Clients \ {c} : handler'[d] = handler[d]
    BY <2>1 DEF TypeInv, TypeOK, HandlerType
  <2>8. Applying = {}
    <3> SUFFICES ASSUME NEW d \in Applying PROVE FALSE
      OBVIOUS
    <3>1. handler[d].block \in db /\ Check(chain[Server], handler[d].block)
      BY DEF ServerInv, HandlerInv
    <3>2. Sequence(handler[d].block) = Sequence(block)
      BY <2>3, <3>1 DEF Check
    <3> QED BY <2>2, <3>1, <3>2 DEF HasRow
  <2>9. HandlerInv'
    <3>1. Applying' = {c}
      BY <2>7, <2>8 DEF Applying
    <3>2. \A s : HasRow(db, s) => HasRow(db', s)
      BY <2>1 DEF HasRow
    <3>3. ASSUME NEW d \in Clients, handler'[d].stage = "checked"
          PROVE  \/ Check(chain'[Server], handler'[d].block)
                 \/ HasRow(db', Sequence(handler'[d].block))
      <4>1. handler'[d] = handler[d]
        BY <2>7, <3>3
      <4> QED BY <2>1, <3>2, <3>3, <4>1 DEF ServerInv, HandlerInv
    <3>4. handler'[c].block \in db' /\ Check(chain'[Server], handler'[c].block)
      BY <2>1, <2>2, <2>7
    <3> HIDE DEF block
    <3> QED BY <3>1, <3>3, <3>4 DEF HandlerInv
  <2> QED BY <2>4, <2>5, <2>6, <2>9 DEF ServerInv
<1> QED BY <1>1, <1>2

LEMMA HandlerPublishServer ==
    ASSUME TypeInv, ServerInv, NEW c \in Clients, HandlerPublish(c)
    PROVE  ServerInv'
<1>1. /\ handler[c].stage = "inserted"
      /\ UNCHANGED <<chain, panicked, db, restarts>>
      /\ \/ handler' = [handler EXCEPT ![c].stage = "published"]
         \/ handler' = [handler EXCEPT ![c] = Idle]
  BY DEF HandlerPublish
<1>2. CASE handler' = [handler EXCEPT ![c] = Idle]
  <2>1. \A d \in Clients : handler'[d] = handler[d] \/ handler'[d].stage = "idle"
    BY <1>2, ConstantTypes DEF TypeInv, TypeOK
  <2> QED BY <1>1, <2>1, ServerFrame
<1>3. CASE handler' = [handler EXCEPT ![c].stage = "published"]
  <2>1. /\ handler'[c].stage = "published" /\ handler'[c].block = handler[c].block
        /\ \A d \in Clients \ {c} : handler'[d] = handler[d]
    BY <1>3 DEF TypeInv, TypeOK, HandlerType
  <2>2. Applying' = Applying /\ \A d \in Clients : handler'[d].block = handler[d].block
    BY <1>1, <2>1 DEF Applying
  <2>3. HandlerInv'
    <3>1. ASSUME NEW d \in Clients, handler'[d].stage = "checked"
          PROVE  \/ Check(chain'[Server], handler'[d].block)
                 \/ HasRow(db', Sequence(handler'[d].block))
      <4>1. handler'[d] = handler[d]
        BY <2>1, <3>1
      <4> QED BY <1>1, <3>1, <4>1 DEF ServerInv, HandlerInv
    <3>2. ASSUME NEW d \in Applying'
          PROVE  handler'[d].block \in db' /\ Check(chain'[Server], handler'[d].block)
      <4>1. d \in Clients /\ d \in Applying /\ handler'[d].block = handler[d].block
        BY <2>2 DEF Applying
      <4> QED BY <1>1, <4>1 DEF ServerInv, HandlerInv
    <3>3. \A d, e \in Applying' : d = e
      BY <2>2 DEF ServerInv, HandlerInv
    <3> QED BY <3>1, <3>2, <3>3 DEF HandlerInv
  <2> QED
    BY <1>1, <2>3 DEF ServerInv, TableIsOneChain, ServerChainStored, LagInv
<1> QED BY <1>1, <1>2, <1>3

\* apply does not panic, and makes every other check stale but harmless.
LEMMA HandlerApplyServer ==
    ASSUME TypeInv, ServerInv, NEW c \in Clients, HandlerApply(c)
    PROVE  ServerInv'
<1> DEFINE block == handler[c].block
<1>1. /\ handler[c].stage = "published" /\ c \in Applying
      /\ handler' = [handler EXCEPT ![c] = Idle]
      /\ UNCHANGED <<db, restarts>>
  BY DEF HandlerApply, Applying
<1>2. block \in db /\ Check(chain[Server], block)
  BY <1>1 DEF ServerInv, HandlerInv
<1>3. ~ApplyPanics(chain[Server], block)
  BY <1>2 DEF Check, ApplyPanics
<1>4. panicked' = panicked
  BY <1>3 DEF HandlerApply
<1>5. /\ chain'[Server].last = block
      /\ chain'[Server].state = ResultingState(block)
  BY <1>2, <1>3, MembersFacts DEF HandlerApply, Apply, Check, TypeInv, TypeOK
<1>6. Sequence(block) = Sequence(chain[Server].last) + 1
  BY <1>2 DEF Check
<1>7. TableIsOneChain' /\ ServerChainStored'
  BY <1>1, <1>2, <1>4, <1>5 DEF ServerInv, TableIsOneChain, ServerChainStored
<1>8. LagInv'
  BY <1>1, <1>5, <1>6, RowFacts DEF ServerInv, LagInv
<1>9. /\ handler'[c].stage = "idle"
      /\ \A d \in Clients \ {c} : handler'[d] = handler[d]
  BY <1>1, ConstantTypes DEF TypeInv, TypeOK
<1>10. Applying' = {}
  BY <1>1, <1>9 DEF Applying, ServerInv, HandlerInv
<1>11. ASSUME NEW d \in Clients, handler'[d].stage = "checked"
       PROVE  HasRow(db', Sequence(handler'[d].block))
  <2>1. handler'[d] = handler[d] /\ handler[d].stage = "checked"
    BY <1>9, <1>11
  <2>2. CASE HasRow(db, Sequence(handler[d].block))
    BY <1>1, <2>1, <2>2
  <2>3. CASE Check(chain[Server], handler[d].block)
    <3>1. Sequence(handler[d].block) = Sequence(block)
      BY <1>6, <2>3 DEF Check
    <3> QED BY <1>1, <1>2, <2>1, <3>1 DEF HasRow
  <2> QED BY <2>1, <2>2, <2>3 DEF ServerInv, HandlerInv
<1>12. HandlerInv'
  BY <1>10, <1>11 DEF HandlerInv
<1> QED BY <1>7, <1>8, <1>12 DEF ServerInv

\* Server::start goes back to the initial chain; no handler survives.
LEMMA RestartServerServer ==
    ASSUME TypeInv, ServerInv, RestartServer
    PROVE  ServerInv'
<1>1. /\ chain'[Server] = Import(Genesis) /\ Server \notin panicked'
      /\ UNCHANGED db /\ restarts' # 0
      /\ \A c \in Clients : handler'[c].stage = "idle"
  BY MembersFacts, ConstantTypes DEF RestartServer, TypeInv, TypeOK
<1>2. Applying' = {}
  BY <1>1 DEF Applying
<1> QED
  BY <1>1, <1>2
     DEF ServerInv, TableIsOneChain, ServerChainStored, HandlerInv, LagInv, Import

\* Steps of nodes and of the feed do not touch the server's chain and table.
LEMMA NodeChainFrame ==
    ASSUME TypeInv, NEW n \in Nodes, NEW x,
           chain' = [chain EXCEPT ![n] = x] \/ UNCHANGED chain
    PROVE  chain'[Server] = chain[Server]
BY MembersFacts DEF TypeInv, TypeOK

LEMMA OtherStepsServer ==
    ASSUME TypeInv, ServerInv,
           \/ \E c \in Clients : AddStep(c)
           \/ \E c \in Clients, a \in Agents : Enroll(c, a)
           \/ \E n \in Nodes : FeedStep(n) \/ FollowStep(n)
           \/ \E n \in Nodes : Start(n) \/ Save(n) \/ Stop(n)
           \/ UNCHANGED vars
    PROVE  ServerInv'
<1>1. ASSUME NEW c \in Clients, AddStep(c) PROVE ServerInv'
  <2>1. c \in Nodes
    BY MembersFacts
  <2>2. CASE PackageAndSend(c)
    <3>1. \A d \in Clients : handler'[d] = handler[d] \/ handler'[d].stage = "received"
      BY <2>2 DEF PackageAndSend, TypeInv, TypeOK
    <3> QED BY <2>2, <3>1, ServerFrame DEF PackageAndSend
  <2>3. CASE AddAnswered(c)
    BY <2>3, ServerFrame DEF AddAnswered
  <2>4. CASE AddStore(c)
    BY <2>4, ServerFrame DEF AddStore, serverVars
  <2>5. CASE AddApply(c)
    <3>1. /\ chain'[Server] = chain[Server]
          /\ Server \in panicked' => Server \in panicked
      BY <2>1, <2>5, NodeChainFrame, MembersFacts DEF AddApply, ApplyAt
    <3> QED BY <2>5, <3>1, ServerFrame DEF AddApply, serverVars
  <2> QED BY <1>1, <2>2, <2>3, <2>4, <2>5 DEF AddStep
<1>2. ASSUME NEW c \in Clients, NEW a \in Agents, Enroll(c, a) PROVE ServerInv'
  BY <1>2, ServerFrame DEF Enroll, serverVars
<1>3. ASSUME NEW n \in Nodes, FeedStep(n) PROVE ServerInv'
  BY <1>3, ServerFrame
     DEF FeedStep, Subscribe, Select, SendCurrent, Drain, SendUpToDate, Forward,
         serverVars
<1>4. ASSUME NEW n \in Nodes, FollowStep(n) PROVE ServerInv'
  <2>1. ASSUME EndSession(n)
        PROVE  /\ chain'[Server] = chain[Server]
               /\ Server \in panicked' => Server \in panicked
    BY <2>1, NodeChainFrame, MembersFacts DEF EndSession
  <2>2. ASSUME ApplyAt(n, pend[n].block)
        PROVE  /\ chain'[Server] = chain[Server]
               /\ Server \in panicked' => Server \in panicked
    BY <2>2, NodeChainFrame, MembersFacts DEF ApplyAt
  <2>3. /\ chain'[Server] = chain[Server]
        /\ Server \in panicked' => Server \in panicked
        /\ UNCHANGED <<db, handler, restarts>>
    BY <1>4, <2>1, <2>2
       DEF FollowStep, ReadTransaction, StoreBlock, ApplyBlock, ReadUpToDate,
           ReadClose, serverVars
  <2> QED BY <2>3, ServerFrame
<1>5. ASSUME NEW n \in Nodes, Start(n) \/ Save(n) \/ Stop(n) PROVE ServerInv'
  <2>1. /\ chain'[Server] = chain[Server]
        /\ Server \in panicked' => Server \in panicked
        /\ UNCHANGED <<db, handler, restarts>>
    <3>1. CASE Start(n)
      <4> DEFINE x == Import(Replayed(file[n], rows[n]))
      <4>1. chain' = [chain EXCEPT ![n] = x]
        BY <3>1 DEF Start
      <4>2. chain'[Server] = chain[Server]
        BY <4>1, NodeChainFrame
      <4> QED BY <3>1, <4>2 DEF Start, serverVars
    <3>2. CASE Save(n)
      BY <3>2 DEF Save, serverVars
    <3>3. CASE Stop(n)
      <4>1. chain'[Server] = chain[Server]
        BY <3>3, NodeChainFrame DEF Stop
      <4> QED BY <3>3, <4>1 DEF Stop
    <3> QED BY <1>5, <3>1, <3>2, <3>3
  <2> QED BY <2>1, ServerFrame
<1>6. CASE UNCHANGED vars
  BY <1>6, ServerFrame DEF vars, serverVars
<1> QED BY <1>1, <1>2, <1>3, <1>4, <1>5, <1>6

LEMMA NextServer == TypeInv /\ ServerInv /\ [Next]_vars => ServerInv'
<1> SUFFICES ASSUME TypeInv, ServerInv, [Next]_vars PROVE ServerInv'
  OBVIOUS
<1>1. ASSUME NEW c \in Clients, ServerStep(c) PROVE ServerInv'
  BY <1>1, HandlerCheckServer, HandlerInsertServer, HandlerPublishServer,
     HandlerApplyServer DEF ServerStep
<1> QED BY <1>1, RestartServerServer, OtherStepsServer DEF Next

LEMMA ServerInvariant == Spec => [](TypeInv /\ ServerInv)
BY InitType, NextType, InitServer, NextServer, PTL DEF Spec

\* However many clients send blocks at the same time, and however often the
\* server is restarted, the server's table is one chain without gaps or forks.
THEOREM TableStaysOneChain == Spec => []TableIsOneChain
<1>1. ServerInv => TableIsOneChain
  BY DEF ServerInv
<1> QED BY <1>1, ServerInvariant, PTL

\* The server's apply is never reached with a block that makes it panic, and
\* its chain in memory is always a row of its table (or the initial chain).
THEOREM ServerApplyIsSafe == Spec => []ServerChainStored
<1>1. ServerInv => ServerChainStored
  BY DEF ServerInv
<1> QED BY <1>1, ServerInvariant, PTL

\* Until the server is restarted, its chain is at most one block behind its
\* table, even when a broadcast fails and its block is never applied.
THEOREM ServerLagIsBounded == Spec => []ServerLagAtMostOne
<1>1. TypeInv /\ ServerInv => ServerLagAtMostOne
  <2> SUFFICES ASSUME TypeInv, ServerInv, restarts = 0
               PROVE  Sequence(Log) <= Sequence(chain[Server].last) + 1
    BY DEF ServerLagAtMostOne
  <2>1. CASE db = {}
    BY <2>1, RowFacts DEF Log
  <2>2. CASE db # {}
    <3>1. \E b \in db : \A d \in db : Sequence(d) <= Sequence(b)
      BY <2>2 DEF TypeInv, IsTable
    <3>2. Log \in db
      BY <2>2, <3>1 DEF Log
    <3> QED BY <3>2 DEF ServerInv, LagInv
  <2> QED BY <2>1, <2>2
<1> QED BY <1>1, ServerInvariant, PTL

\* What the server serves from memory stays with its table: always one of its
\* histories, and at most one block behind it until a restart.
THEOREM ServerStaysWithTable == Spec => []ServerFollowsTable
<1>1. ServerChainStored /\ ServerLagAtMostOne => ServerFollowsTable
  BY DEF ServerFollowsTable
<1> QED BY <1>1, ServerApplyIsSafe, ServerLagIsBounded, PTL

-----------------------------------------------------------------------------
(***************************************************************************)
(* The history that the server's table holds, and what loading a part of   *)
(* it gives.                                                               *)
(*                                                                         *)
(* So far, every row points to an earlier one.  Now the rows, with the     *)
(* chain of the initialisation, are shown to be the prefixes of one        *)
(* history without repetitions and without gaps, although the INSERT of a  *)
(* block and the update of current_sequence are two steps; and RowsAfter,  *)
(* the SELECT of load_all_after and load_trust_store, is shown to return   *)
(* the rows of such a table one by one.                                    *)
(***************************************************************************)
(***************************************************************************)
(* Numbers and sequences.                                                  *)
(***************************************************************************)
\* A set of numbers has a least element: induction, in the form of a set.
LEMMA LeastNat ==
    ASSUME NEW T, T \subseteq Nat, T # {}
    PROVE  \E x \in T : \A y \in T : x <= y
<1> DEFINE R == OpToRel(<, Nat)
<1>1. IsWellFoundedOn(R, Nat)
  BY NatLessThanWellFounded
<1>2. \A x, y \in Nat : x < y => <<x, y>> \in R
  BY DEF OpToRel
<1> HIDE DEF R
<1>3. PICK x \in T : \A y \in T : ~ (<<y, x>> \in R)
  BY <1>1, WFMin
<1>4. ASSUME NEW y \in T PROVE x <= y
  <2>1. x \in Nat /\ y \in Nat /\ ~(y < x)
    BY <1>2, <1>3
  <2> QED BY <2>1
<1> QED BY <1>4

\* The history b is the beginning of the history d.
Begins(b, d) ==
    /\ Sequence(b) <= Sequence(d)
    /\ \A i \in 1 .. Sequence(b) : b[i] = d[i]

LEMMA BeginsIsPrefix ==
    ASSUME NEW b \in Block, NEW d \in Block, Begins(b, d)
    PROVE  IsPrefix(b, d) /\ b = SubSeq(d, 1, Sequence(b))
<1>1. /\ b \in Seq(Certs) /\ d \in Seq(Certs) /\ Len(b) \in Nat /\ Len(d) \in Nat
      /\ Len(b) <= Len(d) /\ \A i \in 1 .. Len(b) : b[i] = d[i]
  BY DEF Block, Begins, Sequence
<1>2. /\ SubSeq(d, 1, Len(b)) \in Seq(Certs) /\ Len(SubSeq(d, 1, Len(b))) = Len(b)
      /\ \A i \in 1 .. Len(b) : SubSeq(d, 1, Len(b))[i] = d[i]
  BY <1>1
<1>3. SubSeq(d, 1, Len(b)) = b
  BY <1>1, <1>2, SeqEqual
<1>4. SubSeq(b, 1, Len(b)) = b
  BY <1>1
<1> QED BY <1>1, <1>3, <1>4 DEF IsPrefix, Sequence

LEMMA BeginsBoth ==
    ASSUME NEW b \in Block, NEW d \in Block, Begins(b, d), Sequence(b) = Sequence(d)
    PROVE  b = d
BY SeqEqual DEF Block, Begins, Sequence

(***************************************************************************)
(* The rows of a table without gaps, and what the SELECT returns of them.  *)
(***************************************************************************)
Gapless(table, top) ==
    /\ IsTable(table)
    /\ top \in Nat \ {0}
    /\ \A b \in table : Sequence(b) \in 2 .. top
    /\ \A k \in 2 .. top : HasRow(table, k)
    /\ \A b, d \in table : Sequence(b) = Sequence(d) => b = d

LEMMA RowsAfterNone ==
    ASSUME NEW table, NEW after, \A b \in table : ~(Sequence(b) > after)
    PROVE  RowsAfter(table, after) = << >>
<1> DEFINE later == {b \in table : Sequence(b) > after}
           sorted == {s \in [1 .. Cardinality(later) -> later] :
                      \A i, j \in DOMAIN s : i < j => Sequence(s[i]) < Sequence(s[j])}
<1>1. later = {}
  OBVIOUS
<1>2. Cardinality(later) = 0
  BY <1>1, FS_EmptySet
<1>3. \A s \in sorted : s = << >>
  <2>1. \A s \in [1 .. 0 -> {}] : s = << >>
    OBVIOUS
  <2> QED BY <1>1, <1>2, <2>1
<1>4. RowsAfter(table, after) = IF sorted = {} THEN << >> ELSE CHOOSE s \in sorted : TRUE
  BY DEF RowsAfter
<1> HIDE DEF sorted
<1> QED BY <1>3, <1>4

LEMMA RowsAfterSome ==
    ASSUME NEW table, NEW top, Gapless(table, top),
           NEW after \in Nat, 1 <= after, after < top
    PROVE  /\ RowsAfter(table, after) \in Seq(table)
           /\ Len(RowsAfter(table, after)) = top - after
           /\ \A i \in 1 .. top - after :
                  /\ RowsAfter(table, after)[i] \in table
                  /\ Sequence(RowsAfter(table, after)[i]) = after + i
<1> DEFINE N == top - after
           later == {b \in table : Sequence(b) > after}
           sorted == {s \in [1 .. Cardinality(later) -> later] :
                      \A i, j \in DOMAIN s : i < j => Sequence(s[i]) < Sequence(s[j])}
           g == [i \in 1 .. N |-> CHOOSE b \in table : Sequence(b) = after + i]
<1>1. top \in Nat /\ N \in Nat /\ N >= 1
  BY DEF Gapless
<1>2. ASSUME NEW i \in 1 .. N
      PROVE  g[i] \in later /\ Sequence(g[i]) = after + i
  <2>1. after + i \in 2 .. top
    BY <1>1
  <2>2. \E b \in table : Sequence(b) = after + i
    BY <2>1 DEF Gapless, HasRow
  <2>3. g[i] \in table /\ Sequence(g[i]) = after + i
    BY <2>2
  <2> QED BY <1>1, <2>3
<1>3. g \in [1 .. N -> later]
  BY <1>2
<1>4. g \in Bijection(1 .. N, later)
  <2>1. \A i, j \in 1 .. N : g[i] = g[j] => i = j
    <3> SUFFICES ASSUME NEW i \in 1 .. N, NEW j \in 1 .. N, g[i] = g[j] PROVE i = j
      OBVIOUS
    <3>1. after + i = after + j
      BY <1>2
    <3> HIDE DEF g
    <3> QED BY <3>1, <1>1
  <2>2. \A b \in later : \E i \in 1 .. N : g[i] = b
    <3> SUFFICES ASSUME NEW b \in later PROVE \E i \in 1 .. N : g[i] = b
      OBVIOUS
    <3>1. Sequence(b) \in 2 .. top /\ Sequence(b) > after
      BY DEF Gapless
    <3>2. Sequence(b) - after \in 1 .. N /\ after + (Sequence(b) - after) = Sequence(b)
      BY <1>1, <3>1
    <3>3. g[Sequence(b) - after] \in table /\ Sequence(g[Sequence(b) - after]) = Sequence(b)
      BY <1>2, <3>2
    <3>4. g[Sequence(b) - after] = b
      BY <3>3 DEF Gapless
    <3> QED BY <3>2, <3>4
  <2> HIDE DEF g, later, N
  <2> QED BY <1>3, <2>1, <2>2 DEF Bijection, Injection, Surjection, IsInjective
<1>5. IsFiniteSet(1 .. N) /\ Cardinality(1 .. N) = N
  BY <1>1, FS_Interval
<1>6. Cardinality(later) = N
  <2> HIDE DEF g, later
  <2>1. ExistsBijection(1 .. N, later)
    BY <1>4 DEF ExistsBijection
  <2>2. IsFiniteSet(later) /\ Cardinality(later) = Cardinality(1 .. N)
    BY <2>1, <1>5, FS_Bijection
  <2> QED BY <1>5, <2>2
<1>7. g \in sorted
  <2>1. DOMAIN g = 1 .. N
    OBVIOUS
  <2>2. \A i, j \in 1 .. N : i < j => Sequence(g[i]) < Sequence(g[j])
    <3> SUFFICES ASSUME NEW i \in 1 .. N, NEW j \in 1 .. N, i < j
                 PROVE  Sequence(g[i]) < Sequence(g[j])
      OBVIOUS
    <3>1. Sequence(g[i]) = after + i /\ Sequence(g[j]) = after + j
      BY <1>2
    <3> HIDE DEF g
    <3> QED BY <3>1, <1>1
  <2> HIDE DEF g, later
  <2> QED BY <1>3, <1>6, <2>1, <2>2
<1> DEFINE s == RowsAfter(table, after)
<1>8. s = CHOOSE t \in sorted : TRUE
  <2>1. s = IF sorted = {} THEN << >> ELSE CHOOSE t \in sorted : TRUE
    BY DEF RowsAfter
  <2> HIDE DEF sorted, s, g
  <2> QED BY <1>7, <2>1
<1>9. s \in sorted
  <2> HIDE DEF sorted, s, g
  <2> QED BY <1>7, <1>8
<1>10. /\ s \in [1 .. N -> later]
       /\ \A i, j \in 1 .. N : i < j => Sequence(s[i]) < Sequence(s[j])
  <2>1. /\ s \in [1 .. Cardinality(later) -> later]
        /\ \A i, j \in DOMAIN s : i < j => Sequence(s[i]) < Sequence(s[j])
    <3> HIDE DEF s
    <3> QED BY <1>9
  <2> HIDE DEF s, sorted, later
  <2> QED BY <1>6, <2>1
<1>11. \A i \in 1 .. N : /\ s[i] \in table /\ Sequence(s[i]) \in Nat
                         /\ Sequence(s[i]) > after /\ Sequence(s[i]) <= top
  <2> HIDE DEF s
  <2> QED BY <1>10 DEF Gapless
<1> HIDE DEF s, sorted, later, g
<1>12. \A i \in 1 .. N : Sequence(s[i]) >= after + i
  <2> DEFINE T == {i \in 1 .. N : ~(Sequence(s[i]) >= after + i)}
  <2> SUFFICES ASSUME T # {} PROVE FALSE
    OBVIOUS
  <2>1. PICK x \in T : \A y \in T : x <= y
    <3>1. T \subseteq Nat
      OBVIOUS
    <3> HIDE DEF T
    <3> QED BY <3>1, LeastNat
  <2>2. x \in 1 .. N /\ ~(Sequence(s[x]) >= after + x)
    OBVIOUS
  <2>3. x # 1
    BY <1>11, <2>2
  <2>4. x - 1 \in 1 .. N /\ x - 1 < x
    BY <1>1, <2>2, <2>3
  <2>5. x - 1 \notin T
    BY <1>1, <2>1, <2>4
  <2>6. Sequence(s[x - 1]) >= after + (x - 1)
    BY <2>4, <2>5
  <2>7. Sequence(s[x - 1]) < Sequence(s[x])
    BY <1>10, <2>2, <2>4
  <2> HIDE DEF T
  <2> QED BY <1>11, <2>2, <2>4, <2>6, <2>7
<1>13. \A i \in 1 .. N : Sequence(s[i]) <= after + i
  <2> DEFINE T == {j \in 0 .. N - 1 : ~(Sequence(s[N - j]) <= after + (N - j))}
  <2> SUFFICES ASSUME T # {} PROVE FALSE
    <3> SUFFICES ASSUME T = {}, NEW i \in 1 .. N PROVE Sequence(s[i]) <= after + i
      OBVIOUS
    <3>1. N - i \in 0 .. N - 1 /\ N - (N - i) = i
      BY <1>1
    <3>2. N - i \notin T
      OBVIOUS
    <3> HIDE DEF N
    <3> QED BY <3>1, <3>2
  <2>1. PICK x \in T : \A y \in T : x <= y
    <3>1. T \subseteq Nat
      BY <1>1
    <3> HIDE DEF T
    <3> QED BY <3>1, LeastNat
  <2>2. x \in 0 .. N - 1 /\ ~(Sequence(s[N - x]) <= after + (N - x))
    OBVIOUS
  <2>3. N - x \in 1 .. N
    BY <1>1, <2>2
  <2>4. x # 0
    <3>1. Sequence(s[N]) <= after + N
      BY <1>1, <1>11
    <3> HIDE DEF T, N
    <3> QED BY <1>1, <2>2, <3>1
  <2>5. x - 1 \in 0 .. N - 1 /\ x - 1 < x /\ N - (x - 1) \in 1 .. N
        /\ N - x < N - (x - 1)
    BY <1>1, <2>2, <2>4
  <2>6. x - 1 \notin T
    BY <1>1, <2>1, <2>5
  <2>7. Sequence(s[N - (x - 1)]) <= after + (N - (x - 1))
    BY <2>5, <2>6
  <2>8. Sequence(s[N - x]) < Sequence(s[N - (x - 1)])
    BY <1>10, <2>3, <2>5
  <2> HIDE DEF T, N
  <2> QED BY <1>1, <1>11, <2>2, <2>3, <2>5, <2>7, <2>8
<1>14. \A i \in 1 .. N : s[i] \in table /\ Sequence(s[i]) = after + i
  BY <1>1, <1>11, <1>12, <1>13
<1>15. s \in Seq(table) /\ Len(s) = N
  <2>1. s \in [1 .. N -> table]
    BY <1>10, <1>14
  <2> HIDE DEF N
  <2> QED BY <1>1, <2>1
<1> QED BY <1>14, <1>15 DEF s

(***************************************************************************)
(* The table is one history.                                               *)
(***************************************************************************)
Logged == db \cup {Genesis}

Inserted(c) == handler[c].stage = "inserted"

\* Of two histories the shorter begins the longer.
OneHistory ==
    \A b, d \in Logged : Sequence(b) <= Sequence(d) => Begins(b, d)

\* No certificate is added twice.
NoRepeats ==
    \A b \in Logged : \A i, j \in 1 .. Sequence(b) : b[i] = b[j] => i = j

NoGaps == \A b \in db : \A k \in 2 .. Sequence(b) : HasRow(db, k)

\* current_sequence is the newest row's, or one less while the handler that
\* inserted that row has not stored it.
CurInv ==
    /\ curSeq \in Nat \ {0}
    /\ curSeq = 1 \/ HasRow(db, curSeq)
    /\ \A c \in Clients : Inserted(c) => Sequence(handler[c].block) = curSeq + 1
    /\ \A d \in db : \/ Sequence(d) <= curSeq
                     \/ \E c \in Clients : Inserted(c) /\ handler[c].block = d

LogInv == OneHistory /\ NoRepeats /\ NoGaps /\ CurInv

LEMMA LoggedFacts ==
    ASSUME TypeInv, ServerInv
    PROVE  /\ \A b \in Logged : b \in Block /\ Sequence(b) \in Nat /\ Sequence(b) >= 1
           /\ \A b, d \in Logged : Sequence(b) = Sequence(d) => b = d
           /\ chain[Server].last \in Logged
           /\ Genesis \in Logged /\ db \subseteq Logged /\ Sequence(Genesis) = 1
           /\ \A b \in db : Sequence(b) >= 2
<1>1. \A b \in db : b \in Block
  BY DEF TypeInv, TypeOK
<1> QED
  BY <1>1, RowFacts, MembersFacts
     DEF Logged, ServerInv, TableIsOneChain, ServerChainStored

LEMMA PreviousBegins ==
    ASSUME NEW b \in Block, NEW d \in Block, Sequence(b) = Sequence(d) + 1,
           PreviousBlock(b) = d
    PROVE  Begins(d, b)
<1>1. b \in Seq(Certs) /\ Len(b) \in Nat /\ Len(d) \in Nat /\ Len(b) = Len(d) + 1
  BY DEF Block, Sequence
<1>2. \A i \in 1 .. Len(d) : SubSeq(b, 1, Len(b) - 1)[i] = b[i]
  BY <1>1
<1> QED BY <1>1, <1>2 DEF Begins, PreviousBlock, Sequence

LEMMA InitLog == Init => LogInv
<1> SUFFICES ASSUME Init PROVE LogInv
  OBVIOUS
<1>1. /\ db = {} /\ Logged = {Genesis} /\ Sequence(Genesis) = 1 /\ curSeq = 1
  BY DEF Init, Logged, Genesis, Sequence, MaxSequence
<1>2. \A c \in Clients : ~Inserted(c)
  BY DEF Init, Idle, Inserted
<1> QED
  BY <1>1, <1>2 DEF LogInv, OneHistory, NoRepeats, NoGaps, CurInv, Begins

\* A step that neither inserts a row nor stores current_sequence.
LEMMA LogFrame ==
    ASSUME LogInv, UNCHANGED <<db, curSeq>>,
           \A c \in Clients : /\ Inserted(c)' <=> Inserted(c)
                              /\ Inserted(c) => handler'[c].block = handler[c].block
    PROVE  LogInv'
<1>1. Logged' = Logged
  BY DEF Logged
<1>2. OneHistory' /\ NoRepeats' /\ NoGaps'
  BY <1>1 DEF LogInv, OneHistory, NoRepeats, NoGaps
<1>3. CurInv'
  BY DEF LogInv, CurInv
<1> QED BY <1>2, <1>3 DEF LogInv

\* The block that is inserted extends the newest history: a handler with a
\* stale check meets the row of the handler that made it stale.
LEMMA InsertExtends ==
    ASSUME TypeInv, ServerInv, LogInv, NEW c \in Clients, HandlerInsert(c),
           InsertAccepted(handler[c].block)
    PROVE  /\ handler[c].block \in Block
           /\ Sequence(handler[c].block) = Sequence(chain[Server].last) + 1
           /\ Sequence(chain[Server].last) = curSeq
           /\ \A d \in Logged : Sequence(d) <= Sequence(chain[Server].last)
           /\ Begins(chain[Server].last, handler[c].block)
           /\ Transaction(handler[c].block) \notin ResultingState(chain[Server].last)
<1> DEFINE block == handler[c].block
<1>1. Check(chain[Server], block) /\ ~HasRow(db, Sequence(block))
      /\ Sequence(block) = curSeq + 1
  BY DEF HandlerInsert, InsertAccepted, ServerInv, HandlerInv
<1>2. block \in Block /\ Sequence(block) \in Nat
  BY HandlerBlock, BlockFacts
<1>3. /\ Sequence(block) = Sequence(chain[Server].last) + 1
      /\ PreviousBlock(block) = chain[Server].last
      /\ Transaction(block) \notin ResultingState(chain[Server].last)
  BY <1>1 DEF Check, StateCheck, ServerInv, ServerChainStored
<1>4. Begins(chain[Server].last, block)
  BY <1>2, <1>3, LoggedFacts, PreviousBegins
<1>5. Sequence(chain[Server].last) = curSeq
  BY <1>1, <1>3, LoggedFacts DEF LogInv, CurInv
<1>6. \A d \in db : Sequence(d) <= curSeq
  <2> SUFFICES ASSUME NEW d \in db, ~(Sequence(d) <= curSeq) PROVE FALSE
    OBVIOUS
  <2>1. PICK e \in Clients : Inserted(e) /\ handler[e].block = d
    BY DEF LogInv, CurInv
  <2>2. Sequence(d) = Sequence(block)
    BY <1>1, <2>1 DEF LogInv, CurInv
  <2> QED BY <1>1, <2>2 DEF HasRow
<1>7. \A d \in Logged : Sequence(d) <= curSeq
  BY <1>6, LoggedFacts DEF Logged, LogInv, CurInv
<1> QED BY <1>2, <1>3, <1>4, <1>5, <1>7

LEMMA HandlerInsertLog ==
    ASSUME TypeInv, ServerInv, LogInv, NEW c \in Clients, HandlerInsert(c)
    PROVE  LogInv'
<1> DEFINE block == handler[c].block
<1>1. CASE ~InsertAccepted(block)
  <2>1. handler' = [handler EXCEPT ![c] = Idle] /\ UNCHANGED <<db, curSeq>>
        /\ handler[c].stage = "checked"
    BY <1>1 DEF HandlerInsert
  <2>2. \A d \in Clients : d # c => handler'[d] = handler[d]
    BY <2>1 DEF TypeInv, TypeOK
  <2>3. ~Inserted(c) /\ ~Inserted(c)'
    BY <2>1, ConstantTypes DEF TypeInv, TypeOK, Inserted
  <2> QED BY <2>1, <2>2, <2>3, LogFrame DEF Inserted
<1>2. CASE InsertAccepted(block)
  <2> DEFINE last == chain[Server].last
  <2>1. /\ handler[c].stage = "checked"
        /\ handler' = [handler EXCEPT ![c].stage = "inserted"]
        /\ db' = db \cup {block} /\ curSeq' = curSeq
    BY <1>2 DEF HandlerInsert
  <2>2. /\ block \in Block /\ Sequence(block) = Sequence(last) + 1
        /\ Sequence(last) = curSeq
        /\ \A d \in Logged : Sequence(d) <= Sequence(last)
        /\ Begins(last, block)
        /\ Transaction(block) \notin ResultingState(last)
    BY <1>2, InsertExtends
  <2>3. last \in Logged /\ last \in Block /\ Sequence(last) \in Nat /\ Sequence(last) >= 1
    BY LoggedFacts
  <2>4. Logged' = Logged \cup {block}
    BY <2>1 DEF Logged
  <2>5. /\ handler'[c].stage = "inserted" /\ handler'[c].block = block
        /\ \A d \in Clients \ {c} : handler'[d] = handler[d]
    BY <2>1 DEF TypeInv, TypeOK, HandlerType
  <2> HIDE DEF block, last
  <2>6. \A d \in Logged : Begins(d, block)
    <3> SUFFICES ASSUME NEW d \in Logged PROVE Begins(d, block)
      OBVIOUS
    <3>1. Begins(d, last) /\ Sequence(d) \in Nat
      BY <2>2, <2>3, LoggedFacts DEF LogInv, OneHistory
    <3> QED BY <2>2, <2>3, <3>1 DEF Begins
  <2>7. OneHistory'
    <3> SUFFICES ASSUME NEW b \in Logged', NEW d \in Logged',
                        Sequence(b) <= Sequence(d)
                 PROVE  Begins(b, d)
      BY DEF OneHistory
    <3>1. CASE d = block
      BY <2>4, <2>6, <3>1 DEF Begins
    <3>2. CASE d # block
      <4>1. d \in Logged /\ Sequence(d) \in Nat
        BY <2>4, <3>2, LoggedFacts
      <4>2. b \in Logged
        BY <2>2, <2>3, <2>4, <4>1
      <4> QED BY <4>1, <4>2 DEF LogInv, OneHistory
    <3> QED BY <3>1, <3>2
  <2>8. NoRepeats'
    <3>1. ASSUME NEW i \in 1 .. Sequence(block), NEW j \in 1 .. Sequence(block),
                 block[i] = block[j]
          PROVE  i = j
      <4>1. \A k \in 1 .. Sequence(last) : /\ block[k] = last[k]
                                           /\ block[k] # block[Sequence(block)]
        BY <2>2 DEF Begins, Transaction, ResultingState, Sequence
      <4>2. CASE i = Sequence(block) \/ j = Sequence(block)
        BY <2>2, <2>3, <3>1, <4>1, <4>2
      <4>3. CASE i \in 1 .. Sequence(last) /\ j \in 1 .. Sequence(last)
        BY <2>3, <3>1, <4>1, <4>3 DEF LogInv, NoRepeats
      <4> QED BY <2>2, <2>3, <4>2, <4>3
    <3> QED BY <2>4, <3>1 DEF LogInv, NoRepeats
  <2>9. NoGaps'
    <3>1. \A k \in 2 .. curSeq : HasRow(db, k)
      <4> SUFFICES ASSUME NEW k \in 2 .. curSeq PROVE HasRow(db, k)
        OBVIOUS
      <4>1. curSeq # 1
        OBVIOUS
      <4>2. PICK b \in db : Sequence(b) = curSeq
        BY <4>1 DEF LogInv, CurInv, HasRow
      <4> QED BY <4>2 DEF LogInv, NoGaps
    <3>2. \A k : HasRow(db, k) => HasRow(db', k)
      BY <2>1 DEF HasRow
    <3>3. HasRow(db', Sequence(block))
      BY <2>1 DEF HasRow
    <3>4. \A k \in 2 .. Sequence(block) : k \in 2 .. curSeq \/ k = Sequence(block)
      BY <2>2, <2>3
    <3> QED BY <2>1, <3>1, <3>2, <3>3, <3>4 DEF LogInv, NoGaps
  <2>10. CurInv'
    <3>1. \A k : HasRow(db, k) => HasRow(db', k)
      BY <2>1 DEF HasRow
    <3>2. \A d \in Clients : ~Inserted(d)
      <4> SUFFICES ASSUME NEW d \in Clients, Inserted(d) PROVE FALSE
        OBVIOUS
      <4>1. handler[d].block \in db
        BY DEF Inserted, Applying, ServerInv, HandlerInv
      <4>2. Sequence(handler[d].block) = curSeq + 1
        BY DEF LogInv, CurInv
      <4> QED BY <2>2, <2>3, <4>1, <4>2, LoggedFacts
    <3>3. \A d \in Clients : Inserted(d)' <=> d = c
      BY <2>5, <3>2 DEF Inserted
    <3>4. \A d \in db : Sequence(d) <= curSeq
      BY <2>2, LoggedFacts
    <3> QED BY <2>1, <2>2, <2>5, <3>1, <3>3, <3>4 DEF LogInv, CurInv
  <2> QED BY <2>7, <2>8, <2>9, <2>10 DEF LogInv
<1> QED BY <1>1, <1>2

LEMMA HandlerPublishLog ==
    ASSUME TypeInv, ServerInv, LogInv, NEW c \in Clients, HandlerPublish(c)
    PROVE  LogInv'
<1>1. /\ Inserted(c) /\ db' = db /\ curSeq' = Sequence(handler[c].block)
      /\ \/ handler' = [handler EXCEPT ![c].stage = "published"]
         \/ handler' = [handler EXCEPT ![c] = Idle]
  BY DEF HandlerPublish, Inserted
<1>2. /\ handler'[c].stage # "inserted"
      /\ \A d \in Clients \ {c} : handler'[d] = handler[d]
  BY <1>1, ConstantTypes DEF TypeInv, TypeOK, HandlerType
<1>3. \A d \in Clients : Inserted(d) => d = c
  BY <1>1 DEF Inserted, Applying, ServerInv, HandlerInv
<1>4. \A d \in Clients : ~Inserted(d)'
  BY <1>2, <1>3 DEF Inserted
<1>5. handler[c].block \in db /\ Sequence(handler[c].block) = curSeq + 1
  BY <1>1 DEF Inserted, Applying, ServerInv, HandlerInv, LogInv, CurInv
<1>6. \A d \in db : Sequence(d) <= curSeq'
  BY <1>1, <1>3, <1>5, LoggedFacts DEF LogInv, CurInv
<1>7. CurInv'
  BY <1>1, <1>4, <1>5, <1>6 DEF LogInv, CurInv, HasRow
<1> QED
  BY <1>1, <1>7 DEF LogInv, OneHistory, NoRepeats, NoGaps, Logged

LEMMA MaxSequenceIsNewest ==
    ASSUME NEW table, IsTable(table), table # {}
    PROVE  /\ \E b \in table : Sequence(b) = MaxSequence(table)
           /\ \A b \in table : Sequence(b) <= MaxSequence(table)
<1> DEFINE S == {Sequence(d) : d \in table}
<1>1. S \subseteq Nat
  BY BlockFacts DEF IsTable
<1>2. \E x \in S : \A y \in S : x >= y
  BY <1>1 DEF IsTable
<1>3. Max(S) \in S /\ \A y \in S : Max(S) >= y
  BY <1>2 DEF Max
<1>4. MaxSequence(table) = Max(S)
  BY DEF MaxSequence
<1> QED BY <1>1, <1>3, <1>4

LEMMA RestartServerLog ==
    ASSUME TypeInv, ServerInv, LogInv, RestartServer
    PROVE  LogInv'
<1>1. /\ db' = db /\ curSeq' = MaxSequence(db)
      /\ \A c \in Clients : ~Inserted(c)'
  BY DEF RestartServer, Inserted, Idle
<1>2. CurInv'
  <2>1. CASE db = {}
    BY <1>1, <2>1 DEF CurInv, MaxSequence
  <2>2. CASE db # {}
    <3>1. /\ \E b \in db : Sequence(b) = MaxSequence(db)
          /\ \A b \in db : Sequence(b) <= MaxSequence(db)
      BY <2>2, MaxSequenceIsNewest DEF TypeInv
    <3>2. MaxSequence(db) \in Nat \ {0}
      BY <3>1, LoggedFacts
    <3> QED BY <1>1, <3>1, <3>2 DEF CurInv, HasRow
  <2> QED BY <2>1, <2>2
<1> QED
  BY <1>1, <1>2 DEF LogInv, OneHistory, NoRepeats, NoGaps, Logged

(***************************************************************************)
(* A client sends its block only when the server has done with the one     *)
(* before: its add and the handler of its messages take turns.             *)
(***************************************************************************)
OneBlockAtATime ==
    \A c \in Clients : add[c].stage = "exported" => handler[c].stage = "idle"

LEMMA InitTurns == Init => OneBlockAtATime
BY ConstantTypes DEF Init, OneBlockAtATime

LEMMA NextTurns == TypeInv /\ OneBlockAtATime /\ [Next]_vars => OneBlockAtATime'
<1> SUFFICES ASSUME TypeInv, OneBlockAtATime, [Next]_vars PROVE OneBlockAtATime'
  OBVIOUS
<1>1. ASSUME NEW c \in Clients, ServerStep(c) PROVE OneBlockAtATime'
  <2>1. /\ handler[c].stage # "idle" /\ add' = add
        /\ \A d \in Clients \ {c} : handler'[d] = handler[d]
    BY <1>1 DEF ServerStep, HandlerCheck, HandlerInsert, HandlerPublish,
                HandlerApply, TypeInv, TypeOK
  <2> QED BY <2>1 DEF OneBlockAtATime
<1>2. ASSUME NEW c \in Clients, AddStep(c) PROVE OneBlockAtATime'
  <2>1. \A d \in Clients \ {c} : handler'[d] = handler[d] /\ add'[d] = add[d]
    BY <1>2 DEF AddStep, PackageAndSend, AddAnswered, AddStore, AddApply,
                AddFails, serverVars, TypeInv, TypeOK
  <2>2. add'[c].stage # "exported"
    BY <1>2, ConstantTypes
       DEF AddStep, PackageAndSend, AddAnswered, AddStore, AddApply, AddFails,
           TypeInv, TypeOK, AddType
  <2> QED BY <2>1, <2>2 DEF OneBlockAtATime
<1>3. ASSUME NEW c \in Clients, NEW a \in Agents, Enroll(c, a)
      PROVE  OneBlockAtATime'
  BY <1>3 DEF Enroll, OneBlockAtATime, serverVars, TypeInv, TypeOK
<1>4. ASSUME NEW n \in Nodes, FeedStep(n) PROVE UNCHANGED <<add, handler>>
  BY <1>4
     DEF FeedStep, Subscribe, Select, SendCurrent, Drain, SendUpToDate, Forward,
         serverVars
<1>5. ASSUME NEW n \in Nodes, FollowStep(n) PROVE UNCHANGED <<add, handler>>
  BY <1>5
     DEF FollowStep, ReadTransaction, StoreBlock, ApplyBlock, ReadUpToDate,
         ReadClose, serverVars
<1>6. ASSUME NEW n \in Nodes, Start(n) \/ Save(n) PROVE UNCHANGED <<add, handler>>
  BY <1>6 DEF Start, Save, serverVars
<1>7. ASSUME NEW n \in Nodes, Stop(n) PROVE OneBlockAtATime'
  <2>1. \A c \in Clients : add'[c] = add[c] \/ add'[c] = NoAdd
    BY <1>7 DEF Stop, TypeInv, TypeOK
  <2> QED BY <1>7, <2>1, ConstantTypes DEF Stop, OneBlockAtATime
<1>8. CASE RestartServer
  BY <1>8, ConstantTypes DEF RestartServer, OneBlockAtATime
<1>9. CASE UNCHANGED <<add, handler>>
  BY <1>9 DEF OneBlockAtATime
<1>10. CASE UNCHANGED vars
  BY <1>10 DEF vars, serverVars, OneBlockAtATime
<1> QED
  BY <1>1, <1>2, <1>3, <1>4, <1>5, <1>6, <1>7, <1>8, <1>9, <1>10 DEF Next

\* Every other step leaves table, current_sequence and inserting handlers.
LEMMA OtherStepsLog ==
    ASSUME TypeInv, LogInv, OneBlockAtATime,
           \/ \E c \in Clients : HandlerCheck(c) \/ HandlerApply(c) \/ AddStep(c)
           \/ \E c \in Clients, a \in Agents : Enroll(c, a)
           \/ \E n \in Nodes : FeedStep(n) \/ FollowStep(n)
           \/ \E n \in Nodes : Start(n) \/ Save(n) \/ Stop(n)
           \/ UNCHANGED vars
    PROVE  LogInv'
<1>1. ASSUME NEW c \in Clients, HandlerCheck(c) \/ HandlerApply(c) PROVE LogInv'
  <2>1. /\ UNCHANGED <<db, curSeq>> /\ handler[c].stage # "inserted"
        /\ \/ handler' = [handler EXCEPT ![c] = Idle]
           \/ handler' = [handler EXCEPT ![c].stage = "checked"]
    BY <1>1 DEF HandlerCheck, HandlerApply
  <2>2. /\ handler'[c].stage # "inserted"
        /\ \A d \in Clients \ {c} : handler'[d] = handler[d]
    BY <2>1, ConstantTypes DEF TypeInv, TypeOK, HandlerType
  <2> QED BY <2>1, <2>2, LogFrame DEF Inserted
<1>2. ASSUME NEW c \in Clients, AddStep(c) PROVE LogInv'
  <2>1. CASE PackageAndSend(c)
    <3>1. /\ handler[c].stage = "idle"
          /\ \A d \in Clients :
                \/ handler'[d] = handler[d]
                \/ d = c /\ handler'[d].stage = "received"
      BY <2>1 DEF PackageAndSend, OneBlockAtATime, TypeInv, TypeOK
    <3> QED BY <2>1, <3>1, LogFrame DEF PackageAndSend, Inserted
  <2>2. CASE AddAnswered(c) \/ AddStore(c) \/ AddApply(c)
    BY <2>2, LogFrame DEF AddAnswered, AddStore, AddApply, serverVars, Inserted
  <2> QED BY <1>2, <2>1, <2>2 DEF AddStep
<1>3. ASSUME NEW n \in Nodes, FeedStep(n) PROVE UNCHANGED <<db, curSeq, handler>>
  BY <1>3
     DEF FeedStep, Subscribe, Select, SendCurrent, Drain, SendUpToDate, Forward,
         serverVars
<1>4. ASSUME NEW n \in Nodes, FollowStep(n) PROVE UNCHANGED <<db, curSeq, handler>>
  BY <1>4
     DEF FollowStep, ReadTransaction, StoreBlock, ApplyBlock, ReadUpToDate,
         ReadClose, serverVars
<1>5. ASSUME NEW n \in Nodes, Start(n) \/ Save(n) \/ Stop(n)
      PROVE  UNCHANGED <<db, curSeq, handler>>
  BY <1>5 DEF Start, Save, Stop, serverVars
<1>6. ASSUME NEW c \in Clients, NEW a \in Agents, Enroll(c, a)
      PROVE  UNCHANGED <<db, curSeq, handler>>
  BY <1>6 DEF Enroll, serverVars
<1>7. CASE UNCHANGED vars
  BY <1>7, LogFrame DEF vars, serverVars, Inserted
<1>8. CASE UNCHANGED <<db, curSeq, handler>>
  BY <1>8, LogFrame DEF Inserted
<1> QED BY <1>1, <1>2, <1>3, <1>4, <1>5, <1>6, <1>7, <1>8

LEMMA NextLog ==
    TypeInv /\ ServerInv /\ LogInv /\ OneBlockAtATime /\ [Next]_vars => LogInv'
<1> SUFFICES ASSUME TypeInv, ServerInv, LogInv, OneBlockAtATime, [Next]_vars
             PROVE  LogInv'
  OBVIOUS
<1>1. ASSUME NEW c \in Clients, ServerStep(c) PROVE LogInv'
  BY <1>1, HandlerInsertLog, HandlerPublishLog, OtherStepsLog DEF ServerStep
<1> QED BY <1>1, RestartServerLog, OtherStepsLog DEF Next

\* The invariant of the server's side.
TableInv == TypeInv /\ ServerInv /\ LogInv /\ OneBlockAtATime

LEMMA InitTable == Init => TableInv
BY InitType, InitServer, InitLog, InitTurns DEF TableInv

LEMMA NextTable == TableInv /\ [Next]_vars => TableInv'
BY NextType, NextServer, NextLog, NextTurns DEF TableInv

-----------------------------------------------------------------------------
(* The nodes.                                                              *)

\* The table only grows, by a row that is newer than all others.
LEMMA TableStep ==
    ASSUME TableInv, [Next]_vars
    PROVE  /\ db \subseteq db'
           /\ \A b \in db' : b \notin db => \A d \in Logged : Sequence(d) < Sequence(b)
           /\ Logged \subseteq Logged'
<1>1. ASSUME NEW c \in Clients, ServerStep(c)
      PROVE  \/ db' = db
             \/ /\ db' = db \cup {handler[c].block}
                /\ \A d \in Logged : Sequence(d) < Sequence(handler[c].block)
  <2>1. CASE HandlerInsert(c) /\ InsertAccepted(handler[c].block)
    <3>1. db' = db \cup {handler[c].block}
      BY <2>1 DEF HandlerInsert
    <3>2. \A d \in Logged : Sequence(d) < Sequence(handler[c].block)
      BY <2>1, InsertExtends, LoggedFacts DEF TableInv
    <3> QED BY <3>1, <3>2
  <2>2. CASE ~(HandlerInsert(c) /\ InsertAccepted(handler[c].block))
    BY <1>1, <2>2 DEF ServerStep, HandlerCheck, HandlerInsert, HandlerPublish,
                      HandlerApply
  <2> QED BY <2>1, <2>2
<1>2. ASSUME ~ \E c \in Clients : ServerStep(c) PROVE db' = db
  <2>1. ASSUME NEW c \in Clients, AddStep(c) PROVE db' = db
    BY <2>1 DEF AddStep, PackageAndSend, AddAnswered, AddStore, AddApply, serverVars
  <2>2. ASSUME NEW n \in Nodes, FeedStep(n) PROVE db' = db
    BY <2>2
       DEF FeedStep, Subscribe, Select, SendCurrent, Drain, SendUpToDate,
           Forward, serverVars
  <2>3. ASSUME NEW n \in Nodes, FollowStep(n) PROVE db' = db
    BY <2>3
       DEF FollowStep, ReadTransaction, StoreBlock, ApplyBlock, ReadUpToDate,
           ReadClose, serverVars
  <2>4. ASSUME NEW n \in Nodes, Start(n) \/ Save(n) \/ Stop(n) PROVE db' = db
    BY <2>4 DEF Start, Save, Stop, serverVars
  <2>5. ASSUME NEW c \in Clients, NEW a \in Agents, Enroll(c, a) PROVE db' = db
    BY <2>5 DEF Enroll, serverVars
  <2>6. ASSUME RestartServer PROVE db' = db
    BY <2>6 DEF RestartServer
  <2>7. ASSUME UNCHANGED vars PROVE db' = db
    BY <2>7 DEF vars, serverVars
  <2> QED BY <1>2, <2>1, <2>2, <2>3, <2>4, <2>5, <2>6, <2>7 DEF Next
<1> QED BY <1>1, <1>2 DEF Logged

(***************************************************************************)
(* What is on its way to a node.                                           *)
(***************************************************************************)
\* An update of which the block, if it has one, is a row of the table.
Fed(table) == {m \in Message : m.kind = "Transaction" => m.data \in table}

FeedInv ==
    \A n \in Nodes : /\ receiver[n].current \in Seq(db)
                     /\ receiver[n].queue \in Seq(db)
                     /\ wire[n] \in Seq(Fed(db))
                     /\ pend[n].stage # "idle" => pend[n].block \in db

LEMMA InitFeed == Init => FeedInv
<1> SUFFICES ASSUME Init, NEW n \in Nodes
             PROVE  /\ receiver[n].current \in Seq(db)
                    /\ receiver[n].queue \in Seq(db)
                    /\ wire[n] \in Seq(Fed(db))
                    /\ pend[n].stage # "idle" => pend[n].block \in db
  BY DEF FeedInv
<1>1. receiver[n] = NoReceiver /\ wire[n] = << >> /\ pend[n] = Idle
  BY DEF Init
<1>2. NoReceiver.current = << >> /\ NoReceiver.queue = << >> /\ Idle.stage = "idle"
  BY DEF NoReceiver, Idle
<1> QED BY <1>1, <1>2, EmptySeq

\* A step that only adds rows.
LEMMA FeedFrame ==
    ASSUME FeedInv, db \subseteq db', UNCHANGED <<receiver, wire, pend>>
    PROVE  FeedInv'
<1>1. Seq(db) \subseteq Seq(db') /\ Seq(Fed(db)) \subseteq Seq(Fed(db'))
  <2>1. Fed(db) \subseteq Fed(db')
    BY DEF Fed
  <2> QED BY <2>1, SeqMonotonic
<1> QED BY <1>1 DEF FeedInv

LEMMA EnqueueRows ==
    ASSUME NEW r \in ReceiverType, NEW table, r.current \in Seq(table),
           r.queue \in Seq(table), NEW b \in table
    PROVE  /\ Enqueue(r, b).current \in Seq(table)
           /\ Enqueue(r, b).queue \in Seq(table)
<1>1. CASE Len(r.queue) < BroadcastCap
  BY <1>1 DEF Enqueue, ReceiverType
<1>2. CASE ~(Len(r.queue) < BroadcastCap)
  <2>1. r.queue # << >>
    BY <1>2, ConstantsAssumption
  <2>2. Append(Tail(r.queue), b) \in Seq(table)
    BY <2>1
  <2> QED BY <1>2, <2>2 DEF Enqueue, ReceiverType
<1> QED BY <1>1, <1>2

LEMMA SendRows ==
    ASSUME TypeInv, FeedInv, NEW n \in Nodes, NEW u \in Seq(Fed(db)),
           NEW r, r.current \in Seq(db), r.queue \in Seq(db),
           Send(n, u, r), UNCHANGED <<db, pend>>
    PROVE  FeedInv'
<1>1. /\ NoReceiver.current \in Seq(db) /\ NoReceiver.queue \in Seq(db)
  BY DEF NoReceiver
<1>2. wire[n] \o u \in Seq(Fed(db))
  BY DEF FeedInv
<1>3. CASE session[n] = "off"
  BY <1>1, <1>3 DEF Send, FeedInv, TypeInv, TypeOK
<1>4. CASE session[n] # "off"
  BY <1>2, <1>4 DEF Send, FeedInv, TypeInv, TypeOK
<1> QED BY <1>3, <1>4

LEMMA FedUpdates ==
    /\ \A b \in db : b \in Block => Update("Transaction", b) \in Fed(db)
    /\ Update("Close", NoBlock) \in Fed(db)
    /\ \A ch \in ChainType : Update("UpToDate", Digest(ch)) \in Fed(db)
BY MembersFacts, UpdateType DEF Fed, Update

LEMMA DeliverRows ==
    ASSUME TypeInv, FeedInv, NEW n \in Nodes, NEW blocks \in Seq(db),
           NEW rest \in Seq(db), Deliver(n, blocks, rest), UNCHANGED <<db, pend>>
    PROVE  FeedInv'
<1> DEFINE updates == [i \in DOMAIN blocks |-> Update("Transaction", blocks[i])]
           r == [phase |-> "draining", after |-> receiver[n].after,
                 current |-> << >>, queue |-> rest, lagged |-> FALSE]
<1>1. updates \in Seq(Fed(db))
  <2>1. \A i \in 1 .. Len(blocks) : Update("Transaction", blocks[i]) \in Fed(db)
    BY FedUpdates DEF TypeInv, TypeOK
  <2> QED BY <2>1
<1>2. r.current \in Seq(db) /\ r.queue \in Seq(db)
  OBVIOUS
<1>3. Send(n, updates, r)
  BY DEF Deliver
<1> HIDE DEF updates, r
<1> QED BY <1>1, <1>2, <1>3, SendRows

LEMMA FeedStepRows ==
    ASSUME TableInv, FeedInv, NEW n \in Nodes, FeedStep(n)
    PROVE  FeedInv'
<1>1. /\ UNCHANGED <<db, pend>> /\ TypeInv /\ receiver[n] \in ReceiverType
      /\ receiver[n].current \in Seq(db) /\ receiver[n].queue \in Seq(db)
      /\ db \subseteq Block
  BY ReceiverFacts
     DEF FeedStep, Subscribe, Select, SendCurrent, Drain, SendUpToDate, Forward,
         serverVars, nodeVars, TableInv, TypeInv, TypeOK, FeedInv
<1>2. CASE Subscribe(n)
  <2>1. /\ receiver'[n].current = receiver[n].current
        /\ receiver'[n].queue = receiver[n].queue
        /\ \A m \in Nodes \ {n} : receiver'[m] = receiver[m]
        /\ wire' = wire
    BY <1>1, <1>2 DEF Subscribe, TypeInv, TypeOK, ReceiverType
  <2> QED BY <1>1, <2>1 DEF FeedInv
<1>3. CASE Select(n)
  <2> DEFINE selected == RowsAfter(db, receiver[n].after)
  <2>1. selected \in Seq(db)
    BY <1>1, RowsAfterType DEF TypeInv
  <2>2. receiver' = [receiver EXCEPT ![n].phase = "selected", ![n].current = selected]
        /\ wire' = wire
    BY <1>3 DEF Select
  <2> HIDE DEF selected
  <2>3. /\ receiver'[n].current = selected
        /\ receiver'[n].queue = receiver[n].queue
        /\ \A m \in Nodes \ {n} : receiver'[m] = receiver[m]
    BY <1>1, <2>2 DEF TypeInv, TypeOK, ReceiverType
  <2> QED BY <1>1, <2>1, <2>2, <2>3 DEF FeedInv
<1>4. CASE SendCurrent(n)
  <2> DEFINE q == receiver[n].queue
             s == receiver[n].current
  <2>1. ASSUME NEW k \in DOMAIN q,
               Deliver(n, s \o <<q[k]>>, SubSeq(q, k + 1, Len(q)))
        PROVE  FeedInv'
    <3>1. k \in 1 .. Len(q) /\ q[k] \in db
      BY <1>1
    <3>2. s \o <<q[k]>> \in Seq(db) /\ SubSeq(q, k + 1, Len(q)) \in Seq(db)
      BY <1>1, <3>1
    <3> HIDE DEF q, s
    <3> QED BY <1>1, <2>1, <3>2, DeliverRows
  <2>2. \/ \E k \in DOMAIN q : Deliver(n, s \o <<q[k]>>, SubSeq(q, k + 1, Len(q)))
        \/ Deliver(n, s, << >>)
        \/ Deliver(n, s, q)
    BY <1>4 DEF SendCurrent
  <2>3. << >> \in Seq(db)
    OBVIOUS
  <2> QED BY <1>1, <2>1, <2>2, <2>3, DeliverRows
<1>5. ASSUME receiver[n].queue # << >>,
             Send(n, <<Update("Transaction", Head(receiver[n].queue))>>,
                  [receiver[n] EXCEPT !.queue = Tail(@)])
      PROVE  FeedInv'
  <2> DEFINE r == [receiver[n] EXCEPT !.queue = Tail(@)]
  <2>1. Head(receiver[n].queue) \in db /\ Tail(receiver[n].queue) \in Seq(db)
    BY <1>1, <1>5
  <2>2. <<Update("Transaction", Head(receiver[n].queue))>> \in Seq(Fed(db))
    BY <1>1, <2>1, FedUpdates
  <2>3. r.current \in Seq(db) /\ r.queue \in Seq(db)
    BY <1>1, <2>1 DEF ReceiverType
  <2> HIDE DEF r
  <2> QED BY <1>1, <1>5, <2>2, <2>3, SendRows DEF r
<1>6. CASE Drain(n)
  <2>1. CASE receiver' = [receiver EXCEPT ![n].phase = "digest", ![n].lagged = FALSE]
             /\ wire' = wire
    <3>1. /\ receiver'[n].current = receiver[n].current
          /\ receiver'[n].queue = receiver[n].queue
          /\ \A m \in Nodes \ {n} : receiver'[m] = receiver[m]
      BY <1>1, <2>1 DEF TypeInv, TypeOK, ReceiverType
    <3> QED BY <1>1, <2>1, <3>1 DEF FeedInv
  <2> QED BY <1>5, <1>6, <2>1 DEF Drain
<1>7. CASE SendUpToDate(n)
  <2> DEFINE r == [receiver[n] EXCEPT !.phase = "live"]
  <2>1. <<Update("UpToDate", Digest(chain[Server]))>> \in Seq(Fed(db))
    BY <1>1, FedUpdates, MembersFacts DEF TypeInv, TypeOK
  <2>2. r.current \in Seq(db) /\ r.queue \in Seq(db)
    BY <1>1 DEF ReceiverType
  <2>3. Send(n, <<Update("UpToDate", Digest(chain[Server]))>>, r)
    BY <1>7 DEF SendUpToDate
  <2> HIDE DEF r
  <2> QED BY <1>1, <2>1, <2>2, <2>3, SendRows
<1>8. CASE Forward(n)
  <2>1. CASE Send(n, <<Update("Close", NoBlock)>>, NoReceiver)
    <3>1. NoReceiver.current \in Seq(db) /\ NoReceiver.queue \in Seq(db)
      BY DEF NoReceiver
    <3>2. <<Update("Close", NoBlock)>> \in Seq(Fed(db))
      BY FedUpdates
    <3> QED BY <1>1, <2>1, <3>1, <3>2, SendRows
  <2> QED BY <1>5, <1>8, <2>1 DEF Forward
<1> QED BY <1>2, <1>3, <1>4, <1>6, <1>7, <1>8 DEF FeedStep

\* What a node reads leaves the wire, and a block it takes is a row.
LEMMA FollowStepRows ==
    ASSUME TableInv, FeedInv, NEW n \in Nodes, FollowStep(n)
    PROVE  FeedInv'
<1>1. /\ UNCHANGED <<db, receiver>> /\ TypeInv /\ wire[n] \in Seq(Fed(db))
      /\ pend[n] \in PendType
  BY DEF FollowStep, ReadTransaction, StoreBlock, ApplyBlock, ReadUpToDate,
         ReadClose, serverVars, TableInv, TypeInv, TypeOK, FeedInv
<1>2. \A kind : Reads(n, kind) => Tail(wire[n]) \in Seq(Fed(db))
  BY <1>1 DEF Reads
<1>3. Reads(n, "Transaction") => Head(wire[n]).data \in db
  BY <1>1 DEF Reads, Fed
<1>4. /\ \A m \in Nodes : m = n \/ (wire'[m] = wire[m] /\ pend'[m] = pend[m])
      /\ \/ wire'[n] = wire[n] \/ wire'[n] = << >>
         \/ (\E kind : Reads(n, kind)) /\ wire'[n] = Tail(wire[n])
      /\ \/ pend'[n].stage = "idle"
         \/ pend[n].stage # "idle" /\ pend'[n].block = pend[n].block
         \/ pend'[n] = pend[n]
         \/ Reads(n, "Transaction") /\ pend'[n].block = Head(wire[n]).data
  <2>1. ASSUME EndSession(n)
        PROVE  /\ \A m \in Nodes : m = n \/ (wire'[m] = wire[m] /\ pend'[m] = pend[m])
               /\ wire'[n] = << >> /\ pend'[n].stage = "idle"
    BY <1>1, <2>1, ConstantTypes DEF EndSession, TypeInv, TypeOK
  <2>2. CASE ReadTransaction(n)
    BY <1>1, <2>1, <2>2 DEF ReadTransaction, TypeInv, TypeOK
  <2>3. CASE StoreBlock(n)
    BY <1>1, <2>1, <2>3 DEF StoreBlock, TypeInv, TypeOK, PendType
  <2>4. CASE ApplyBlock(n)
    BY <1>1, <2>1, <2>4, ConstantTypes DEF ApplyBlock, TypeInv, TypeOK
  <2>5. CASE ReadUpToDate(n)
    BY <1>1, <2>1, <2>5 DEF ReadUpToDate, TypeInv, TypeOK
  <2>6. CASE ReadClose(n)
    BY <1>1, <2>1, <2>6 DEF ReadClose
  <2> QED BY <2>2, <2>3, <2>4, <2>5, <2>6 DEF FollowStep
<1>5. wire'[n] \in Seq(Fed(db))
  <2>1. << >> \in Seq(Fed(db))
    OBVIOUS
  <2>2. CASE wire'[n] = wire[n]
    BY <1>1, <2>2
  <2>3. CASE (\E kind : Reads(n, kind)) /\ wire'[n] = Tail(wire[n])
    BY <1>2, <2>3
  <2> QED BY <1>4, <2>1, <2>2, <2>3
<1>6. pend'[n].stage # "idle" => pend'[n].block \in db
  BY <1>3, <1>4 DEF FeedInv
<1> QED BY <1>1, <1>4, <1>5, <1>6 DEF FeedInv

LEMMA StartFields ==
    ASSUME TypeInv, NEW n \in Nodes, Start(n)
    PROVE  /\ receiver'[n].phase = "request"
           /\ receiver'[n].after = Sequence(Replayed(file[n], rows[n]))
           /\ receiver'[n].current = << >> /\ receiver'[n].queue = << >>
           /\ ~receiver'[n].lagged
           /\ \A m \in Nodes \ {n} : receiver'[m] = receiver[m]
<1> DEFINE k == Sequence(Replayed(file[n], rows[n]))
<1>1. receiver' = [receiver EXCEPT ![n] = [NoReceiver EXCEPT !.phase = "request",
                                                             !.after = k]]
  BY DEF Start
<1> HIDE DEF k
<1>2. /\ receiver'[n] = [NoReceiver EXCEPT !.phase = "request", !.after = k]
      /\ \A m \in Nodes \ {n} : receiver'[m] = receiver[m]
  BY <1>1 DEF TypeInv, TypeOK
<1>3. /\ [NoReceiver EXCEPT !.phase = "request", !.after = k].phase = "request"
      /\ [NoReceiver EXCEPT !.phase = "request", !.after = k].after = k
      /\ [NoReceiver EXCEPT !.phase = "request", !.after = k].current = << >>
      /\ [NoReceiver EXCEPT !.phase = "request", !.after = k].queue = << >>
      /\ [NoReceiver EXCEPT !.phase = "request", !.after = k].lagged = FALSE
  BY DEF NoReceiver
<1> QED BY <1>2, <1>3 DEF k

LEMMA NextFeed == TableInv /\ FeedInv /\ [Next]_vars => FeedInv'
<1> SUFFICES ASSUME TableInv, FeedInv, [Next]_vars PROVE FeedInv'
  OBVIOUS
<1>1. /\ TypeInv /\ db \subseteq db' /\ << >> \in Seq(db') /\ << >> \in Seq(Fed(db'))
  BY TableStep DEF TableInv
<1>2. ASSUME NEW c \in Clients, ServerStep(c) PROVE FeedInv'
  <2>1. CASE HandlerPublish(c)
    <3>1. handler[c].block \in db
      BY <2>1 DEF HandlerPublish, TableInv, ServerInv, HandlerInv, Applying
    <3>2. ASSUME NEW n \in Nodes
          PROVE  receiver'[n] = receiver[n] \/ receiver'[n] = Enqueue(receiver[n], handler[c].block)
      BY <2>1 DEF HandlerPublish
    <3>3. ASSUME NEW n \in Nodes
          PROVE  receiver'[n].current \in Seq(db) /\ receiver'[n].queue \in Seq(db)
      BY <1>1, <3>1, <3>2, EnqueueRows, ReceiverFacts DEF FeedInv
    <3> QED BY <2>1, <3>3 DEF HandlerPublish, FeedInv, nodeVars
  <2>2. CASE HandlerCheck(c) \/ HandlerInsert(c) \/ HandlerApply(c)
    BY <1>1, <2>2, FeedFrame
       DEF HandlerCheck, HandlerInsert, HandlerApply, feedVars, nodeVars
  <2> QED BY <1>2, <2>1, <2>2 DEF ServerStep
<1>3. ASSUME NEW c \in Clients, AddStep(c) PROVE FeedInv'
  BY <1>1, <1>3, FeedFrame
     DEF AddStep, PackageAndSend, AddAnswered, AddStore, AddApply, feedVars
<1>4. ASSUME NEW c \in Clients, NEW a \in Agents, Enroll(c, a) PROVE FeedInv'
  BY <1>1, <1>4, FeedFrame DEF Enroll, feedVars
<1>5. ASSUME NEW n \in Nodes, Start(n) PROVE FeedInv'
  <2>1. /\ wire' = [wire EXCEPT ![n] = << >>] /\ UNCHANGED <<pend, db>>
    BY <1>5 DEF Start, serverVars
  <2> QED BY <1>1, <1>5, <2>1, StartFields DEF FeedInv, TypeInv, TypeOK
<1>6. ASSUME NEW n \in Nodes, Save(n) PROVE FeedInv'
  BY <1>1, <1>6, FeedFrame DEF Save, feedVars, nodeVars
<1>7. ASSUME NEW n \in Nodes, Stop(n) PROVE FeedInv'
  <2>1. /\ wire' = [wire EXCEPT ![n] = << >>] /\ UNCHANGED <<receiver, db>>
        /\ pend' = [pend EXCEPT ![n] = Idle]
    BY <1>7 DEF Stop
  <2> QED BY <1>1, <2>1, ConstantTypes DEF FeedInv, TypeInv, TypeOK
<1>8. CASE RestartServer
  <2>1. \A n \in Nodes : /\ receiver'[n] = NoReceiver /\ wire'[n] = << >>
                         /\ pend'[n] = pend[n] \/ pend'[n] = Idle
    BY <1>8 DEF RestartServer
  <2>2. NoReceiver.current = << >> /\ NoReceiver.queue = << >>
    BY DEF NoReceiver
  <2>3. db' = db
    BY <1>8 DEF RestartServer
  <2> QED BY <1>1, <2>1, <2>2, <2>3, ConstantTypes DEF FeedInv
<1>9. CASE UNCHANGED vars
  BY <1>1, <1>9, FeedFrame DEF vars, feedVars, nodeVars
<1> QED
  BY <1>2, <1>3, <1>4, <1>5, <1>6, <1>7, <1>8, <1>9, FeedStepRows, FollowStepRows
     DEF Next

(***************************************************************************)
(* The life cycle of a node.                                               *)
(***************************************************************************)
Up == {"syncing", "ready", "offline"}

Adding(c) == add[c].stage # "idle"

\* A session belongs to a node that runs; while a client adds an agent, the
\* client is ready (or has lost the server) and the agent waits for it alone.
LifeInv ==
    /\ \A n \in Nodes : /\ session[n] = "sync" <=> status[n] = "syncing"
                        /\ session[n] = "live" => status[n] = "ready"
                        /\ pend[n].stage # "idle" => status[n] \in Up
    /\ \A c \in Clients : Adding(c) => /\ status[c] \in {"ready", "offline"}
                                       /\ add[c].agent \in Agents
                                       /\ status[add[c].agent] = "joining"
    /\ \A c, d \in Clients :
           Adding(c) /\ Adding(d) /\ add[c].agent = add[d].agent => c = d

LEMMA InitLife == Init => LifeInv
BY ConstantTypes DEF Init, LifeInv, Adding

LEMMA FollowStepLife ==
    ASSUME TypeInv, LifeInv, NEW n \in Nodes, FollowStep(n)
    PROVE  LifeInv'
<1>1. add' = add /\ n \in DOMAIN status /\ n \in DOMAIN session /\ n \in DOMAIN pend
  BY DEF FollowStep, ReadTransaction, StoreBlock, ApplyBlock, ReadUpToDate,
         ReadClose, TypeInv, TypeOK
<1> DEFINE Others == \A m \in Nodes \ {n} : /\ session'[m] = session[m]
                                            /\ status'[m] = status[m]
                                            /\ pend'[m] = pend[m]
           Ends == /\ session'[n] = "off" /\ pend'[n].stage = "idle"
                   /\ status'[n] = IF session[n] = "sync" THEN "down" ELSE status[n]
           Goes == /\ session'[n] = session[n] /\ status'[n] = status[n]
                   /\ session[n] # "off" \/ pend[n].stage # "idle"
           Gets == /\ session[n] = "sync" /\ pend'[n] = pend[n]
                   /\ session'[n] = "live" /\ status'[n] = "ready"
<1>2. ASSUME EndSession(n) PROVE Others /\ Ends
  BY <1>1, <1>2, ConstantTypes DEF EndSession, TypeInv, TypeOK
<1>3. Others /\ (Ends \/ Goes \/ Gets)
  <2>1. CASE ReadTransaction(n)
    BY <1>1, <1>2, <2>1 DEF ReadTransaction, Reads, TypeInv, TypeOK
  <2>2. CASE StoreBlock(n)
    BY <1>1, <1>2, <2>2 DEF StoreBlock, TypeInv, TypeOK
  <2>3. CASE ApplyBlock(n)
    BY <1>1, <1>2, <2>3, ConstantTypes DEF ApplyBlock, TypeInv, TypeOK
  <2>4. CASE ReadUpToDate(n)
    BY <1>1, <1>2, <2>4 DEF ReadUpToDate, TypeInv, TypeOK
  <2>5. CASE ReadClose(n)
    BY <1>2, <2>5 DEF ReadClose
  <2> QED BY <2>1, <2>2, <2>3, <2>4, <2>5 DEF FollowStep
<1>4. session[n] \in {"off", "sync", "live"}
  BY DEF TypeInv, TypeOK
<1>5. status'[n] # status[n] => status[n] = "syncing"
  BY <1>3, <1>4 DEF LifeInv
<1> HIDE DEF Others
<1>6. \A m \in Nodes : /\ session'[m] = "sync" <=> status'[m] = "syncing"
                       /\ session'[m] = "live" => status'[m] = "ready"
                       /\ pend'[m].stage # "idle" => status'[m] \in Up
  BY <1>3, <1>4 DEF LifeInv, Up, Others
<1>7. \A m \in Nodes : status[m] \in {"ready", "offline", "joining"} => status'[m] = status[m]
  BY <1>3, <1>5 DEF Others
<1> QED BY <1>1, <1>6, <1>7, MembersFacts DEF LifeInv, Adding

\* The agent of an add that ends: told Ok, or given up.
LEMMA AddEndsLife ==
    ASSUME TypeInv, LifeInv, NEW c \in Clients, Adding(c),
           NEW s \in {"failed", "down"},
           add' = [add EXCEPT ![c] = NoAdd],
           status' = [status EXCEPT ![add[c].agent] = s],
           UNCHANGED <<session, pend>>
    PROVE  LifeInv'
<1> DEFINE a == add[c].agent
<1>1. /\ a \in Agents /\ a \in Nodes /\ status[a] = "joining"
  BY MembersFacts DEF LifeInv
<1>2. /\ status'[a] = s /\ \A m \in Nodes \ {a} : status'[m] = status[m]
  BY <1>1 DEF TypeInv, TypeOK
<1>3. /\ add'[c].stage = "idle" /\ \A d \in Clients \ {c} : add'[d] = add[d]
  BY ConstantTypes DEF TypeInv, TypeOK
<1> HIDE DEF a
<1>4. \A d \in Clients : Adding(d) => status[d] \in {"ready", "offline"}
  BY DEF LifeInv
<1>5. \A d \in Clients \ {c} : Adding(d) => add[d].agent # a
  BY DEF LifeInv, a
<1>6. \A m \in Nodes : /\ session'[m] = "sync" <=> status'[m] = "syncing"
                       /\ session'[m] = "live" => status'[m] = "ready"
                       /\ pend'[m].stage # "idle" => status'[m] \in Up
  BY <1>1, <1>2 DEF LifeInv, Up
<1>7. \A d \in Clients : Adding(d)' => /\ d # c /\ Adding(d) /\ add'[d] = add[d]
                                       /\ status'[d] = status[d]
                                       /\ status'[add[d].agent] = "joining"
  BY <1>1, <1>2, <1>3, <1>4, <1>5, MembersFacts DEF Adding, LifeInv
<1> QED BY <1>6, <1>7 DEF LifeInv

LEMMA AddStepLife ==
    ASSUME TypeInv, LifeInv, NEW c \in Clients, AddStep(c)
    PROVE  LifeInv'
<1>1. UNCHANGED <<session, pend>> /\ Adding(c)
  BY DEF AddStep, PackageAndSend, AddAnswered, AddStore, AddApply, Adding
<1>2. CASE AddFails(c)
  BY <1>1, <1>2, AddEndsLife DEF AddFails
<1>3. CASE ~AddFails(c) /\ ~AddApply(c)
  <2>1. /\ status' = status /\ add'[c].agent = add[c].agent
        /\ \A d \in Clients \ {c} : add'[d] = add[d]
    BY <1>3 DEF AddStep, PackageAndSend, AddAnswered, AddStore, TypeInv, TypeOK,
                AddType
  <2> QED BY <1>1, <2>1 DEF LifeInv, Adding
<1>4. CASE ~AddFails(c) /\ AddApply(c)
  BY <1>1, <1>4, AddEndsLife DEF AddApply
<1> QED BY <1>2, <1>3, <1>4

LEMMA EnrollLife ==
    ASSUME TypeInv, LifeInv, NEW c \in Clients, NEW a \in Agents, Enroll(c, a)
    PROVE  LifeInv'
<1>1. /\ status[a] = "new" /\ status[c] = "ready" /\ a \in Nodes /\ c \in Nodes
      /\ UNCHANGED <<session, pend>>
  BY MembersFacts DEF Enroll
<1>2. /\ status'[a] = "joining" /\ \A m \in Nodes \ {a} : status'[m] = status[m]
      /\ add'[c].agent = a /\ \A d \in Clients \ {c} : add'[d] = add[d]
  BY <1>1 DEF Enroll, TypeInv, TypeOK
<1>3. \A d \in Clients \ {c} : Adding(d)' => /\ Adding(d) /\ d # a /\ add[d].agent # a
                                             /\ add[d].agent \in Nodes
  BY <1>1, <1>2, MembersFacts DEF Adding, LifeInv
<1>4. \A m \in Nodes : /\ session'[m] = "sync" <=> status'[m] = "syncing"
                       /\ session'[m] = "live" => status'[m] = "ready"
                       /\ pend'[m].stage # "idle" => status'[m] \in Up
  BY <1>1, <1>2 DEF LifeInv, Up
<1>5. \A d \in Clients : Adding(d)' => /\ status'[d] \in {"ready", "offline"}
                                       /\ add'[d].agent \in Agents
                                       /\ status'[add'[d].agent] = "joining"
  BY <1>1, <1>2, <1>3, MembersFacts DEF LifeInv
<1>6. \A d, e \in Clients :
          Adding(d)' /\ Adding(e)' /\ add'[d].agent = add'[e].agent => d = e
  BY <1>2, <1>3 DEF LifeInv
<1> QED BY <1>4, <1>5, <1>6 DEF LifeInv

LEMMA StopLife ==
    ASSUME TypeInv, LifeInv, NEW n \in Nodes, Stop(n)
    PROVE  LifeInv'
<1>1. /\ status[n] \in Up /\ session'[n] = "off" /\ pend'[n].stage = "idle"
      /\ \A m \in Nodes \ {n} : session'[m] = session[m] /\ pend'[m] = pend[m]
  BY ConstantTypes DEF Stop, Up, TypeInv, TypeOK
<1>2. \A c \in Clients : Adding(c) => add[c].agent # n /\ add[c].agent \in Nodes
  BY <1>1, MembersFacts DEF LifeInv, Up
<1>3. CASE n \in Clients /\ Adding(n)
  <2> DEFINE a == add[n].agent
  <2>1. /\ add' = [add EXCEPT ![n] = NoAdd]
        /\ status' = [status EXCEPT ![n] = "down", ![a] = "failed"]
    BY <1>3 DEF Stop, Adding
  <2>2. a \in Agents /\ a # n /\ a \in Nodes /\ status[a] = "joining"
    BY <1>2, <1>3 DEF LifeInv
  <2>3. add'[n].stage = "idle" /\ \A d \in Clients \ {n} : add'[d] = add[d]
    BY <1>3, <2>1, ConstantTypes DEF TypeInv, TypeOK
  <2> HIDE DEF a
  <2>4. /\ status'[n] = "down" /\ status'[a] = "failed"
        /\ \A m \in Nodes \ {n, a} : status'[m] = status[m]
    BY <2>1, <2>2 DEF TypeInv, TypeOK
  <2>5. \A d \in Clients \ {n} : Adding(d) => add[d].agent # a /\ d # a
    BY <1>3, <2>2, MembersFacts, ConstantsAssumption DEF LifeInv, a
  <2>6. \A m \in Nodes : /\ session'[m] = "sync" <=> status'[m] = "syncing"
                         /\ session'[m] = "live" => status'[m] = "ready"
                         /\ pend'[m].stage # "idle" => status'[m] \in Up
    BY <1>1, <2>2, <2>4 DEF LifeInv, Up
  <2>7. \A d \in Clients : Adding(d)' => /\ d # n /\ Adding(d) /\ add'[d] = add[d]
                                         /\ status'[d] = status[d]
                                         /\ status'[add[d].agent] = "joining"
    BY <1>2, <2>3, <2>4, <2>5, MembersFacts DEF Adding, LifeInv
  <2> QED BY <2>6, <2>7 DEF LifeInv
<1>4. CASE ~(n \in Clients /\ Adding(n))
  <2>1. /\ add' = add /\ status' = [status EXCEPT ![n] = "down"]
    BY <1>4 DEF Stop, Adding
  <2>2. status'[n] = "down" /\ \A m \in Nodes \ {n} : status'[m] = status[m]
    BY <2>1 DEF TypeInv, TypeOK
  <2>3. \A m \in Nodes : /\ session'[m] = "sync" <=> status'[m] = "syncing"
                         /\ session'[m] = "live" => status'[m] = "ready"
                         /\ pend'[m].stage # "idle" => status'[m] \in Up
    BY <1>1, <2>2 DEF LifeInv, Up
  <2>4. \A d \in Clients : Adding(d)' => /\ d # n /\ Adding(d) /\ add'[d] = add[d]
                                         /\ status'[d] = status[d]
                                         /\ status'[add[d].agent] = "joining"
    BY <1>2, <1>4, <2>1, <2>2, MembersFacts DEF Adding, LifeInv
  <2> QED BY <2>3, <2>4 DEF LifeInv
<1> QED BY <1>3, <1>4

LEMMA RestartServerLife ==
    ASSUME TypeInv, LifeInv, RestartServer
    PROVE  LifeInv'
<1> DEFINE syncing == {n \in Nodes : session[n] = "sync"}
           waiting == {c \in Clients : add[c].stage = "sent"}
<1>1. /\ \A n \in Nodes : pend'[n] = IF n \in syncing THEN Idle ELSE pend[n]
      /\ \A c \in Clients : add'[c] = IF c \in waiting THEN NoAdd ELSE add[c]
      /\ \A n \in Nodes : status'[n] =
            IF n \in syncing THEN "down"
            ELSE IF status[n] = "ready" THEN "offline"
            ELSE IF \E c \in waiting : add[c].agent = n THEN "failed" ELSE status[n]
      /\ \A n \in Nodes : session'[n] = "off"
  BY DEF RestartServer
<1>2. \A c \in waiting : Adding(c) /\ status[add[c].agent] = "joining"
  BY DEF Adding, LifeInv
<1>3. \A n \in Nodes : status'[n] # "syncing"
  BY <1>1, <1>2 DEF LifeInv
<1>4. \A n \in Nodes : pend'[n].stage # "idle" => status'[n] \in Up
  BY <1>1, <1>2, ConstantTypes DEF LifeInv, Up
<1>5. \A d \in Clients : Adding(d)' => d \notin waiting /\ Adding(d) /\ add'[d] = add[d]
  BY <1>1, ConstantTypes DEF Adding
<1>6. \A d \in Clients : Adding(d)' => /\ status'[d] \in {"ready", "offline"}
                                       /\ status'[add[d].agent] = "joining"
  <2> SUFFICES ASSUME NEW d \in Clients, Adding(d)'
               PROVE  /\ status'[d] \in {"ready", "offline"}
                      /\ status'[add[d].agent] = "joining"
    OBVIOUS
  <2>1. /\ d \in Nodes /\ status[d] \in {"ready", "offline"}
        /\ add[d].agent \in Nodes /\ status[add[d].agent] = "joining"
    BY <1>5, MembersFacts DEF LifeInv
  <2>2. d \notin syncing /\ add[d].agent \notin syncing
    BY <2>1 DEF LifeInv
  <2>3. ~ \E c \in waiting : add[c].agent = d
    BY <1>2, <2>1
  <2>4. ~ \E c \in waiting : add[c].agent = add[d].agent
    BY <1>2, <1>5 DEF LifeInv
  <2> HIDE DEF syncing, waiting
  <2> QED BY <1>1, <2>1, <2>2, <2>3, <2>4
<1> QED BY <1>1, <1>3, <1>4, <1>5, <1>6 DEF LifeInv

LEMMA NextLife == TypeInv /\ LifeInv /\ [Next]_vars => LifeInv'
<1> SUFFICES ASSUME TypeInv, LifeInv, [Next]_vars PROVE LifeInv'
  OBVIOUS
<1>1. CASE UNCHANGED <<session, status, pend, add>>
  BY <1>1 DEF LifeInv, Adding
<1>2. ASSUME NEW c \in Clients, ServerStep(c) PROVE LifeInv'
  BY <1>1, <1>2 DEF ServerStep, HandlerCheck, HandlerInsert, HandlerPublish,
                    HandlerApply, nodeVars
<1>3. ASSUME NEW n \in Nodes, FeedStep(n) PROVE LifeInv'
  BY <1>1, <1>3
     DEF FeedStep, Subscribe, Select, SendCurrent, Drain, SendUpToDate, Forward,
         nodeVars
<1>4. ASSUME NEW n \in Nodes, Start(n) PROVE LifeInv'
  <2>1. /\ status[n] = "down" /\ UNCHANGED <<pend, add>>
        /\ status'[n] = "syncing" /\ session'[n] = "sync"
        /\ \A m \in Nodes \ {n} : status'[m] = status[m] /\ session'[m] = session[m]
    BY <1>4 DEF Start, TypeInv, TypeOK
  <2>2. \A m \in Nodes : /\ session'[m] = "sync" <=> status'[m] = "syncing"
                         /\ session'[m] = "live" => status'[m] = "ready"
                         /\ pend'[m].stage # "idle" => status'[m] \in Up
    BY <2>1 DEF LifeInv, Up
  <2>3. \A m \in Nodes : status[m] # "down" => status'[m] = status[m]
    BY <2>1
  <2> QED BY <2>1, <2>2, <2>3, MembersFacts DEF LifeInv, Adding
<1>5. ASSUME NEW n \in Nodes, Save(n) PROVE LifeInv'
  BY <1>1, <1>5 DEF Save, nodeVars
<1>6. CASE UNCHANGED vars
  BY <1>1, <1>6 DEF vars, nodeVars
<1> QED
  BY <1>2, <1>3, <1>4, <1>5, <1>6, FollowStepLife, AddStepLife, EnrollLife,
     StopLife, RestartServerLife DEF Next

(***************************************************************************)
(* The block of an add: at the client, at the server, in the answer.       *)
(***************************************************************************)
BlockInvOf(c) ==
    /\ add[c].stage \in {"sent", "confirmed", "stored"} =>
           Transaction(add[c].block) = add[c].agent
    /\ add[c].stage \in {"confirmed", "stored"} => add[c].block \in db
    /\ add[c].stage = "sent" /\ handler[c].stage # "idle" =>
           handler[c].block = add[c].block
    /\ reply[c] # "none" => add[c].stage = "sent" /\ handler[c].stage = "idle"
    /\ reply[c] = "ok" => add[c].block \in db

\* A client is answered Ok only when its own block is a row of the table.
BlockInv == \A c \in Clients : BlockInvOf(c)

LEMMA InitBlock == Init => BlockInv
BY ConstantTypes DEF Init, BlockInv, BlockInvOf

LEMMA BlockFrame ==
    ASSUME BlockInv, NEW c \in Clients, db \subseteq db',
           add'[c] = add[c], handler'[c] = handler[c], reply'[c] = reply[c]
    PROVE  BlockInvOf(c)'
BY DEF BlockInv, BlockInvOf

\* An add that is not under way.
LEMMA BlockNoAdd ==
    ASSUME NEW c \in Clients, add'[c] = NoAdd, reply'[c] = "none"
    PROVE  BlockInvOf(c)'
BY ConstantTypes DEF BlockInvOf

LEMMA ServerStepBlock ==
    ASSUME TableInv, BlockInv, NEW c \in Clients, ServerStep(c), db \subseteq db'
    PROVE  BlockInv'
<1>1. /\ add' = add /\ handler[c].stage # "idle" /\ TypeInv
      /\ \A d \in Clients \ {c} : handler'[d] = handler[d] /\ reply'[d] = reply[d]
  BY DEF ServerStep, HandlerCheck, HandlerInsert, HandlerPublish, HandlerApply,
         Answer, TableInv, TypeInv, TypeOK
<1>2. \A d \in Clients \ {c} : BlockInvOf(d)'
  BY <1>1, BlockFrame
<1>3. reply[c] = "none"
  BY <1>1 DEF BlockInv, BlockInvOf
<1> DEFINE Moves == /\ handler'[c].block = handler[c].block
                    /\ reply' = reply
           Fails == /\ handler'[c].stage = "idle"
                    /\ reply'[c] = IF add[c].stage = "sent" THEN "err" ELSE reply[c]
           Done  == /\ handler'[c].stage = "idle" /\ handler[c].block \in db
                    /\ reply'[c] = IF add[c].stage = "sent" THEN "ok" ELSE reply[c]
<1>4. Moves \/ Fails \/ Done
  <2>1. CASE HandlerCheck(c)
    BY <1>1, <2>1, ConstantTypes DEF HandlerCheck, Answer, TypeInv, TypeOK, HandlerType
  <2>2. CASE HandlerInsert(c)
    BY <1>1, <2>2, ConstantTypes DEF HandlerInsert, Answer, TypeInv, TypeOK, HandlerType
  <2>3. CASE HandlerPublish(c)
    BY <1>1, <2>3, ConstantTypes DEF HandlerPublish, Answer, TypeInv, TypeOK, HandlerType
  <2>4. CASE HandlerApply(c)
    <3>1. handler[c].block \in db
      BY <2>4 DEF HandlerApply, TableInv, ServerInv, HandlerInv, Applying
    <3>2. handler'[c].stage = "idle"
      BY <2>4, ConstantTypes, <1>1 DEF HandlerApply, TypeInv, TypeOK
    <3>3. \/ reply'[c] = IF add[c].stage = "sent" THEN "err" ELSE reply[c]
          \/ reply'[c] = IF add[c].stage = "sent" THEN "ok" ELSE reply[c]
      BY <2>4, <1>1 DEF HandlerApply, Answer, TypeInv, TypeOK
    <3> QED BY <3>1, <3>2, <3>3
  <2> QED BY <2>1, <2>2, <2>3, <2>4 DEF ServerStep
<1>5. BlockInvOf(c)
  BY DEF BlockInv
<1>6. BlockInvOf(c)'
  <2>1. CASE Moves
    BY <1>1, <1>3, <1>5, <2>1 DEF BlockInvOf
  <2>2. CASE Fails
    BY <1>1, <1>3, <1>5, <2>2 DEF BlockInvOf
  <2>3. CASE Done
    BY <1>1, <1>3, <1>5, <2>3 DEF BlockInvOf
  <2> QED BY <1>4, <2>1, <2>2, <2>3
<1> QED BY <1>2, <1>6 DEF BlockInv

LEMMA AddStepBlock ==
    ASSUME TableInv, BlockInv, NEW c \in Clients, AddStep(c), db' = db
    PROVE  BlockInv'
<1>1. /\ TypeInv /\ add[c] \in AddType /\ handler[c] \in HandlerType
      /\ BlockInvOf(c)
      /\ \A d \in Clients \ {c} : /\ add'[d] = add[d] /\ handler'[d] = handler[d]
                                  /\ reply'[d] = reply[d]
  BY DEF AddStep, PackageAndSend, AddAnswered, AddStore, AddApply, AddFails,
         serverVars, TableInv, TypeInv, TypeOK, BlockInv
<1>2. \A d \in Clients \ {c} : BlockInvOf(d)'
  BY <1>1, BlockFrame
<1>3. ASSUME AddFails(c) PROVE add'[c] = NoAdd
  BY <1>1, <1>3 DEF AddFails, TypeInv, TypeOK
<1>4. BlockInvOf(c)'
  <2>1. CASE PackageAndSend(c)
    <3>1. add[c].stage = "exported" /\ reply'[c] = reply[c] /\ reply[c] = "none"
      BY <1>1, <2>1 DEF PackageAndSend, BlockInvOf
    <3>2. CASE AddFails(c)
      BY <1>3, <3>1, <3>2, BlockNoAdd
    <3>3. CASE ~AddFails(c)
      <4> DEFINE block == Package(chain[c], add[c].agent)
      <4>1. /\ add' = [add EXCEPT ![c].stage = "sent", ![c].block = block]
            /\ handler' = [handler EXCEPT ![c] = [stage |-> "received",
                                                  block |-> block]]
        BY <2>1, <3>3 DEF PackageAndSend
      <4>2. Transaction(block) = add[c].agent
        <5>1. chain[c].last \in Seq(Certs) /\ add[c].agent \in Certs
          BY <1>1, NodeFacts, AddFacts, MembersFacts DEF Block
        <5> QED BY <5>1 DEF Package, Transaction
      <4> HIDE DEF block
      <4>3. /\ add'[c].stage = "sent" /\ add'[c].block = block
            /\ add'[c].agent = add[c].agent /\ handler'[c].block = block
        BY <1>1, <4>1 DEF TypeInv, TypeOK, AddType
      <4> QED BY <3>1, <4>2, <4>3 DEF BlockInvOf
    <3> QED BY <3>2, <3>3
  <2>2. CASE AddAnswered(c)
    <3>1. reply'[c] = "none" /\ add[c].stage = "sent" /\ handler' = handler
      BY <1>1, <2>2 DEF AddAnswered, TypeInv, TypeOK
    <3>2. CASE AddFails(c)
      BY <1>3, <3>1, <3>2, BlockNoAdd
    <3>3. CASE ~AddFails(c)
      <4>1. /\ reply[c] = "ok" /\ add'[c].stage = "confirmed"
            /\ add'[c].block = add[c].block /\ add'[c].agent = add[c].agent
        BY <1>1, <2>2, <3>3 DEF AddAnswered, TypeInv, TypeOK, AddType
      <4> QED BY <1>1, <3>1, <4>1 DEF BlockInvOf
    <3> QED BY <3>2, <3>3
  <2>3. CASE AddStore(c)
    <3>1. add[c].stage = "confirmed" /\ reply'[c] = reply[c] /\ reply[c] = "none"
      BY <1>1, <2>3 DEF AddStore, BlockInvOf, serverVars
    <3>2. CASE AddFails(c)
      BY <1>3, <3>1, <3>2, BlockNoAdd
    <3>3. CASE ~AddFails(c)
      <4>1. /\ add'[c].stage = "stored"
            /\ add'[c].block = add[c].block /\ add'[c].agent = add[c].agent
        BY <1>1, <2>3, <3>3 DEF AddStore, TypeInv, TypeOK, AddType
      <4> QED BY <1>1, <3>1, <4>1 DEF BlockInvOf
    <3> QED BY <3>2, <3>3
  <2>4. CASE AddApply(c)
    <3>1. add[c].stage = "stored" /\ reply'[c] = reply[c] /\ reply[c] = "none"
      BY <1>1, <2>4 DEF AddApply, BlockInvOf, serverVars
    <3>2. add'[c] = NoAdd
      BY <1>1, <1>3, <2>4 DEF AddApply, TypeInv, TypeOK
    <3> QED BY <3>1, <3>2, BlockNoAdd
  <2> QED BY <2>1, <2>2, <2>3, <2>4 DEF AddStep
<1> QED BY <1>2, <1>4 DEF BlockInv

LEMMA NextBlock == TableInv /\ BlockInv /\ [Next]_vars => BlockInv'
<1> SUFFICES ASSUME TableInv, BlockInv, [Next]_vars PROVE BlockInv'
  OBVIOUS
<1>1. db \subseteq db' /\ TypeInv
  BY TableStep DEF TableInv
<1>2. CASE UNCHANGED <<add, handler, reply>>
  BY <1>1, <1>2, BlockFrame DEF BlockInv
<1>3. ASSUME NEW c \in Clients, AddStep(c) PROVE BlockInv'
  <2>1. db' = db
    BY <1>3 DEF AddStep, PackageAndSend, AddAnswered, AddStore, AddApply, serverVars
  <2> QED BY <1>3, <2>1, AddStepBlock
<1>4. ASSUME NEW c \in Clients, NEW a \in Agents, Enroll(c, a) PROVE BlockInv'
  <2>1. /\ UNCHANGED <<handler, reply>> /\ add[c].stage = "idle"
        /\ add'[c].stage = "exported"
        /\ \A d \in Clients \ {c} : add'[d] = add[d]
    BY <1>1, <1>4 DEF Enroll, serverVars, TypeInv, TypeOK
  <2>2. \A d \in Clients \ {c} : BlockInvOf(d)'
    BY <1>1, <2>1, BlockFrame
  <2>3. BlockInvOf(c)'
    BY <2>1 DEF BlockInv, BlockInvOf
  <2> QED BY <2>2, <2>3 DEF BlockInv
<1>5. ASSUME NEW n \in Nodes, FeedStep(n) PROVE BlockInv'
  BY <1>2, <1>5
     DEF FeedStep, Subscribe, Select, SendCurrent, Drain, SendUpToDate, Forward,
         serverVars
<1>6. ASSUME NEW n \in Nodes, FollowStep(n) PROVE BlockInv'
  BY <1>2, <1>6
     DEF FollowStep, ReadTransaction, StoreBlock, ApplyBlock, ReadUpToDate,
         ReadClose, serverVars
<1>7. ASSUME NEW n \in Nodes, Start(n) \/ Save(n) PROVE BlockInv'
  BY <1>2, <1>7 DEF Start, Save, serverVars
<1>8. ASSUME NEW n \in Nodes, Stop(n) PROVE BlockInv'
  <2>1. handler' = handler /\ \A c \in Clients : \/ add'[c] = add[c] /\ reply'[c] = reply[c]
                                                 \/ add'[c] = NoAdd /\ reply'[c] = "none"
    BY <1>1, <1>8 DEF Stop, TypeInv, TypeOK
  <2> QED BY <1>1, <2>1, BlockFrame, BlockNoAdd DEF BlockInv
<1>9. CASE RestartServer
  <2>1. \A c \in Clients : /\ handler'[c] = Idle /\ reply'[c] = "none"
                           /\ \/ add'[c] = NoAdd
                              \/ add'[c] = add[c] /\ add[c].stage # "sent"
    BY <1>9 DEF RestartServer
  <2>2. ASSUME NEW c \in Clients PROVE BlockInvOf(c)'
    <3>1. CASE add'[c] = NoAdd
      BY <2>1, <3>1, BlockNoAdd
    <3>2. CASE add'[c] = add[c] /\ add[c].stage # "sent"
      BY <1>1, <2>1, <3>2 DEF BlockInv, BlockInvOf
    <3> QED BY <2>1, <3>1, <3>2
  <2> QED BY <2>2 DEF BlockInv
<1>10. CASE UNCHANGED vars
  BY <1>2, <1>10 DEF vars, serverVars
<1> QED
  BY <1>1, <1>3, <1>4, <1>5, <1>6, <1>7, <1>8, <1>9, <1>10, ServerStepBlock DEF Next

(***************************************************************************)
(* The table of a node.                                                    *)
(***************************************************************************)
\* It is the server's table up to the sequence that the node has reached.
RowsInv ==
    \A n \in Nodes : /\ cur[n] \in Nat \ {0}
                     /\ cur[n] = 1 \/ HasRow(db, cur[n])
                     /\ rows[n] = {b \in db : Sequence(b) <= cur[n]}

LEMMA InitRows == Init => RowsInv
BY DEF Init, RowsInv

LEMMA RowsGapless ==
    ASSUME TableInv, RowsInv, NEW n \in Nodes
    PROVE  Gapless(rows[n], cur[n])
<1>1. /\ cur[n] \in Nat \ {0}
      /\ cur[n] = 1 \/ HasRow(db, cur[n])
      /\ rows[n] = {b \in db : Sequence(b) <= cur[n]} /\ IsTable(rows[n])
  BY DEF RowsInv, TableInv, TypeInv
<1>2. /\ \A b \in db : Sequence(b) \in Nat /\ Sequence(b) >= 2
      /\ \A b, d \in db : Sequence(b) = Sequence(d) => b = d
  BY LoggedFacts DEF TableInv
<1>3. ASSUME NEW k \in 2 .. cur[n] PROVE HasRow(rows[n], k)
  <2>1. PICK b \in db : Sequence(b) = cur[n]
    BY <1>1 DEF HasRow
  <2>2. HasRow(db, k)
    BY <2>1 DEF TableInv, LogInv, NoGaps
  <2> QED BY <1>1, <2>2 DEF HasRow
<1>4. \A b \in rows[n] : Sequence(b) \in 2 .. cur[n]
  BY <1>1, <1>2
<1>5. \A b, d \in rows[n] : Sequence(b) = Sequence(d) => b = d
  BY <1>1, <1>2
<1> QED BY <1>1, <1>3, <1>4, <1>5 DEF Gapless

\* current_sequence is read again from the table when the node starts.
LEMMA MaxSequenceIsCur ==
    ASSUME TableInv, RowsInv, NEW n \in Nodes
    PROVE  MaxSequence(rows[n]) = cur[n]
<1>1. /\ cur[n] \in Nat \ {0} /\ IsTable(rows[n])
      /\ \A b \in rows[n] : Sequence(b) \in 2 .. cur[n]
      /\ \A k \in 2 .. cur[n] : HasRow(rows[n], k)
  BY RowsGapless DEF Gapless
<1>2. CASE rows[n] = {}
  <2>1. cur[n] = 1
    BY <1>1, <1>2 DEF HasRow
  <2> QED BY <1>2, <2>1 DEF MaxSequence
<1>3. CASE rows[n] # {}
  <2>1. /\ \E b \in rows[n] : Sequence(b) = MaxSequence(rows[n])
        /\ \A b \in rows[n] : Sequence(b) <= MaxSequence(rows[n])
    BY <1>1, <1>3, MaxSequenceIsNewest
  <2>2. MaxSequence(rows[n]) \in 2 .. cur[n]
    BY <1>1, <2>1
  <2>3. HasRow(rows[n], cur[n])
    BY <1>1, <2>2
  <2> QED BY <1>1, <2>1, <2>2, <2>3 DEF HasRow
<1> QED BY <1>2, <1>3

LEMMA RowsFrame ==
    ASSUME TableInv, RowsInv, [Next]_vars, UNCHANGED <<rows, cur>>
    PROVE  RowsInv'
<1>1. /\ db \subseteq db'
      /\ \A b \in db' : b \notin db => \A d \in Logged : Sequence(d) < Sequence(b)
  BY TableStep
<1>2. \A b \in db' : Sequence(b) \in Nat
  BY NextType, BlockFacts DEF TableInv, TypeInv, TypeOK
<1> SUFFICES ASSUME NEW n \in Nodes
             PROVE  /\ cur[n] \in Nat \ {0}
                    /\ cur[n] = 1 \/ HasRow(db', cur[n])
                    /\ rows[n] = {b \in db' : Sequence(b) <= cur[n]}
  BY DEF RowsInv
<1>3. /\ cur[n] \in Nat \ {0}
      /\ cur[n] = 1 \/ HasRow(db, cur[n])
      /\ rows[n] = {b \in db : Sequence(b) <= cur[n]}
  BY DEF RowsInv
<1>4. \E d \in Logged : Sequence(d) = cur[n]
  BY <1>3, LoggedFacts DEF HasRow, TableInv
<1>5. \A b \in db' : Sequence(b) <= cur[n] => b \in db
  BY <1>1, <1>2, <1>3, <1>4
<1>6. HasRow(db, cur[n]) => HasRow(db', cur[n])
  BY <1>1 DEF HasRow
<1>7. rows[n] = {b \in db' : Sequence(b) <= cur[n]}
  BY <1>1, <1>3, <1>5
<1> QED BY <1>3, <1>6, <1>7

\* What a row that the node's table takes leaves: no change, or one row more.
LEMMA TableAddRows ==
    ASSUME TableInv, RowsInv, NEW n \in Nodes, NEW b \in db,
           TableAccepts(rows[n], cur[n], b), TableAdd(n, b)
    PROVE  /\ \A m \in Nodes \ {n} : rows'[m] = rows[m] /\ cur'[m] = cur[m]
           /\ rows'[n] = rows[n] \cup {b}
           /\ \/ cur'[n] = cur[n] /\ b \in rows[n] /\ rows'[n] = rows[n]
              \/ cur'[n] = cur[n] + 1 /\ Sequence(b) = cur[n] + 1
<1>1. /\ cur[n] \in Nat /\ Sequence(b) \in Nat
  BY LoggedFacts DEF RowsInv, TableInv
<1>2. /\ rows'[n] = rows[n] \cup {b} /\ cur'[n] = Max({cur[n], Sequence(b)})
      /\ \A m \in Nodes \ {n} : rows'[m] = rows[m] /\ cur'[m] = cur[m]
  BY DEF TableAdd, TableInv, TypeInv, TypeOK
<1>3. /\ Sequence(b) <= cur[n] + 1
      /\ Sequence(b) <= cur[n] => b \in rows[n]
  BY DEF TableAccepts
<1>4. CASE Sequence(b) <= cur[n]
  <2>1. Max({cur[n], Sequence(b)}) = cur[n]
    BY <1>1, <1>4 DEF Max
  <2> QED BY <1>2, <1>3, <1>4, <2>1
<1>5. CASE Sequence(b) = cur[n] + 1
  <2>1. Max({cur[n], Sequence(b)}) = Sequence(b)
    BY <1>1, <1>5 DEF Max
  <2> QED BY <1>2, <1>5, <2>1
<1> QED BY <1>1, <1>3, <1>4, <1>5

LEMMA TableAddInv ==
    ASSUME TableInv, RowsInv, NEW n \in Nodes, NEW b \in db, db' = db,
           TableAccepts(rows[n], cur[n], b), TableAdd(n, b)
    PROVE  RowsInv'
<1>1. /\ \A m \in Nodes \ {n} : rows'[m] = rows[m] /\ cur'[m] = cur[m]
      /\ rows'[n] = rows[n] \cup {b}
      /\ \/ cur'[n] = cur[n] /\ b \in rows[n] /\ rows'[n] = rows[n]
         \/ cur'[n] = cur[n] + 1 /\ Sequence(b) = cur[n] + 1
  BY TableAddRows
<1>2. /\ \A d \in db : Sequence(d) \in Nat
      /\ \A d \in db : Sequence(d) = Sequence(b) => d = b
  BY LoggedFacts DEF TableInv
<1>3. /\ cur[n] \in Nat \ {0} /\ rows[n] = {d \in db : Sequence(d) <= cur[n]}
      /\ cur[n] = 1 \/ HasRow(db, cur[n])
  BY DEF RowsInv
<1>4. CASE cur'[n] = cur[n] /\ rows'[n] = rows[n]
  BY <1>1, <1>4 DEF RowsInv
<1>5. CASE cur'[n] = cur[n] + 1 /\ Sequence(b) = cur[n] + 1
  <2>1. rows'[n] = {d \in db : Sequence(d) <= cur'[n]}
    BY <1>1, <1>2, <1>3, <1>5
  <2>2. HasRow(db, cur'[n]) /\ cur'[n] \in Nat \ {0}
    BY <1>3, <1>5 DEF HasRow
  <2> QED BY <1>1, <2>1, <2>2 DEF RowsInv
<1> QED BY <1>1, <1>4, <1>5

LEMMA NextRows ==
    TableInv /\ FeedInv /\ BlockInv /\ RowsInv /\ [Next]_vars => RowsInv'
<1> SUFFICES ASSUME TableInv, FeedInv, BlockInv, RowsInv, [Next]_vars
             PROVE  RowsInv'
  OBVIOUS
<1>1. CASE UNCHANGED <<rows, cur>>
  BY <1>1, RowsFrame
<1>2. ASSUME NEW c \in Clients, ServerStep(c) PROVE RowsInv'
  BY <1>1, <1>2 DEF ServerStep, HandlerCheck, HandlerInsert, HandlerPublish,
                    HandlerApply, nodeVars, diskVars
<1>3. ASSUME NEW n \in Nodes, FeedStep(n) PROVE RowsInv'
  BY <1>1, <1>3
     DEF FeedStep, Subscribe, Select, SendCurrent, Drain, SendUpToDate, Forward,
         nodeVars, diskVars
<1>4. ASSUME NEW c \in Clients, AddStep(c) PROVE RowsInv'
  <2>1. CASE AddStore(c)
    <3>1. c \in Nodes /\ add[c].block \in db /\ db' = db
      BY <2>1, MembersFacts DEF AddStore, BlockInv, BlockInvOf, serverVars
    <3>2. CASE TableAccepts(rows[c], cur[c], add[c].block)
      BY <2>1, <3>1, <3>2, TableAddInv DEF AddStore
    <3>3. CASE ~TableAccepts(rows[c], cur[c], add[c].block)
      BY <1>1, <2>1, <3>3 DEF AddStore
    <3> QED BY <3>2, <3>3
  <2> QED BY <1>1, <1>4, <2>1
          DEF AddStep, PackageAndSend, AddAnswered, AddApply, diskVars
<1>5. ASSUME NEW c \in Clients, NEW a \in Agents, Enroll(c, a) PROVE RowsInv'
  BY <1>1, <1>5 DEF Enroll, diskVars
<1>6. ASSUME NEW n \in Nodes, FollowStep(n) PROVE RowsInv'
  <2>1. CASE StoreBlock(n)
    <3>1. pend[n].block \in db /\ db' = db
      BY <2>1 DEF StoreBlock, FeedInv, serverVars
    <3>2. CASE TableAccepts(rows[n], cur[n], pend[n].block)
      BY <2>1, <3>1, <3>2, TableAddInv DEF StoreBlock
    <3>3. CASE ~TableAccepts(rows[n], cur[n], pend[n].block)
      BY <1>1, <2>1, <3>3 DEF StoreBlock
    <3> QED BY <3>2, <3>3
  <2> QED BY <1>1, <1>6, <2>1
          DEF FollowStep, ReadTransaction, ApplyBlock, ReadUpToDate, ReadClose,
              diskVars
<1>7. ASSUME NEW n \in Nodes, Start(n) PROVE RowsInv'
  <2>1. /\ rows' = rows /\ cur' = [cur EXCEPT ![n] = MaxSequence(rows[n])]
    BY <1>7 DEF Start
  <2>2. cur' = cur
    BY <2>1, MaxSequenceIsCur DEF TableInv, TypeInv, TypeOK
  <2> QED BY <1>1, <2>1, <2>2
<1>8. ASSUME NEW n \in Nodes, Save(n) \/ Stop(n) PROVE RowsInv'
  BY <1>1, <1>8 DEF Save, Stop, nodeVars, diskVars
<1>9. CASE RestartServer \/ UNCHANGED vars
  BY <1>1, <1>9 DEF RestartServer, vars, nodeVars, diskVars
<1> QED
  BY <1>2, <1>3, <1>4, <1>5, <1>6, <1>7, <1>8, <1>9 DEF Next

(***************************************************************************)
(* What loading and applying rows gives.                                   *)
(***************************************************************************)
\* A row is the next block of the history that is one shorter.
LEMMA NextIsChecked ==
    ASSUME TableInv, NEW b \in Logged, NEW d \in Logged,
           Sequence(b) = Sequence(d) + 1
    PROVE  Check(Import(d), b)
<1>1. /\ b \in Block /\ d \in Block /\ Sequence(b) \in Nat /\ Sequence(d) \in Nat
  BY LoggedFacts DEF TableInv
<1>2. Begins(d, b) /\ \A i, j \in 1 .. Sequence(b) : b[i] = b[j] => i = j
  BY <1>1 DEF TableInv, LogInv, OneHistory, NoRepeats
<1>3. PreviousBlock(b) = d
  BY <1>1, <1>2, BeginsIsPrefix DEF PreviousBlock, Sequence
<1>4. /\ Len(b) \in Nat /\ Len(d) \in Nat /\ Len(b) = Len(d) + 1
      /\ \A i \in 1 .. Len(d) : d[i] = b[i]
      /\ \A i, j \in 1 .. Len(b) : b[i] = b[j] => i = j
  BY <1>1, <1>2 DEF Begins, Sequence
<1>5. StateCheck(ResultingState(d), Transaction(b))
  <2>1. \A i \in 1 .. Len(d) : d[i] # b[Len(b)]
    BY <1>4
  <2> QED BY <2>1 DEF StateCheck, ResultingState, Transaction
<1>6. StateApply(ResultingState(d), Transaction(b)) = ResultingState(b)
  <2>1. ASSUME NEW x \in ResultingState(b)
        PROVE  x \in ResultingState(d) \/ x = b[Len(b)]
    <3>1. PICK i \in 1 .. Len(b) : x = b[i]
      BY DEF ResultingState
    <3>2. i = Len(b) \/ i \in 1 .. Len(d)
      BY <1>4
    <3> QED BY <1>4, <3>1, <3>2 DEF ResultingState
  <2>2. ASSUME NEW x \in ResultingState(d) PROVE x \in ResultingState(b)
    <3>1. PICK i \in 1 .. Len(d) : x = d[i]
      BY DEF ResultingState
    <3> QED BY <1>4, <3>1 DEF ResultingState
  <2>3. b[Len(b)] \in ResultingState(b)
    BY <1>4 DEF ResultingState
  <2> QED BY <2>1, <2>2, <2>3 DEF StateApply, Transaction
<1> QED BY <1>3, <1>5, <1>6 DEF Check, Import

\* apply tests only the resulting state, yet it never goes back: the state
\* of a shorter history lacks the certificates added since.
LEMMA ApplyForward ==
    ASSUME TableInv, NEW ch \in ChainType, ch.last \in Logged,
           ch.state = ResultingState(ch.last), NEW b \in Logged,
           ~ApplyPanics(ch, b)
    PROVE  /\ Sequence(ch.last) <= Sequence(b)
           /\ Apply(ch, b).last = b
           /\ Apply(ch, b).state = ResultingState(b)
<1>1. Apply(ch, b).last = b /\ Apply(ch, b).state = ResultingState(b)
  BY DEF Apply, ApplyPanics
<1>2. /\ Sequence(b) \in Nat /\ Sequence(ch.last) \in Nat /\ Sequence(ch.last) >= 1
  BY LoggedFacts DEF TableInv
<1>3. ASSUME Sequence(b) < Sequence(ch.last) PROVE FALSE
  <2> DEFINE k == Sequence(ch.last)
  <2>1. Begins(b, ch.last)
    BY <1>2, <1>3 DEF TableInv, LogInv, OneHistory
  <2>2. ch.last[k] \in ResultingState(ch.last)
    BY <1>2 DEF ResultingState, Sequence
  <2>3. ch.last[k] \in ResultingState(b)
    BY <2>2 DEF ApplyPanics, StateApply
  <2>4. PICK j \in 1 .. Sequence(b) : ch.last[k] = b[j]
    BY <2>3 DEF ResultingState, Sequence
  <2>5. ch.last[k] = ch.last[j]
    BY <2>1, <2>4 DEF Begins
  <2>6. j \in 1 .. k /\ k \in 1 .. k /\ j # k
    BY <1>2, <1>3
  <2> HIDE DEF k
  <2> QED BY <2>5, <2>6 DEF TableInv, LogInv, NoRepeats, k
<1> QED BY <1>1, <1>2, <1>3

LEMMA ReplayedOf ==
    ASSUME NEW table, NEW top, Gapless(table, top),
           NEW snapshot \in Block, Sequence(snapshot) >= 1
    PROVE  /\ top <= Sequence(snapshot) => Replayed(snapshot, table) = snapshot
           /\ top > Sequence(snapshot) =>
                  /\ Replayed(snapshot, table) \in table
                  /\ Sequence(Replayed(snapshot, table)) = top
<1> DEFINE k == Sequence(snapshot)
           later == RowsAfter(table, k)
<1>1. k \in Nat /\ top \in Nat
  BY BlockFacts DEF Gapless
<1>2. ASSUME top <= k PROVE Replayed(snapshot, table) = snapshot
  <2>1. \A b \in table : ~(Sequence(b) > k)
    BY <1>1, <1>2 DEF Gapless
  <2>2. later = << >>
    BY <2>1, RowsAfterNone
  <2> QED BY <2>2 DEF Replayed
<1>3. ASSUME top > k
      PROVE  /\ Replayed(snapshot, table) \in table
             /\ Sequence(Replayed(snapshot, table)) = top
  <2> HIDE DEF k
  <2>1. k < top /\ 1 <= k
    BY <1>1, <1>3 DEF k
  <2>2. /\ later \in Seq(table) /\ Len(later) = top - k
        /\ \A i \in 1 .. top - k : later[i] \in table /\ Sequence(later[i]) = k + i
    BY <1>1, <2>1, RowsAfterSome
  <2>3. top - k \in 1 .. top - k /\ k + (top - k) = top
    BY <1>1, <2>1
  <2>4. later # << >> /\ Last(later) = later[top - k]
    BY <2>2, <2>3 DEF Last
  <2>5. Replayed(snapshot, table) = Last(later)
    BY <2>4 DEF Replayed, k
  <2> QED BY <2>2, <2>3, <2>4, <2>5
<1> QED BY <1>2, <1>3

\* load_trust_store accepts every row that it replays.
LEMMA ReplayIsAccepted ==
    ASSUME TableInv, RowsInv, NEW n \in Nodes, NEW snapshot \in Logged
    PROVE  ReplayAccepted(snapshot, rows[n])
<1> DEFINE k == Sequence(snapshot)
           later == RowsAfter(rows[n], k)
<1>1. /\ Gapless(rows[n], cur[n]) /\ cur[n] \in Nat /\ k \in Nat /\ k >= 1
      /\ rows[n] \subseteq Logged
  BY RowsGapless, LoggedFacts DEF RowsInv, TableInv, Logged
<1>2. CASE cur[n] <= k
  <2>1. \A b \in rows[n] : ~(Sequence(b) > k)
    BY <1>1, <1>2 DEF Gapless
  <2>2. later = << >>
    BY <2>1, RowsAfterNone
  <2> QED BY <2>2 DEF ReplayAccepted
<1>3. CASE k < cur[n]
  <2> HIDE DEF k
  <2>1. /\ later \in Seq(rows[n]) /\ Len(later) = cur[n] - k
        /\ \A i \in 1 .. cur[n] - k : later[i] \in rows[n] /\ Sequence(later[i]) = k + i
    BY <1>1, <1>3, RowsAfterSome
  <2> HIDE DEF later
  <2>2. ASSUME NEW i \in DOMAIN later
        PROVE  Check(Import(IF i = 1 THEN snapshot ELSE later[i - 1]), later[i])
    <3>1. i \in 1 .. cur[n] - k /\ later[i] \in Logged /\ Sequence(later[i]) = k + i
      BY <1>1, <2>1
    <3>2. CASE i = 1
      BY <1>1, <3>1, <3>2, NextIsChecked DEF k
    <3>3. CASE i # 1
      <4>1. i - 1 \in 1 .. cur[n] - k /\ k + i = (k + (i - 1)) + 1
        BY <1>1, <3>1, <3>3
      <4>2. later[i - 1] \in Logged /\ Sequence(later[i - 1]) = k + (i - 1)
        BY <1>1, <2>1, <4>1
      <4> QED BY <3>1, <3>3, <4>1, <4>2, NextIsChecked
    <3> QED BY <3>2, <3>3
  <2> QED BY <2>2 DEF ReplayAccepted, later, k
<1> QED BY <1>1, <1>2, <1>3

(***************************************************************************)
(* Chain, file and table of a node.                                        *)
(***************************************************************************)
Outside == {"new", "joining", "failed"}

\* A running node is at a row, not before its file, and beyond its file only
\* as far as its table reaches; a node that has not joined has nothing.
ChainInvOf(n) ==
    /\ status[n] \in Up =>
           /\ chain[n].last \in Logged
           /\ n \notin panicked => chain[n].state = ResultingState(chain[n].last)
           /\ Sequence(file[n]) <= Sequence(chain[n].last)
           /\ \/ Sequence(chain[n].last) <= Sequence(file[n])
              \/ Sequence(chain[n].last) <= cur[n]
    /\ status[n] \in Outside => file[n] = NoBlock /\ cur[n] = 1
    /\ status[n] \notin Outside => file[n] \in Logged
    /\ pend[n].stage = "stored" => pend[n].block \in rows[n]

SnapshotInvOf(c) ==
    /\ Adding(c) => add[c].snapshot \in Logged
    /\ add[c].stage = "stored" => add[c].block \in rows[c]

ChainInv ==
    /\ \A n \in Nodes : ChainInvOf(n)
    /\ \A c \in Clients : SnapshotInvOf(c)

LEMMA InitChain == Init => ChainInv
<1> SUFFICES ASSUME Init PROVE ChainInv
  OBVIOUS
<1>1. ASSUME NEW n \in Nodes PROVE ChainInvOf(n)
  BY ConstantTypes DEF Init, ChainInvOf, Outside, Up, Logged
<1>2. ASSUME NEW c \in Clients PROVE SnapshotInvOf(c)
  BY ConstantTypes DEF Init, SnapshotInvOf, Adding
<1> QED BY <1>1, <1>2 DEF ChainInv

LEMMA ChainFrame ==
    ASSUME ChainInv, Logged \subseteq Logged', NEW n \in Nodes,
           chain'[n] = chain[n], status'[n] = status[n], file'[n] = file[n],
           cur'[n] = cur[n], rows'[n] = rows[n],
           pend'[n] = pend[n] \/ pend'[n].stage # "stored",
           n \in panicked => n \in panicked'
    PROVE  ChainInvOf(n)'
BY DEF ChainInv, ChainInvOf

LEMMA SnapshotFrame ==
    ASSUME ChainInv, Logged \subseteq Logged', NEW c \in Clients,
           add'[c] = add[c] \/ add'[c] = NoAdd, rows[c] \subseteq rows'[c]
    PROVE  SnapshotInvOf(c)'
BY ConstantTypes DEF ChainInv, SnapshotInvOf, Adding

\* A node whose table takes a row that it stores.
LEMMA ChainStores ==
    ASSUME TableInv, RowsInv, ChainInv, Logged \subseteq Logged', NEW n \in Nodes,
           chain'[n] = chain[n], panicked' = panicked, file'[n] = file[n],
           status[n] \in Up, status'[n] = status[n], NEW b \in db,
           TableAccepts(rows[n], cur[n], b), TableAdd(n, b),
           \/ pend'[n] = pend[n]
           \/ pend'[n].stage = "stored" /\ pend'[n].block = b
    PROVE  ChainInvOf(n)'
<1>1. /\ cur[n] \in Nat /\ cur'[n] \in Nat /\ cur[n] <= cur'[n]
      /\ rows'[n] = rows[n] \cup {b}
  BY TableAddRows DEF RowsInv
<1>2. /\ chain[n].last \in Logged /\ Sequence(chain[n].last) \in Nat
      /\ ChainInvOf(n)
  BY LoggedFacts DEF ChainInv, ChainInvOf, TableInv
<1>3. status[n] \notin Outside
  BY DEF Up, Outside
<1> QED BY <1>1, <1>2, <1>3 DEF ChainInvOf

\* A node that applies a row of its table.
LEMMA ChainApplies ==
    ASSUME TableInv, RowsInv, ChainInv, NEW n \in Nodes, NEW b \in rows[n],
           n \notin panicked, ApplyAt(n, b), status[n] \in Up,
           status'[n] = status[n], UNCHANGED <<file, rows, cur, db>>,
           pend'[n] = pend[n] \/ pend'[n].stage # "stored"
    PROVE  /\ ChainInvOf(n)'
           /\ Sequence(chain[n].last) <= Sequence(chain'[n].last)
           /\ \A m \in Nodes \ {n} : chain'[m] = chain[m] /\ (m \in panicked => m \in panicked')
           /\ n \notin panicked' => chain'[n].last = b
<1>1. /\ TypeInv /\ chain[n] \in ChainType /\ ChainInvOf(n)
      /\ chain[n].last \in Logged /\ chain[n].state = ResultingState(chain[n].last)
      /\ Sequence(file[n]) <= Sequence(chain[n].last)
      /\ status[n] \notin Outside /\ file[n] \in Logged
  BY NodeFacts DEF TableInv, ChainInv, ChainInvOf, Up, Outside
<1>2. b \in Logged /\ Sequence(b) <= cur[n] /\ Sequence(b) \in Nat
      /\ Sequence(file[n]) \in Nat /\ Sequence(chain[n].last) \in Nat
  BY <1>1, LoggedFacts DEF RowsInv, TableInv
<1>3. /\ chain'[n] = Apply(chain[n], b)
      /\ \A m \in Nodes \ {n} : chain'[m] = chain[m]
      /\ panicked' = IF ApplyPanics(chain[n], b) THEN panicked \cup {n} ELSE panicked
  BY <1>1, MembersFacts DEF ApplyAt, TypeInv, TypeOK
<1>4. Logged' = Logged
  BY DEF Logged
<1>5. CASE ApplyPanics(chain[n], b)
  <2>1. chain'[n].last = chain[n].last /\ n \in panicked'
    BY <1>3, <1>5 DEF Apply
  <2>2. ChainInvOf(n)'
    BY <1>1, <1>4, <2>1 DEF ChainInvOf
  <2> QED BY <1>2, <1>3, <2>1, <2>2
<1>6. CASE ~ApplyPanics(chain[n], b)
  <2>1. /\ Sequence(chain[n].last) <= Sequence(b) /\ chain'[n].last = b
        /\ chain'[n].state = ResultingState(b)
    BY <1>1, <1>2, <1>3, <1>6, ApplyForward
  <2>2. Sequence(file[n]) <= Sequence(b)
    BY <1>1, <1>2, <2>1
  <2>3. ChainInvOf(n)'
    BY <1>1, <1>2, <1>4, <2>1, <2>2 DEF ChainInvOf
  <2> QED BY <1>3, <2>1, <2>3
<1> QED BY <1>5, <1>6

\* What a node would load: its file, or the newest row of its table.
LEMMA ReplayedIs ==
    ASSUME TableInv, RowsInv, ChainInv, NEW n \in Nodes
    PROVE  /\ status[n] \in Outside => Replayed(file[n], rows[n]) = NoBlock
           /\ status[n] \notin Outside =>
                 /\ Replayed(file[n], rows[n]) \in Logged
                 /\ cur[n] <= Sequence(file[n]) => Replayed(file[n], rows[n]) = file[n]
                 /\ cur[n] > Sequence(file[n]) =>
                        Sequence(Replayed(file[n], rows[n])) = cur[n]
<1>1. /\ Gapless(rows[n], cur[n]) /\ rows[n] \subseteq Logged /\ cur[n] \in Nat
  BY RowsGapless DEF RowsInv, Logged
<1>2. CASE status[n] \in Outside
  <2>1. file[n] = NoBlock /\ cur[n] = 1
    BY <1>2 DEF ChainInv, ChainInvOf
  <2>2. rows[n] = {}
    BY <1>1, <2>1 DEF Gapless
  <2>3. RowsAfter(rows[n], Sequence(file[n])) = << >>
    BY <2>2, RowsAfterNone
  <2> QED BY <1>2, <2>1, <2>3 DEF Replayed
<1>3. CASE status[n] \notin Outside
  <2>1. /\ file[n] \in Logged /\ file[n] \in Block
        /\ Sequence(file[n]) \in Nat /\ Sequence(file[n]) >= 1
    BY <1>3, LoggedFacts DEF ChainInv, ChainInvOf, TableInv
  <2>2. /\ cur[n] <= Sequence(file[n]) => Replayed(file[n], rows[n]) = file[n]
        /\ cur[n] > Sequence(file[n]) =>
               /\ Replayed(file[n], rows[n]) \in rows[n]
               /\ Sequence(Replayed(file[n], rows[n])) = cur[n]
    BY <1>1, <2>1, ReplayedOf
  <2> QED BY <1>1, <1>3, <2>1, <2>2
<1> QED BY <1>2, <1>3

NodeInv == TableInv /\ FeedInv /\ LifeInv /\ BlockInv /\ RowsInv /\ ChainInv

LEMMA NodeParts ==
    ASSUME NodeInv
    PROVE  TypeInv /\ TableInv /\ FeedInv /\ LifeInv /\ BlockInv /\ RowsInv /\ ChainInv
BY DEF NodeInv, TableInv

LEMMA FollowStepChain ==
    ASSUME NodeInv, NEW n \in Nodes, FollowStep(n)
    PROVE  ChainInv'
<1> USE NodeParts
<1>1. /\ UNCHANGED <<db, file, add>> /\ Logged' = Logged
  BY DEF FollowStep, ReadTransaction, StoreBlock, ApplyBlock, ReadUpToDate,
         ReadClose, serverVars, diskVars, Logged
<1> DEFINE Others == \A m \in Nodes \ {n} :
               /\ chain'[m] = chain[m] /\ status'[m] = status[m]
               /\ cur'[m] = cur[m] /\ rows'[m] = rows[m] /\ pend'[m] = pend[m]
               /\ m \in panicked => m \in panicked'
<1>2. ASSUME EndSession(n), UNCHANGED <<rows, cur>> PROVE Others /\ ChainInvOf(n)'
  <2>1. Others
    BY <1>2, MembersFacts DEF EndSession, TypeInv, TypeOK
  <2>2. pend'[n].stage = "idle"
    BY <1>2, ConstantTypes DEF EndSession, TypeInv, TypeOK
  <2>3. CASE session[n] = "sync"
    <3>1. status[n] = "syncing" /\ status'[n] = "down"
      BY <1>2, <2>3 DEF EndSession, LifeInv, TypeInv, TypeOK
    <3>2. file[n] \in Logged
      BY <3>1 DEF ChainInv, ChainInvOf, Outside
    <3> QED BY <1>1, <2>1, <2>2, <3>1, <3>2 DEF ChainInvOf, Outside, Up
  <2>4. CASE session[n] # "sync"
    <3>1. UNCHANGED <<status, chain, panicked>>
      BY <1>2, <2>4 DEF EndSession
    <3>2. ChainInvOf(n)'
      BY <1>1, <1>2, <2>2, <3>1, ChainFrame
    <3> QED BY <2>1, <3>2
  <2> QED BY <2>3, <2>4
<1>3. Others /\ ChainInvOf(n)'
  <2>1. CASE ReadTransaction(n)
    <3>1. CASE EndSession(n)
      BY <1>2, <2>1, <3>1 DEF ReadTransaction, diskVars
    <3>2. CASE ~EndSession(n)
      <4>1. /\ UNCHANGED <<chain, panicked, status, rows, cur>>
            /\ pend'[n].stage = "checked"
            /\ \A m \in Nodes \ {n} : pend'[m] = pend[m]
        BY <2>1, <3>2 DEF ReadTransaction, diskVars, TypeInv, TypeOK
      <4>2. ChainInvOf(n)'
        BY <1>1, <4>1, ChainFrame
      <4> QED BY <4>1, <4>2
    <3> QED BY <3>1, <3>2
  <2>2. CASE StoreBlock(n)
    <3>1. CASE EndSession(n) /\ UNCHANGED <<rows, cur>>
      BY <1>2, <3>1
    <3>2. CASE ~(EndSession(n) /\ UNCHANGED <<rows, cur>>)
      <4>1. /\ UNCHANGED <<chain, panicked, status>>
            /\ pend[n].stage = "checked"
            /\ pend' = [pend EXCEPT ![n].stage = "stored"]
            /\ TableAccepts(rows[n], cur[n], pend[n].block)
            /\ TableAdd(n, pend[n].block)
        BY <2>2, <3>2 DEF StoreBlock
      <4>2. pend[n].block \in db /\ status[n] \in Up
        BY <4>1 DEF FeedInv, LifeInv
      <4>3. /\ pend'[n].stage = "stored" /\ pend'[n].block = pend[n].block
            /\ \A m \in Nodes \ {n} : pend'[m] = pend[m]
        BY <4>1 DEF TypeInv, TypeOK, PendType
      <4>4. \A m \in Nodes \ {n} : rows'[m] = rows[m] /\ cur'[m] = cur[m]
        BY <4>1, <4>2, TableAddRows
      <4>5. ChainInvOf(n)'
        BY <1>1, <4>1, <4>2, <4>3, ChainStores
      <4> QED BY <4>1, <4>3, <4>4, <4>5
    <3> QED BY <3>1, <3>2
  <2>3. CASE ApplyBlock(n)
    <3>1. UNCHANGED <<rows, cur>>
      BY <2>3 DEF ApplyBlock, diskVars
    <3>2. CASE EndSession(n)
      BY <1>2, <3>1, <3>2
    <3>3. CASE ~EndSession(n)
      <4>1. /\ pend[n].stage = "stored" /\ n \notin panicked
            /\ ApplyAt(n, pend[n].block) /\ pend' = [pend EXCEPT ![n] = Idle]
            /\ status' = status
        BY <2>3, <3>3 DEF ApplyBlock
      <4>2. /\ pend'[n].stage = "idle" /\ \A m \in Nodes \ {n} : pend'[m] = pend[m]
            /\ pend[n].block \in rows[n] /\ status[n] \in Up
        BY <4>1, ConstantTypes DEF TypeInv, TypeOK, ChainInv, ChainInvOf, LifeInv
      <4>3. /\ ChainInvOf(n)'
            /\ \A m \in Nodes \ {n} : /\ chain'[m] = chain[m]
                                      /\ (m \in panicked => m \in panicked')
        BY <1>1, <3>1, <4>1, <4>2, ChainApplies
      <4> QED BY <3>1, <4>1, <4>2, <4>3
    <3> QED BY <3>2, <3>3
  <2>4. CASE ReadUpToDate(n)
    <3>1. UNCHANGED <<rows, cur>>
      BY <2>4 DEF ReadUpToDate, diskVars
    <3>2. CASE EndSession(n)
      BY <1>2, <3>1, <3>2
    <3>3. CASE ~EndSession(n)
      <4>1. /\ UNCHANGED <<chain, panicked, pend>> /\ session[n] = "sync"
            /\ status'[n] = "ready" /\ \A m \in Nodes \ {n} : status'[m] = status[m]
        BY <2>4, <3>3 DEF ReadUpToDate, TypeInv, TypeOK
      <4>2. status[n] = "syncing"
        BY <4>1 DEF LifeInv
      <4>3. ChainInvOf(n)'
        BY <1>1, <3>1, <4>1, <4>2 DEF ChainInv, ChainInvOf, Up, Outside
      <4> QED BY <3>1, <4>1, <4>3
    <3> QED BY <3>2, <3>3
  <2>5. CASE ReadClose(n)
    BY <1>2, <2>5 DEF ReadClose, diskVars
  <2> QED BY <2>1, <2>2, <2>3, <2>4, <2>5 DEF FollowStep
<1>4. ASSUME NEW m \in Nodes \ {n} PROVE ChainInvOf(m)'
  BY <1>1, <1>3, <1>4, ChainFrame
<1>5. ASSUME NEW c \in Clients PROVE SnapshotInvOf(c)'
  <2>1. rows[c] \subseteq rows'[c]
    <3>1. CASE StoreBlock(n)
      <4>1. rows' = rows \/ rows' = [rows EXCEPT ![n] = @ \cup {pend[n].block}]
        BY <3>1 DEF StoreBlock, TableAdd
      <4>2. \A m \in Nodes : rows[m] \subseteq rows'[m]
        BY <4>1 DEF TypeInv, TypeOK
      <4> QED BY <4>2, MembersFacts
    <3>2. CASE ~StoreBlock(n)
      BY <3>2 DEF FollowStep, ReadTransaction, ApplyBlock, ReadUpToDate,
                  ReadClose, diskVars
    <3> QED BY <3>1, <3>2
  <2> QED BY <1>1, <2>1, SnapshotFrame
<1> QED BY <1>3, <1>4, <1>5 DEF ChainInv

\* The end of an add for its agent.
LEMMA AgentChain ==
    ASSUME NodeInv, NEW c \in Clients, Adding(c), NEW a, a = add[c].agent,
           NEW s \in {"failed", "down"},
           status' = [status EXCEPT ![a] = s],
           file' = IF s = "failed" THEN file
                   ELSE [file EXCEPT ![a] = add[c].snapshot],
           UNCHANGED <<rows, cur, pend, db>>
    PROVE  /\ ChainInvOf(a)'
           /\ \A m \in Nodes \ {a} : status'[m] = status[m] /\ file'[m] = file[m]
           /\ a \in Agents /\ a \in Nodes
<1> USE NodeParts
<1>1. /\ a \in Agents /\ a \in Nodes /\ status[a] = "joining"
  BY MembersFacts DEF LifeInv
<1>2. /\ pend[a].stage = "idle" /\ file[a] = NoBlock /\ cur[a] = 1
      /\ add[c].snapshot \in Logged
  BY <1>1 DEF LifeInv, ChainInv, ChainInvOf, SnapshotInvOf, Outside, Up
<1>3. Logged' = Logged
  BY DEF Logged
<1>4. /\ status'[a] = s /\ file'[a] = IF s = "failed" THEN NoBlock ELSE add[c].snapshot
      /\ \A m \in Nodes \ {a} : status'[m] = status[m] /\ file'[m] = file[m]
  BY <1>1, <1>2 DEF TypeInv, TypeOK
<1>5. ChainInvOf(a)'
  BY <1>2, <1>3, <1>4 DEF ChainInvOf, Outside, Up
<1> QED BY <1>1, <1>4, <1>5

LEMMA AddStepChain ==
    ASSUME NodeInv, NEW c \in Clients, AddStep(c)
    PROVE  ChainInv'
<1> USE NodeParts
<1>1. /\ UNCHANGED <<db, pend>> /\ Logged' = Logged /\ Adding(c) /\ c \in Nodes
      /\ add[c] \in AddType
  BY MembersFacts
     DEF AddStep, PackageAndSend, AddAnswered, AddStore, AddApply, serverVars,
         Logged, Adding, TypeInv, TypeOK
<1>2. status[c] \in Up /\ status[c] \notin Outside
  BY <1>1 DEF LifeInv, Up, Outside
<1>3. \A d \in Clients \ {c} : add'[d] = add[d]
  BY DEF AddStep, PackageAndSend, AddAnswered, AddStore, AddApply, AddFails,
         TypeInv, TypeOK
<1>4. ASSUME AddFails(c), UNCHANGED <<file, rows, cur>>, \A m \in Nodes : chain'[m] = chain[m],
             panicked' = panicked
      PROVE  ChainInv'
  <2> PICK a : a = add[c].agent
    OBVIOUS
  <2>1. /\ ChainInvOf(a)' /\ \A m \in Nodes \ {a} : status'[m] = status[m]
    BY <1>1, <1>4, AgentChain DEF AddFails
  <2>2. \A m \in Nodes \ {a} : ChainInvOf(m)'
    BY <1>1, <1>4, <2>1, ChainFrame
  <2>3. add'[c] = NoAdd
    BY <1>4 DEF AddFails, TypeInv, TypeOK
  <2>4. \A d \in Clients : SnapshotInvOf(d)'
    BY <1>1, <1>3, <1>4, <2>3, SnapshotFrame
  <2> QED BY <2>1, <2>2, <2>4 DEF ChainInv
<1>5. CASE PackageAndSend(c) \/ AddAnswered(c)
  <2>1. UNCHANGED <<chain, panicked, file, rows, cur>>
    BY <1>5 DEF PackageAndSend, AddAnswered, diskVars
  <2>2. CASE AddFails(c)
    BY <1>4, <2>1, <2>2
  <2>3. CASE ~AddFails(c)
    <3>1. /\ status' = status /\ add'[c].snapshot = add[c].snapshot
          /\ add'[c].stage # "stored"
      BY <1>1, <1>5, <2>3 DEF PackageAndSend, AddAnswered, TypeInv, TypeOK, AddType
    <3>2. \A m \in Nodes : ChainInvOf(m)'
      BY <1>1, <2>1, <3>1, ChainFrame
    <3>3. SnapshotInvOf(c)'
      BY <1>1, <3>1 DEF ChainInv, SnapshotInvOf
    <3>4. \A d \in Clients \ {c} : SnapshotInvOf(d)'
      BY <1>1, <1>3, <2>1, SnapshotFrame
    <3> QED BY <3>2, <3>3, <3>4 DEF ChainInv
  <2> QED BY <2>2, <2>3
<1>6. CASE AddStore(c)
  <2>1. UNCHANGED <<chain, panicked, file>> /\ add[c].stage = "confirmed"
    BY <1>6 DEF AddStore
  <2>2. CASE ~TableAccepts(rows[c], cur[c], add[c].block)
    BY <1>4, <1>6, <2>1, <2>2 DEF AddStore
  <2>3. CASE TableAccepts(rows[c], cur[c], add[c].block)
    <3>1. /\ TableAdd(c, add[c].block) /\ status' = status
          /\ add' = [add EXCEPT ![c].stage = "stored"]
      BY <1>6, <2>3 DEF AddStore
    <3>2. add[c].block \in db
      BY <2>1 DEF BlockInv, BlockInvOf
    <3>3. /\ add'[c].snapshot = add[c].snapshot /\ add'[c].block = add[c].block
      BY <1>1, <3>1 DEF TypeInv, TypeOK, AddType
    <3>4. /\ rows'[c] = rows[c] \cup {add[c].block}
          /\ \A m \in Nodes \ {c} : rows'[m] = rows[m] /\ cur'[m] = cur[m]
      BY <1>1, <2>3, <3>1, <3>2, TableAddRows
    <3>5. ChainInvOf(c)'
      BY <1>1, <1>2, <2>1, <2>3, <3>1, <3>2, ChainStores
    <3>6. \A m \in Nodes \ {c} : ChainInvOf(m)'
      BY <1>1, <2>1, <3>1, <3>4, ChainFrame
    <3>7. SnapshotInvOf(c)'
      BY <1>1, <3>3, <3>4 DEF ChainInv, SnapshotInvOf
    <3>8. \A d \in Clients \ {c} : SnapshotInvOf(d)'
      BY <1>1, <1>3, <3>4, SnapshotFrame, MembersFacts
    <3> QED BY <3>5, <3>6, <3>7, <3>8 DEF ChainInv
  <2> QED BY <2>2, <2>3
<1>7. CASE AddApply(c)
  <2> PICK a : a = add[c].agent
    OBVIOUS
  <2>1. UNCHANGED <<rows, cur>> /\ add[c].block \in rows[c] /\ add'[c] = NoAdd
    BY <1>7 DEF AddApply, AddFails, ChainInv, SnapshotInvOf, TypeInv, TypeOK
  <2>2. \/ AddFails(c) /\ UNCHANGED file
        \/ /\ status' = [status EXCEPT ![a] = "down"]
           /\ file' = [file EXCEPT ![a] = add[c].snapshot]
    BY <1>7 DEF AddApply
  <2>3. /\ ChainInvOf(a)'
        /\ \A m \in Nodes \ {a} : status'[m] = status[m] /\ file'[m] = file[m]
        /\ a \in Agents /\ a \in Nodes
    <3>1. CASE AddFails(c) /\ UNCHANGED file
      BY <1>1, <2>1, <3>1, AgentChain DEF AddFails
    <3>2. CASE /\ status' = [status EXCEPT ![a] = "down"]
               /\ file' = [file EXCEPT ![a] = add[c].snapshot]
      BY <1>1, <2>1, <3>2, AgentChain
    <3> QED BY <2>2, <3>1, <3>2
  <2>4. a # c
    BY <2>3, ConstantsAssumption
  <2>5. \A d \in Clients : SnapshotInvOf(d)'
    BY <1>1, <1>3, <2>1, SnapshotFrame
  <2>6. /\ ChainInvOf(c)'
        /\ \A m \in Nodes \ {c} : chain'[m] = chain[m] /\ (m \in panicked => m \in panicked')
    <3>1. status'[c] = status[c] /\ file'[c] = file[c]
      BY <1>1, <2>3, <2>4
    <3>2. CASE c \in panicked
      <4>1. UNCHANGED <<chain, panicked>>
        BY <1>7, <3>2 DEF AddApply
      <4> QED BY <1>1, <2>1, <3>1, <4>1, ChainFrame
    <3>3. CASE c \notin panicked
      <4> DEFINE b == add[c].block
      <4>1. ApplyAt(c, b)
        BY <1>7, <3>3 DEF AddApply
      <4>2. /\ chain[c] \in ChainType /\ ChainInvOf(c)
            /\ chain[c].last \in Logged /\ chain[c].state = ResultingState(chain[c].last)
            /\ Sequence(file[c]) <= Sequence(chain[c].last)
            /\ file[c] \in Logged
        BY <1>1, <1>2, <3>3, NodeFacts DEF ChainInv, ChainInvOf
      <4>3. b \in Logged /\ Sequence(b) <= cur[c] /\ Sequence(b) \in Nat
            /\ Sequence(file[c]) \in Nat /\ Sequence(chain[c].last) \in Nat
        BY <1>1, <2>1, <4>2, LoggedFacts DEF RowsInv, TableInv
      <4>4. /\ chain'[c] = Apply(chain[c], b)
            /\ \A m \in Nodes \ {c} : chain'[m] = chain[m]
            /\ panicked' = IF ApplyPanics(chain[c], b) THEN panicked \cup {c} ELSE panicked
        BY <1>1, <4>1, MembersFacts DEF ApplyAt, TypeInv, TypeOK
      <4> HIDE DEF b
      <4>5. CASE ApplyPanics(chain[c], b)
        <5>1. chain'[c].last = chain[c].last /\ c \in panicked'
          BY <4>4, <4>5 DEF Apply
        <5>2. ChainInvOf(c)'
          BY <1>1, <2>1, <3>1, <4>2, <5>1 DEF ChainInvOf
        <5> QED BY <4>4, <5>2
      <4>6. CASE ~ApplyPanics(chain[c], b)
        <5>1. /\ Sequence(chain[c].last) <= Sequence(b) /\ chain'[c].last = b
              /\ chain'[c].state = ResultingState(b)
          BY <4>2, <4>3, <4>4, <4>6, ApplyForward
        <5>2. Sequence(file[c]) <= Sequence(b)
          BY <4>2, <4>3, <5>1
        <5>3. ChainInvOf(c)'
          BY <1>1, <2>1, <3>1, <4>2, <4>3, <5>1, <5>2 DEF ChainInvOf
        <5> QED BY <4>4, <5>3
      <4> QED BY <4>5, <4>6
    <3> QED BY <3>2, <3>3
  <2>7. \A m \in Nodes \ {c, a} : ChainInvOf(m)'
    BY <1>1, <2>1, <2>3, <2>6, ChainFrame
  <2> QED BY <2>3, <2>5, <2>6, <2>7 DEF ChainInv
<1> QED BY <1>5, <1>6, <1>7 DEF AddStep

LEMMA StartChain ==
    ASSUME NodeInv, NEW n \in Nodes, Start(n)
    PROVE  ChainInv'
<1> USE NodeParts
<1> DEFINE last == Replayed(file[n], rows[n])
<1>1. /\ status[n] = "down" /\ UNCHANGED <<db, rows, pend, add, panicked>>
      /\ chain' = [chain EXCEPT ![n] = Import(last)]
      /\ file' = [file EXCEPT ![n] = last]
      /\ cur' = [cur EXCEPT ![n] = MaxSequence(rows[n])]
      /\ status' = [status EXCEPT ![n] = "syncing"]
  BY DEF Start, serverVars
<1>2. last \in Logged /\ last \in Block /\ Sequence(last) \in Nat
  BY <1>1, ReplayedIs, LoggedFacts DEF Outside, TableInv
<1>3. cur' = cur
  BY <1>1, MaxSequenceIsCur DEF TypeInv, TypeOK
<1>4. Logged' = Logged
  BY <1>1 DEF Logged
<1>5. pend[n].stage = "idle"
  BY <1>1 DEF LifeInv, Up
<1> HIDE DEF last
<1>6. /\ chain'[n] = Import(last) /\ file'[n] = last /\ status'[n] = "syncing"
      /\ \A m \in Nodes \ {n} : /\ chain'[m] = chain[m] /\ file'[m] = file[m]
                                /\ status'[m] = status[m]
  BY <1>1, MembersFacts DEF TypeInv, TypeOK
<1>7. ChainInvOf(n)'
  BY <1>1, <1>2, <1>4, <1>5, <1>6 DEF ChainInvOf, Import, Up, Outside
<1>8. \A m \in Nodes \ {n} : ChainInvOf(m)'
  BY <1>1, <1>3, <1>4, <1>6, ChainFrame
<1>9. \A c \in Clients : SnapshotInvOf(c)'
  BY <1>1, <1>4, SnapshotFrame
<1> QED BY <1>7, <1>8, <1>9 DEF ChainInv

LEMMA StopChain ==
    ASSUME NodeInv, NEW n \in Nodes, Stop(n)
    PROVE  ChainInv'
<1> USE NodeParts
<1>1. /\ status[n] \in Up /\ UNCHANGED <<db, file, rows, cur>> /\ Logged' = Logged
      /\ chain' = [chain EXCEPT ![n] = NoChain] /\ panicked' = panicked \ {n}
      /\ pend' = [pend EXCEPT ![n] = Idle]
  BY DEF Stop, Up, Logged, diskVars
<1>2. /\ pend'[n].stage = "idle"
      /\ \A m \in Nodes \ {n} : /\ chain'[m] = chain[m] /\ pend'[m] = pend[m]
                                /\ (m \in panicked => m \in panicked')
  BY <1>1, ConstantTypes, MembersFacts DEF TypeInv, TypeOK
<1>3. /\ status'[n] = "down" /\ file[n] \in Logged
      /\ \A m \in Nodes \ {n} : \/ status'[m] = status[m]
                                \/ status[m] \in Outside /\ status'[m] = "failed"
  <2>1. file[n] \in Logged
    BY <1>1 DEF ChainInv, ChainInvOf, Up, Outside
  <2>2. CASE n \in Clients /\ Adding(n)
    <3> DEFINE a == add[n].agent
    <3>1. status' = [status EXCEPT ![n] = "down", ![a] = "failed"]
      BY <2>2 DEF Stop, Adding
    <3>2. a \in Nodes /\ a # n /\ status[a] = "joining"
      BY <1>1, <2>2, MembersFacts DEF LifeInv, Up
    <3> HIDE DEF a
    <3> QED BY <2>1, <3>1, <3>2 DEF TypeInv, TypeOK, Outside
  <2>3. CASE ~(n \in Clients /\ Adding(n))
    <3>1. status' = [status EXCEPT ![n] = "down"]
      BY <2>3 DEF Stop, Adding
    <3> QED BY <2>1, <3>1 DEF TypeInv, TypeOK
  <2> QED BY <2>2, <2>3
<1>4. ChainInvOf(n)'
  BY <1>1, <1>2, <1>3 DEF ChainInvOf, Up, Outside
<1>5. ASSUME NEW m \in Nodes \ {n} PROVE ChainInvOf(m)'
  <2>1. CASE status'[m] = status[m]
    BY <1>1, <1>2, <2>1, ChainFrame
  <2>2. CASE status[m] \in Outside /\ status'[m] = "failed"
    BY <1>1, <1>2, <2>2 DEF ChainInv, ChainInvOf, Outside, Up
  <2> QED BY <1>3, <2>1, <2>2
<1>6. \A c \in Clients : add'[c] = add[c] \/ add'[c] = NoAdd
  BY DEF Stop, TypeInv, TypeOK
<1>7. \A c \in Clients : SnapshotInvOf(c)'
  BY <1>1, <1>6, SnapshotFrame
<1> QED BY <1>4, <1>5, <1>7 DEF ChainInv

LEMMA RestartServerChain ==
    ASSUME NodeInv, RestartServer
    PROVE  ChainInv'
<1> USE NodeParts
<1> DEFINE syncing == {n \in Nodes : session[n] = "sync"}
           waiting == {c \in Clients : add[c].stage = "sent"}
<1>1. /\ \A n \in Nodes : pend'[n] = IF n \in syncing THEN Idle ELSE pend[n]
      /\ \A c \in Clients : add'[c] = IF c \in waiting THEN NoAdd ELSE add[c]
      /\ \A n \in Nodes : status'[n] =
            IF n \in syncing THEN "down"
            ELSE IF status[n] = "ready" THEN "offline"
            ELSE IF \E c \in waiting : add[c].agent = n THEN "failed" ELSE status[n]
      /\ UNCHANGED <<db, file, rows, cur>> /\ Logged' = Logged
  BY DEF RestartServer, diskVars, Logged
<1>2. /\ \A n \in Nodes : n \notin syncing =>
             chain'[n] = chain[n] /\ (n \in panicked => n \in panicked')
  BY MembersFacts DEF RestartServer
<1>3. \A c \in waiting : status[add[c].agent] = "joining"
  BY DEF Adding, LifeInv
<1>4. ASSUME NEW n \in Nodes PROVE ChainInvOf(n)'
  <2>1. CASE n \in syncing
    <3>1. status[n] = "syncing" /\ status'[n] = "down" /\ pend'[n].stage = "idle"
      BY <1>1, <2>1, ConstantTypes DEF LifeInv
    <3> QED BY <1>1, <3>1 DEF ChainInv, ChainInvOf, Up, Outside
  <2>2. CASE n \notin syncing
    <3> HIDE DEF syncing
    <3>1. CASE status[n] = "ready"
      <4>1. status'[n] = "offline" /\ pend'[n] = pend[n]
        BY <1>1, <2>2, <3>1
      <4> QED BY <1>1, <1>2, <2>2, <3>1, <4>1 DEF ChainInv, ChainInvOf, Up, Outside
    <3>2. CASE status[n] # "ready" /\ \E c \in waiting : add[c].agent = n
      <4>1. status'[n] = "failed" /\ pend'[n] = pend[n] /\ status[n] = "joining"
        BY <1>1, <1>3, <2>2, <3>2
      <4> QED BY <1>1, <1>2, <2>2, <4>1 DEF ChainInv, ChainInvOf, Up, Outside
    <3>3. CASE status[n] # "ready" /\ ~ \E c \in waiting : add[c].agent = n
      <4>1. status'[n] = status[n] /\ pend'[n] = pend[n]
        BY <1>1, <2>2, <3>3
      <4> QED BY <1>1, <1>2, <2>2, <4>1, ChainFrame
    <3> QED BY <3>1, <3>2, <3>3
  <2> QED BY <2>1, <2>2
<1>5. \A c \in Clients : SnapshotInvOf(c)'
  BY <1>1, SnapshotFrame
<1> QED BY <1>4, <1>5 DEF ChainInv

LEMMA NextChain == NodeInv /\ [Next]_vars => ChainInv'
<1> SUFFICES ASSUME NodeInv, [Next]_vars PROVE ChainInv'
  OBVIOUS
<1> USE NodeParts
<1>1. Logged \subseteq Logged'
  BY TableStep
<1>2. ASSUME UNCHANGED <<status, file, cur, rows, pend, add>>,
             \A n \in Nodes : chain'[n] = chain[n] /\ (n \in panicked => n \in panicked')
      PROVE  ChainInv'
  <2>1. \A n \in Nodes : ChainInvOf(n)'
    BY <1>1, <1>2, ChainFrame
  <2>2. \A c \in Clients : SnapshotInvOf(c)'
    BY <1>1, <1>2, SnapshotFrame
  <2> QED BY <2>1, <2>2 DEF ChainInv
<1>3. ASSUME NEW c \in Clients, ServerStep(c) PROVE ChainInv'
  <2>1. UNCHANGED <<status, file, cur, rows, pend, add>>
    BY <1>3 DEF ServerStep, HandlerCheck, HandlerInsert, HandlerPublish,
                HandlerApply, nodeVars, diskVars
  <2>2. \A n \in Nodes : chain'[n] = chain[n] /\ (n \in panicked => n \in panicked')
    BY <1>3, MembersFacts
       DEF ServerStep, HandlerCheck, HandlerInsert, HandlerPublish, HandlerApply,
           TypeInv, TypeOK
  <2> QED BY <1>2, <2>1, <2>2
<1>4. ASSUME NEW n \in Nodes, FeedStep(n) PROVE ChainInv'
  BY <1>2, <1>4
     DEF FeedStep, Subscribe, Select, SendCurrent, Drain, SendUpToDate, Forward,
         nodeVars, diskVars
<1>5. ASSUME NEW c \in Clients, NEW a \in Agents, Enroll(c, a) PROVE ChainInv'
  <2>1. /\ UNCHANGED <<chain, panicked, db, file, cur, rows, pend>>
        /\ status[a] = "new" /\ status[c] = "ready" /\ a \in Nodes /\ c \in Nodes
    BY <1>5, MembersFacts DEF Enroll, serverVars, diskVars
  <2>2. /\ status'[a] = "joining" /\ \A m \in Nodes \ {a} : status'[m] = status[m]
        /\ add'[c].snapshot = chain[c].last /\ add'[c].stage = "exported"
        /\ \A d \in Clients \ {c} : add'[d] = add[d]
    BY <1>5, <2>1 DEF Enroll, TypeInv, TypeOK
  <2>3. ChainInvOf(a)'
    BY <1>1, <2>1, <2>2 DEF ChainInv, ChainInvOf, Outside, Up
  <2>4. \A m \in Nodes \ {a} : ChainInvOf(m)'
    BY <1>1, <2>1, <2>2, ChainFrame
  <2>5. chain[c].last \in Logged
    BY <2>1 DEF ChainInv, ChainInvOf, Up
  <2>6. SnapshotInvOf(c)'
    BY <1>1, <2>2, <2>5 DEF SnapshotInvOf
  <2>7. \A d \in Clients \ {c} : SnapshotInvOf(d)'
    BY <1>1, <2>1, <2>2, SnapshotFrame
  <2> QED BY <2>3, <2>4, <2>6, <2>7 DEF ChainInv
<1>6. ASSUME NEW n \in Nodes, Save(n) PROVE ChainInv'
  <2>1. /\ UNCHANGED <<chain, panicked, db, status, cur, rows, pend, add>>
        /\ status[n] \in Up
        /\ file'[n] = chain[n].last /\ \A m \in Nodes \ {n} : file'[m] = file[m]
    BY <1>6, MembersFacts
       DEF Save, Running, Up, serverVars, nodeVars, TypeInv, TypeOK
  <2>2. chain[n].last \in Logged /\ Sequence(chain[n].last) \in Nat
    BY <2>1, LoggedFacts DEF ChainInv, ChainInvOf, TableInv
  <2>3. ChainInvOf(n)'
    BY <1>1, <2>1, <2>2 DEF ChainInv, ChainInvOf, Up, Outside
  <2>4. \A m \in Nodes \ {n} : ChainInvOf(m)'
    BY <1>1, <2>1, ChainFrame
  <2>5. \A c \in Clients : SnapshotInvOf(c)'
    BY <1>1, <2>1, SnapshotFrame
  <2> QED BY <2>3, <2>4, <2>5 DEF ChainInv
<1>7. CASE UNCHANGED vars
  BY <1>2, <1>7 DEF vars, nodeVars, diskVars
<1> QED
  BY <1>3, <1>4, <1>5, <1>6, <1>7, AddStepChain, FollowStepChain, StartChain,
     StopChain, RestartServerChain DEF Next

LEMMA NodeInvariant == Spec => []NodeInv
<1>1. Init => NodeInv
  BY InitTable, InitFeed, InitLife, InitBlock, InitRows, InitChain DEF NodeInv
<1>2. NodeInv /\ [Next]_vars => NodeInv'
  BY NextTable, NextFeed, NextLife, NextBlock, NextRows, NextChain
     DEF NodeInv, TableInv
<1> QED BY <1>1, <1>2, PTL DEF Spec

-----------------------------------------------------------------------------
(***************************************************************************)
(* The safety properties.                                                  *)
(***************************************************************************)

LEMMA RunningChain ==
    ASSUME NodeInv, NEW m \in Members, Running(m)
    PROVE  chain[m].last \in Logged
<1>1. CASE m = Server
  BY <1>1, NodeParts, LoggedFacts DEF TableInv
<1>2. CASE m # Server
  <2>1. m \in Nodes /\ status[m] \in Up
    BY <1>2 DEF Members, Running, Up
  <2> QED BY <2>1, NodeParts DEF ChainInv, ChainInvOf
<1> QED BY <1>1, <1>2

\* Two rows, as histories: the one with the lower sequence is a prefix.
LEMMA RowsArePrefixes ==
    ASSUME TableInv, NEW b \in Logged, NEW d \in Logged, Sequence(b) <= Sequence(d)
    PROVE  IsPrefix(b, d)
<1>1. b \in Block /\ d \in Block
  BY LoggedFacts DEF TableInv
<1>2. Begins(b, d)
  BY DEF TableInv, LogInv, OneHistory
<1> QED BY <1>1, <1>2, BeginsIsPrefix

\* Whatever the nodes were sent, lost or loaded again, and whoever was
\* restarted: of two members that run and have not panicked, one has accepted
\* a prefix of what the other has accepted.  apply_block checks a block and
\* applies it under two locks, so check alone does not give this.
THEOREM NoForkEver == Spec => []NoFork
<1>1. NodeInv => NoFork
  <2> SUFFICES ASSUME NodeInv, NEW m \in Members, NEW n \in Members,
                      Running(m), Running(n)
               PROVE  \/ IsPrefix(chain[m].last, chain[n].last)
                      \/ IsPrefix(chain[n].last, chain[m].last)
    BY DEF NoFork
  <2>1. chain[m].last \in Logged /\ chain[n].last \in Logged
    BY RunningChain
  <2>2. /\ TableInv /\ Sequence(chain[m].last) \in Nat /\ Sequence(chain[n].last) \in Nat
    BY <2>1, NodeParts, LoggedFacts DEF TableInv
  <2>3. \/ Sequence(chain[m].last) <= Sequence(chain[n].last)
        \/ Sequence(chain[n].last) <= Sequence(chain[m].last)
    BY <2>2
  <2> QED BY <2>1, <2>2, <2>3, RowsArePrefixes
<1> QED BY <1>1, NodeInvariant, PTL

\* At every point where a node can crash, load_trust_store accepts the rows
\* of its table over its file, and reaches at least the chain in memory: the
\* block is stored before it is applied, and the file is never ahead.
THEOREM RecoverableAlways == Spec => []Recoverable
<1>1. NodeInv => Recoverable
  <2> SUFFICES ASSUME NodeInv, NEW n \in Nodes, Running(n) \/ status[n] = "down"
               PROVE  /\ ReplayAccepted(file[n], rows[n])
                      /\ n \notin panicked /\ Running(n) =>
                             IsPrefix(chain[n].last, Replayed(file[n], rows[n]))
    BY DEF Recoverable
  <2> DEFINE last == Replayed(file[n], rows[n])
  <2> USE NodeParts
  <2>1. status[n] \notin Outside /\ (Running(n) => status[n] \in Up) /\ n \in Members
    BY MembersFacts DEF Running, Up, Outside
  <2>2. /\ file[n] \in Logged /\ last \in Logged
        /\ cur[n] <= Sequence(file[n]) => last = file[n]
        /\ cur[n] > Sequence(file[n]) => Sequence(last) = cur[n]
    BY <2>1, ReplayedIs DEF ChainInv, ChainInvOf
  <2>3. ReplayAccepted(file[n], rows[n])
    BY <2>2, ReplayIsAccepted
  <2>4. ASSUME Running(n) PROVE IsPrefix(chain[n].last, last)
    <3>1. /\ chain[n].last \in Logged
          /\ \/ Sequence(chain[n].last) <= Sequence(file[n])
             \/ Sequence(chain[n].last) <= cur[n]
      BY <2>1, <2>4 DEF ChainInv, ChainInvOf
    <3>2. /\ cur[n] \in Nat /\ Sequence(chain[n].last) \in Nat
          /\ Sequence(file[n]) \in Nat /\ Sequence(last) \in Nat
      BY <2>2, <3>1, LoggedFacts DEF RowsInv, TableInv
    <3>3. Sequence(chain[n].last) <= Sequence(last)
      <4> HIDE DEF last
      <4> QED BY <2>2, <3>1, <3>2
    <3> QED BY <2>2, <3>1, <3>3, RowsArePrefixes
  <2> QED BY <2>3, <2>4
<1> QED BY <1>1, NodeInvariant, PTL

(***************************************************************************)
(* The chain in memory only grows.                                         *)
(***************************************************************************)
LEMMA ApplyGrows ==
    ASSUME NodeInv, NEW n \in Nodes, status[n] \in Up, n \notin panicked,
           NEW b \in rows[n], ApplyAt(n, b)
    PROVE  /\ \A m \in Nodes \ {n} : chain'[m] = chain[m]
           /\ chain'[n].last \in Logged
           /\ Sequence(chain[n].last) <= Sequence(chain'[n].last)
<1> USE NodeParts
<1>1. /\ chain[n] \in ChainType /\ chain[n].last \in Logged
      /\ chain[n].state = ResultingState(chain[n].last)
  BY NodeFacts DEF ChainInv, ChainInvOf
<1>2. b \in Logged /\ Sequence(chain[n].last) \in Nat
  BY <1>1, LoggedFacts DEF RowsInv, TableInv
<1>3. /\ chain'[n] = Apply(chain[n], b)
      /\ \A m \in Nodes \ {n} : chain'[m] = chain[m]
  BY MembersFacts DEF ApplyAt, TypeInv, TypeOK
<1>4. CASE ApplyPanics(chain[n], b)
  <2>1. chain'[n].last = chain[n].last
    BY <1>3, <1>4 DEF Apply
  <2> QED BY <1>1, <1>2, <1>3, <2>1
<1>5. CASE ~ApplyPanics(chain[n], b)
  BY <1>1, <1>2, <1>3, <1>5, ApplyForward
<1> QED BY <1>4, <1>5

LEMMA ChainMoves ==
    ASSUME NodeInv, [Next]_vars, NEW n \in Nodes, status[n] \in Up, status'[n] \in Up
    PROVE  \/ chain'[n] = chain[n]
           \/ /\ chain'[n].last \in Logged
              /\ Sequence(chain[n].last) <= Sequence(chain'[n].last)
<1> DEFINE Goal == \/ chain'[n] = chain[n]
                   \/ /\ chain'[n].last \in Logged
                      /\ Sequence(chain[n].last) <= Sequence(chain'[n].last)
<1> SUFFICES Goal
  OBVIOUS
<1> USE NodeParts
<1>1. ASSUME NEW c \in Clients, ServerStep(c) PROVE Goal
  BY <1>1, MembersFacts DEF ServerStep, HandlerCheck, HandlerInsert, HandlerPublish,
                            HandlerApply, TypeInv, TypeOK
<1>2. ASSUME NEW c \in Clients, AddStep(c) PROVE Goal
  <2>1. CASE AddApply(c) /\ c \notin panicked
    <3>1. /\ c \in Nodes /\ Adding(c) /\ add[c].stage = "stored" /\ ApplyAt(c, add[c].block)
      BY <2>1, MembersFacts DEF AddApply, Adding
    <3>2. status[c] \in Up /\ add[c].block \in rows[c]
      BY <3>1 DEF LifeInv, Up, ChainInv, SnapshotInvOf
    <3> QED BY <2>1, <3>1, <3>2, ApplyGrows
  <2>2. CASE ~(AddApply(c) /\ c \notin panicked)
    BY <1>2, <2>2 DEF AddStep, PackageAndSend, AddAnswered, AddStore, AddApply
  <2> QED BY <2>1, <2>2
<1>3. ASSUME NEW m \in Nodes, FeedStep(m) PROVE Goal
  BY <1>3 DEF FeedStep, Subscribe, Select, SendCurrent, Drain, SendUpToDate, Forward
<1>4. ASSUME NEW m \in Nodes, FollowStep(m) PROVE Goal
  <2>1. CASE EndSession(m)
    <3>1. CASE session[m] = "sync"
      <4>1. status'[m] = "down" /\ \A k \in Nodes \ {m} : chain'[k] = chain[k]
        BY <2>1, <3>1, MembersFacts DEF EndSession, TypeInv, TypeOK
      <4> QED BY <4>1 DEF Up
    <3>2. CASE session[m] # "sync"
      BY <2>1, <3>2 DEF EndSession
    <3> QED BY <3>1, <3>2
  <2>2. CASE ApplyBlock(m) /\ ~EndSession(m)
    <3>1. pend[m].stage = "stored" /\ m \notin panicked /\ ApplyAt(m, pend[m].block)
      BY <2>2 DEF ApplyBlock
    <3>2. status[m] \in Up /\ pend[m].block \in rows[m]
      BY <3>1 DEF LifeInv, ChainInv, ChainInvOf
    <3> QED BY <3>1, <3>2, ApplyGrows
  <2>3. CASE ~EndSession(m) /\ ~ApplyBlock(m)
    BY <1>4, <2>3 DEF FollowStep, ReadTransaction, StoreBlock, ReadUpToDate, ReadClose
  <2> QED BY <2>1, <2>2, <2>3
<1>5. ASSUME NEW m \in Nodes, Start(m) PROVE Goal
  <2>1. /\ status[m] = "down" /\ \A k \in Nodes \ {m} : chain'[k] = chain[k]
    BY <1>5, MembersFacts DEF Start, TypeInv, TypeOK
  <2> QED BY <2>1 DEF Up
<1>6. ASSUME NEW m \in Nodes, Save(m) PROVE Goal
  BY <1>6 DEF Save
<1>7. ASSUME NEW m \in Nodes, Stop(m) PROVE Goal
  <2>1. \A k \in Nodes \ {m} : chain'[k] = chain[k]
    BY <1>7, MembersFacts DEF Stop, TypeInv, TypeOK
  <2>2. status'[m] = "down"
    <3>1. CASE m \in Clients /\ add[m].stage # "idle"
      <4>1. status' = [status EXCEPT ![m] = "down", ![add[m].agent] = "failed"]
        BY <1>7, <3>1 DEF Stop
      <4>2. status[add[m].agent] = "joining" /\ status[m] \in Up
        BY <1>7, <3>1 DEF LifeInv, Adding, Stop, Up
      <4>3. add[m].agent # m
        BY <4>2 DEF Up
      <4> QED BY <4>1, <4>3 DEF TypeInv, TypeOK
    <3>2. CASE ~(m \in Clients /\ add[m].stage # "idle")
      BY <1>7, <3>2 DEF Stop, TypeInv, TypeOK
    <3> QED BY <3>1, <3>2
  <2> QED BY <2>1, <2>2 DEF Up
<1>8. CASE RestartServer
  <2>1. \/ chain'[n] = chain[n]
        \/ status'[n] = "down"
    BY <1>8, MembersFacts DEF RestartServer
  <2> QED BY <2>1 DEF Up
<1>9. ASSUME NEW c \in Clients, NEW a \in Agents, Enroll(c, a) PROVE Goal
  BY <1>9 DEF Enroll
<1>10. CASE UNCHANGED vars
  BY <1>10 DEF vars
<1> HIDE DEF Goal
<1> QED BY <1>1, <1>2, <1>3, <1>4, <1>5, <1>6, <1>7, <1>8, <1>9, <1>10 DEF Next

\* While a node runs, no step takes back a block of its accepted history:
\* Chain::apply tests neither the sequence nor the previous hash, but a block
\* that is applied out of turn panics or is not shorter.
THEOREM AcceptedOnlyGrows == Spec => NeverRegresses
<1> DEFINE Grows == \A n \in Nodes : Running(n) /\ Running(n)' =>
                        IsPrefix(chain[n].last, chain'[n].last)
<1>1. NodeInv /\ NodeInv' /\ [Next]_vars => [Grows]_vars
  <2> SUFFICES ASSUME NodeInv, [Next]_vars, NEW n \in Nodes, Running(n), Running(n)'
               PROVE  IsPrefix(chain[n].last, chain'[n].last)
    OBVIOUS
  <2>1. status[n] \in Up /\ status'[n] \in Up /\ n \in Members
    BY MembersFacts DEF Running, Up
  <2>2. TableInv /\ chain[n].last \in Logged /\ Sequence(chain[n].last) \in Nat
    BY <2>1, RunningChain, NodeParts, LoggedFacts DEF TableInv
  <2>3. CASE chain'[n] = chain[n]
    BY <2>2, <2>3, RowsArePrefixes
  <2>4. CASE chain'[n] # chain[n]
    BY <2>1, <2>2, <2>4, ChainMoves, RowsArePrefixes
  <2> QED BY <2>3, <2>4
<1> QED BY <1>1, NodeInvariant, PTL DEF Spec, NeverRegresses

(***************************************************************************)
(* The newest row, and the agents that it knows.                           *)
(***************************************************************************)
LEMMA LogIsNewest ==
    ASSUME TableInv
    PROVE  Log \in Logged /\ \A d \in Logged : Sequence(d) <= Sequence(Log)
<1>1. /\ \A d \in Logged : Sequence(d) \in Nat /\ Sequence(d) >= 1
      /\ Sequence(Genesis) = 1
  BY LoggedFacts DEF TableInv
<1>2. CASE db = {}
  BY <1>1, <1>2 DEF Log, Logged
<1>3. CASE db # {}
  <2>1. \E b \in db : \A d \in db : Sequence(d) <= Sequence(b)
    BY <1>3 DEF TableInv, TypeInv, IsTable
  <2>2. Log \in db /\ \A d \in db : Sequence(d) <= Sequence(Log)
    BY <1>3, <2>1 DEF Log
  <2> QED BY <1>1, <2>2 DEF Logged
<1> QED BY <1>2, <1>3

LEMMA StateGrows ==
    ASSUME TableInv, NEW b \in Logged
    PROVE  ResultingState(b) \subseteq ResultingState(Log)
<1>1. /\ Log \in Logged /\ Sequence(b) <= Sequence(Log)
      /\ Sequence(b) \in Nat /\ Sequence(Log) \in Nat
  BY LogIsNewest, LoggedFacts DEF TableInv
<1>2. Begins(b, Log)
  BY <1>1 DEF TableInv, LogInv, OneHistory
<1>3. /\ Len(b) \in Nat /\ Len(Log) \in Nat /\ Len(b) <= Len(Log)
      /\ \A i \in 1 .. Len(b) : b[i] = Log[i]
  BY <1>1, <1>2 DEF Begins, Sequence
<1> QED BY <1>3 DEF ResultingState

\* An agent leaves the states of one that has not joined only by the end of
\* an add whose block is a row of the table.
LEMMA JoinStep ==
    ASSUME NodeInv, [Next]_vars, NEW a \in Agents,
           status[a] \in Outside, status'[a] \notin Outside
    PROVE  \E b \in db : a \in ResultingState(b)
<1> USE NodeParts, MembersFacts
<1>1. a \in Nodes /\ status'[a] # status[a]
      /\ status[a] \notin {"down", "syncing", "ready", "offline"}
  BY DEF Outside
<1>2. ASSUME NEW c \in Clients, AddStep(c) PROVE \E b \in db : a \in ResultingState(b)
  <2>1. /\ Adding(c) /\ ~AddFails(c) /\ status'[a] # status[a] /\ AddApply(c)
    <3>1. CASE AddFails(c)
      <4>1. status'[a] = "failed" \/ status'[a] = status[a]
        BY <1>1, <3>1 DEF AddFails, TypeInv, TypeOK
      <4> QED BY <1>1, <4>1 DEF Outside
    <3>2. CASE ~AddFails(c)
      BY <1>1, <1>2, <3>2 DEF AddStep, PackageAndSend, AddAnswered, AddStore, AddApply,
                              Adding
    <3> QED BY <3>1, <3>2
  <2>2. /\ status' = [status EXCEPT ![add[c].agent] = "down"]
        /\ add[c].stage = "stored"
    BY <2>1 DEF AddApply
  <2>3. a = add[c].agent
    BY <1>1, <2>2 DEF TypeInv, TypeOK
  <2>4. add[c].block \in db /\ Transaction(add[c].block) = a
    BY <2>2, <2>3 DEF BlockInv, BlockInvOf
  <2>5. Len(add[c].block) \in Nat /\ Len(add[c].block) >= 1
    BY <2>4, LoggedFacts DEF TableInv, Logged, Sequence
  <2>6. a \in ResultingState(add[c].block)
    BY <2>4, <2>5 DEF ResultingState, Transaction
  <2> QED BY <2>4, <2>6
<1>3. ASSUME NEW c \in Clients, ServerStep(c) PROVE FALSE
  BY <1>1, <1>3 DEF ServerStep, HandlerCheck, HandlerInsert, HandlerPublish,
                    HandlerApply, nodeVars
<1>4. ASSUME NEW m \in Nodes, FeedStep(m) PROVE FALSE
  BY <1>1, <1>4 DEF FeedStep, Subscribe, Select, SendCurrent, Drain, SendUpToDate,
                    Forward, nodeVars
<1>5. ASSUME NEW m \in Nodes, FollowStep(m) PROVE FALSE
  <2>1. /\ \A k \in Nodes \ {m} : status'[k] = status[k]
        /\ status'[m] # status[m] => session[m] = "sync"
    <3>1. ASSUME EndSession(m)
          PROVE  /\ \A k \in Nodes \ {m} : status'[k] = status[k]
                 /\ status'[m] # status[m] => session[m] = "sync"
      BY <3>1 DEF EndSession, TypeInv, TypeOK
    <3> QED BY <1>5, <3>1 DEF FollowStep, ReadTransaction, StoreBlock, ApplyBlock,
                              ReadUpToDate, ReadClose, TypeInv, TypeOK
  <2> QED BY <1>1, <2>1 DEF LifeInv
<1>6. ASSUME NEW m \in Nodes, Start(m) \/ Save(m) PROVE FALSE
  BY <1>1, <1>6 DEF Start, Save, nodeVars, TypeInv, TypeOK
<1>7. ASSUME NEW m \in Nodes, Stop(m) PROVE FALSE
  <2>1. status[m] \in Up
    BY <1>7 DEF Stop, Up
  <2>2. \A k \in Nodes \ {m} : status'[k] = status[k] \/ status'[k] = "failed"
    BY <1>7 DEF Stop, TypeInv, TypeOK
  <2> QED BY <1>1, <2>1, <2>2 DEF Up, Outside
<1>8. CASE RestartServer
  <2>1. \/ session[a] = "sync" \/ status[a] = "ready"
        \/ status'[a] = "failed" \/ status'[a] = status[a]
    BY <1>1, <1>8 DEF RestartServer
  <2> QED BY <1>1, <2>1 DEF LifeInv, Outside
<1>9. ASSUME NEW c \in Clients, NEW e \in Agents, Enroll(c, e) PROVE FALSE
  <2>1. status'[a] = status[a] \/ status'[a] = "joining"
    BY <1>1, <1>9 DEF Enroll, TypeInv, TypeOK
  <2> QED BY <1>1, <2>1 DEF Outside
<1>10. CASE UNCHANGED vars
  BY <1>1, <1>10 DEF vars, nodeVars
<1> QED BY <1>2, <1>3, <1>4, <1>5, <1>6, <1>7, <1>8, <1>9, <1>10 DEF Next

JoinInv ==
    \A a \in Agents : status[a] \notin Outside => \E b \in db : a \in ResultingState(b)

\* An agent that was told Ok is in the log, whatever failed around it: the
\* client is answered Ok only for its own block, after the block is a row.
THEOREM JoinedAgentsAreRecorded == Spec => []JoinedAgentsRecorded
<1>1. Init => JoinInv
  BY MembersFacts, ConstantsAssumption DEF Init, JoinInv, Outside
<1>2. NodeInv /\ JoinInv /\ [Next]_vars => JoinInv'
  <2> SUFFICES ASSUME NodeInv, JoinInv, [Next]_vars, NEW a \in Agents,
                      status'[a] \notin Outside
               PROVE  \E b \in db' : a \in ResultingState(b)
    BY DEF JoinInv
  <2>1. \E b \in db : a \in ResultingState(b)
    BY JoinStep DEF JoinInv
  <2>2. db \subseteq db'
    BY NodeParts, TableStep
  <2> QED BY <2>1, <2>2
<1>3. NodeInv /\ JoinInv => JoinedAgentsRecorded
  BY NodeParts, StateGrows DEF JoinInv, JoinedAgentsRecorded, Logged, Outside
<1> QED BY <1>1, <1>2, <1>3, NodeInvariant, PTL DEF Spec

(***************************************************************************)
(* TrustSync implements TrustLog.                                          *)
(***************************************************************************)
\* What node n would load if it were started now.
Loads(n) == Replayed(file[n], rows[n])

DurableIs ==
    \A n \in Nodes :
        /\ status[n] \in Outside => Loads(n) = NoBlock
        /\ status[n] \notin Outside =>
              /\ Loads(n) \in Logged
              /\ cur[n] <= Sequence(file[n]) => Loads(n) = file[n]
              /\ cur[n] > Sequence(file[n]) => Sequence(Loads(n)) = cur[n]

LEMMA DurableNow == NodeInv => DurableIs
BY NodeParts, ReplayedIs DEF DurableIs, Loads

LEMMA DurableNext == NodeInv' => DurableIs'
BY DurableNow, PTL

\* A step by which only node n comes to load something else: more than before.
Learns(n) ==
    /\ db' = db
    /\ \A m \in Nodes \ {n} : Loads(m)' = Loads(m)
    /\ Loads(n)' \in Logged
    /\ \/ Loads(n) = NoBlock
       \/ Loads(n) \in Logged /\ Sequence(Loads(n)) <= Sequence(Loads(n)')

LEMMA StoreLearns ==
    ASSUME NodeInv, NodeInv', NEW n \in Nodes, status[n] \in Up, status' = status,
           NEW b \in db, db' = db, UNCHANGED file,
           TableAccepts(rows[n], cur[n], b), TableAdd(n, b)
    PROVE  Learns(n)
<1>1. /\ \A m \in Nodes \ {n} : rows'[m] = rows[m] /\ cur'[m] = cur[m]
      /\ cur[n] \in Nat /\ (cur'[n] = cur[n] \/ cur'[n] = cur[n] + 1)
  BY TableAddRows, NodeParts DEF RowsInv
<1>2. DurableIs /\ DurableIs'
  BY DurableNow, DurableNext
<1>3. status[n] \notin Outside /\ status'[n] \notin Outside
  BY DEF Up, Outside
<1>4. Sequence(file[n]) \in Nat
  BY <1>3, NodeParts, LoggedFacts DEF ChainInv, ChainInvOf, TableInv
<1>5. /\ Loads(n) \in Logged /\ Loads(n)' \in Logged
      /\ Sequence(Loads(n)) <= Sequence(Loads(n)')
  <2>1. /\ Loads(n) \in Logged
        /\ cur[n] <= Sequence(file[n]) => Loads(n) = file[n]
        /\ cur[n] > Sequence(file[n]) => Sequence(Loads(n)) = cur[n]
    BY <1>2, <1>3 DEF DurableIs
  <2>2. /\ Loads(n)' \in Logged
        /\ cur'[n] <= Sequence(file[n]) => Loads(n)' = file[n]
        /\ cur'[n] > Sequence(file[n]) => Sequence(Loads(n)') = cur'[n]
    BY <1>2, <1>3 DEF DurableIs, Logged
  <2> QED BY <1>1, <1>4, <2>1, <2>2
<1>6. \A m \in Nodes \ {n} : Loads(m)' = Loads(m)
  BY <1>1 DEF Loads
<1> QED BY <1>5, <1>6 DEF Learns

LEMMA StartLearns ==
    ASSUME NodeInv, NodeInv', NEW n \in Nodes, Start(n)
    PROVE  \A m \in Nodes : Loads(m)' = Loads(m)
<1> USE NodeParts
<1>1. /\ status[n] = "down" /\ status' = [status EXCEPT ![n] = "syncing"]
      /\ rows' = rows /\ file' = [file EXCEPT ![n] = Loads(n)]
      /\ cur' = [cur EXCEPT ![n] = MaxSequence(rows[n])] /\ db' = db
  BY DEF Start, Loads, serverVars
<1>2. cur' = cur
  BY <1>1, MaxSequenceIsCur DEF TypeInv, TypeOK
<1>3. /\ file'[n] = Loads(n) /\ status'[n] = "syncing"
      /\ \A m \in Nodes \ {n} : file'[m] = file[m]
  BY <1>1 DEF TypeInv, TypeOK
<1>4. /\ cur[n] <= Sequence(file[n]) => Loads(n) = file[n]
      /\ cur[n] > Sequence(file[n]) => Sequence(Loads(n)) = cur[n]
      /\ Loads(n) \in Logged
  BY <1>1, DurableNow DEF DurableIs, Outside
<1>5. cur'[n] <= Sequence(file'[n]) => Loads(n)' = file'[n]
  BY <1>3, DurableNext DEF DurableIs, Outside
<1>6. cur[n] \in Nat /\ Sequence(file[n]) \in Nat /\ Sequence(Loads(n)) \in Nat
  BY <1>1, <1>4, LoggedFacts DEF RowsInv, ChainInv, ChainInvOf, TableInv, Outside
<1>7. cur[n] <= Sequence(Loads(n))
  BY <1>4, <1>6
<1>8. Loads(n)' = Loads(n)
  BY <1>2, <1>3, <1>5, <1>7
<1> QED BY <1>1, <1>3, <1>8 DEF Loads

LEMMA SaveLearns ==
    ASSUME NodeInv, NodeInv', NEW n \in Nodes, Save(n)
    PROVE  \A m \in Nodes : Loads(m)' = Loads(m)
<1> USE NodeParts
<1>1. /\ status[n] \in Up /\ UNCHANGED <<status, rows, cur, db>>
      /\ file'[n] = chain[n].last /\ \A m \in Nodes \ {n} : file'[m] = file[m]
  BY MembersFacts DEF Save, Running, Up, serverVars, nodeVars, TypeInv, TypeOK
<1>2. status[n] \notin Outside /\ Logged' = Logged
  BY <1>1 DEF Up, Outside, Logged
<1>3. /\ chain[n].last \in Logged /\ file[n] \in Logged
      /\ Sequence(file[n]) <= Sequence(chain[n].last)
      /\ \/ Sequence(chain[n].last) <= Sequence(file[n])
         \/ Sequence(chain[n].last) <= cur[n]
  BY <1>1, <1>2 DEF ChainInv, ChainInvOf
<1>4. /\ cur[n] <= Sequence(file[n]) => Loads(n) = file[n]
      /\ cur[n] > Sequence(file[n]) => Sequence(Loads(n)) = cur[n]
      /\ Loads(n) \in Logged
  BY <1>2, DurableNow DEF DurableIs
<1>5. /\ cur[n] <= Sequence(chain[n].last) => Loads(n)' = chain[n].last
      /\ cur[n] > Sequence(chain[n].last) => Sequence(Loads(n)') = cur[n]
      /\ Loads(n)' \in Logged
  BY <1>1, <1>2, DurableNext DEF DurableIs
<1>6. /\ cur[n] \in Nat /\ Sequence(file[n]) \in Nat /\ Sequence(chain[n].last) \in Nat
      /\ Sequence(Loads(n)) \in Nat /\ Sequence(Loads(n)') \in Nat
  BY <1>3, <1>4, <1>5, LoggedFacts DEF RowsInv, TableInv
<1>7. Sequence(Loads(n)') = Sequence(Loads(n))
  BY <1>3, <1>4, <1>5, <1>6
<1>8. Loads(n)' = Loads(n)
  BY <1>4, <1>5, <1>7, LoggedFacts DEF TableInv
<1> QED BY <1>1, <1>8 DEF Loads

LEMMA AddApplyLearns ==
    ASSUME NodeInv, NodeInv', NEW c \in Clients, AddApply(c)
    PROVE  (\A m \in Nodes : Loads(m)' = Loads(m)) \/ \E n \in Nodes : Learns(n)
<1> USE NodeParts
<1>1. UNCHANGED <<rows, cur, db>> /\ Adding(c)
  BY DEF AddApply, serverVars, Adding
<1>2. CASE UNCHANGED file
  BY <1>1, <1>2 DEF Loads
<1>3. CASE ~UNCHANGED file
  <2> PICK a : a = add[c].agent
    OBVIOUS
  <2>1. /\ status' = [status EXCEPT ![a] = "down"]
        /\ file' = [file EXCEPT ![a] = add[c].snapshot]
    BY <1>3 DEF AddApply
  <2>2. a \in Nodes /\ status[a] = "joining"
    BY <1>1, MembersFacts DEF LifeInv
  <2>3. status'[a] = "down" /\ \A m \in Nodes \ {a} : file'[m] = file[m]
    BY <2>1, <2>2 DEF TypeInv, TypeOK
  <2>4. Loads(a) = NoBlock
    BY <2>2, DurableNow DEF DurableIs, Outside
  <2>5. Loads(a)' \in Logged
    BY <1>1, <2>2, <2>3, DurableNext DEF DurableIs, Outside, Logged
  <2>6. \A m \in Nodes \ {a} : Loads(m)' = Loads(m)
    BY <1>1, <2>3 DEF Loads
  <2> QED BY <1>1, <2>2, <2>4, <2>5, <2>6 DEF Learns
<1> QED BY <1>2, <1>3

\* Whatever the step, at most one node comes to load something else.
LEMMA NextLearns ==
    ASSUME NodeInv, NodeInv', [Next]_vars
    PROVE  (\A m \in Nodes : Loads(m)' = Loads(m)) \/ \E n \in Nodes : Learns(n)
<1> DEFINE Goal == (\A m \in Nodes : Loads(m)' = Loads(m)) \/ \E n \in Nodes : Learns(n)
<1> SUFFICES Goal
  OBVIOUS
<1> USE NodeParts
<1>1. ASSUME UNCHANGED <<file, rows>> PROVE Goal
  BY <1>1 DEF Loads
<1> HIDE DEF Goal
<1>2. ASSUME NEW c \in Clients, ServerStep(c) PROVE Goal
  BY <1>1, <1>2 DEF ServerStep, HandlerCheck, HandlerInsert, HandlerPublish,
                    HandlerApply, diskVars
<1>3. ASSUME NEW c \in Clients, AddStep(c) PROVE Goal
  <2>1. CASE AddStore(c) /\ TableAccepts(rows[c], cur[c], add[c].block)
    <3>1. /\ c \in Nodes /\ Adding(c) /\ add[c].block \in db /\ status' = status
          /\ UNCHANGED <<db, file>> /\ TableAdd(c, add[c].block)
      BY <2>1, MembersFacts DEF AddStore, Adding, BlockInv, BlockInvOf, serverVars
    <3>2. status[c] \in Up
      BY <3>1 DEF LifeInv, Up
    <3> QED BY <2>1, <3>1, <3>2, StoreLearns DEF Goal
  <2>2. CASE AddApply(c)
    BY <2>2, AddApplyLearns DEF Goal
  <2> QED BY <1>1, <1>3, <2>1, <2>2
          DEF AddStep, PackageAndSend, AddAnswered, AddStore, diskVars
<1>4. ASSUME NEW n \in Nodes, FeedStep(n) PROVE Goal
  BY <1>1, <1>4 DEF FeedStep, Subscribe, Select, SendCurrent, Drain, SendUpToDate,
                    Forward, diskVars
<1>5. ASSUME NEW n \in Nodes, FollowStep(n) PROVE Goal
  <2>1. CASE StoreBlock(n) /\ TableAccepts(rows[n], cur[n], pend[n].block)
    <3>1. /\ pend[n].stage = "checked" /\ status' = status
          /\ UNCHANGED <<db, file>> /\ TableAdd(n, pend[n].block)
      BY <2>1 DEF StoreBlock, serverVars
    <3>2. status[n] \in Up /\ pend[n].block \in db
      BY <3>1 DEF LifeInv, FeedInv
    <3> QED BY <2>1, <3>1, <3>2, StoreLearns DEF Goal
  <2> QED BY <1>1, <1>5, <2>1
          DEF FollowStep, ReadTransaction, StoreBlock, ApplyBlock, ReadUpToDate,
              ReadClose, diskVars
<1>6. ASSUME NEW n \in Nodes, Start(n) \/ Save(n) PROVE Goal
  BY <1>6, StartLearns, SaveLearns DEF Goal
<1>7. ASSUME NEW n \in Nodes, Stop(n) PROVE Goal
  BY <1>1, <1>7 DEF Stop, diskVars
<1>8. ASSUME NEW c \in Clients, NEW a \in Agents, Enroll(c, a) PROVE Goal
  BY <1>1, <1>8 DEF Enroll, diskVars
<1>9. CASE RestartServer \/ UNCHANGED vars
  BY <1>1, <1>9 DEF RestartServer, vars, diskVars
<1> QED BY <1>2, <1>3, <1>4, <1>5, <1>6, <1>7, <1>8, <1>9 DEF Next

\* A row that is added is the newest, and it adds a new certificate.
LEMMA LogExtends ==
    ASSUME NodeInv, NodeInv', [Next]_vars, db' # db
    PROVE  /\ \E cert \in Certs \ ResultingState(Log) : Log' = Append(Log, cert)
           /\ UNCHANGED <<file, rows>>
<1> USE NodeParts
<1>1. \E c \in Clients : HandlerInsert(c) /\ InsertAccepted(handler[c].block)
  <2>1. ASSUME NEW c \in Clients, AddStep(c) PROVE FALSE
    BY <2>1 DEF AddStep, PackageAndSend, AddAnswered, AddStore, AddApply, serverVars
  <2>2. ASSUME NEW n \in Nodes, FeedStep(n) PROVE FALSE
    BY <2>2
       DEF FeedStep, Subscribe, Select, SendCurrent, Drain, SendUpToDate,
           Forward, serverVars
  <2>3. ASSUME NEW n \in Nodes, FollowStep(n) PROVE FALSE
    BY <2>3
       DEF FollowStep, ReadTransaction, StoreBlock, ApplyBlock, ReadUpToDate,
           ReadClose, serverVars
  <2>4. ASSUME NEW n \in Nodes, Start(n) \/ Save(n) \/ Stop(n) PROVE FALSE
    BY <2>4 DEF Start, Save, Stop, serverVars
  <2>5. ASSUME NEW c \in Clients, NEW a \in Agents, Enroll(c, a) PROVE FALSE
    BY <2>5 DEF Enroll, serverVars
  <2>6. ~(RestartServer \/ UNCHANGED vars)
    BY DEF RestartServer, vars, serverVars
  <2>7. ASSUME NEW c \in Clients, ServerStep(c)
        PROVE  HandlerInsert(c) /\ InsertAccepted(handler[c].block)
    BY <2>7 DEF ServerStep, HandlerCheck, HandlerInsert, HandlerPublish, HandlerApply
  <2> QED BY <2>1, <2>2, <2>3, <2>4, <2>5, <2>6, <2>7 DEF Next
<1>2. PICK c \in Clients : HandlerInsert(c) /\ InsertAccepted(handler[c].block)
  BY <1>1
<1> PICK b : b = handler[c].block
  OBVIOUS
<1>3. /\ db' = db \cup {b} /\ UNCHANGED <<file, rows>>
  BY <1>2 DEF HandlerInsert, diskVars
<1>4. /\ b \in Block /\ Sequence(b) = Sequence(chain[Server].last) + 1
      /\ \A d \in Logged : Sequence(d) <= Sequence(chain[Server].last)
      /\ Begins(chain[Server].last, b)
      /\ Transaction(b) \notin ResultingState(chain[Server].last)
  BY <1>2, InsertExtends DEF TableInv
<1>5. /\ Log \in Logged /\ chain[Server].last \in Logged
      /\ Log \in Block /\ Sequence(Log) \in Nat /\ Sequence(chain[Server].last) \in Nat
      /\ Sequence(chain[Server].last) <= Sequence(Log)
  BY LogIsNewest, LoggedFacts DEF TableInv
<1>6. chain[Server].last = Log
  BY <1>4, <1>5, LoggedFacts DEF TableInv
<1>7. Log' = b
  <2>1. \A d \in db : d \in Logged
    BY DEF Logged
  <2>2. \A d \in db' : Sequence(d) <= Sequence(b)
    BY <1>3, <1>4, <1>5, <2>1, LoggedFacts DEF TableInv
  <2>3. \A x \in db' : (\A d \in db' : Sequence(d) <= Sequence(x)) => x = b
    BY <1>3, <1>4, <1>5, <2>1, LoggedFacts DEF TableInv
  <2>4. Log' = CHOOSE x \in db' : \A d \in db' : Sequence(d) <= Sequence(x)
    BY <1>3 DEF Log
  <2>5. b \in db'
    BY <1>3
  <2> QED BY <2>2, <2>3, <2>4, <2>5
<1>8. /\ b \in Seq(Certs) /\ Log \in Seq(Certs) /\ Len(b) = Len(Log) + 1
      /\ Len(Log) \in Nat /\ \A i \in 1 .. Len(Log) : Log[i] = b[i]
  BY <1>4, <1>5, <1>6 DEF Block, Begins, Sequence
<1>9. Transaction(b) \in Certs /\ Transaction(b) = b[Len(b)]
  BY <1>8 DEF Transaction
<1>10. b = Append(Log, Transaction(b))
  <2>1. Append(Log, Transaction(b)) \in Seq(Certs)
    BY <1>8, <1>9
  <2>2. /\ Len(Append(Log, Transaction(b))) = Len(b)
        /\ \A i \in 1 .. Len(b) : Append(Log, Transaction(b))[i] = b[i]
    BY <1>8, <1>9
  <2> QED BY <1>8, <2>1, <2>2, SeqEqual
<1> QED BY <1>3, <1>4, <1>6, <1>7, <1>9, <1>10

LEMMA InitImplements == Init => Abstract!Init
<1> SUFFICES ASSUME Init PROVE Abstract!Init
  OBVIOUS
<1>1. Log = <<Server>> /\ Server \in Certs
  BY MembersFacts DEF Init, Log, Genesis
<1>2. ASSUME NEW n \in Nodes PROVE Replayed(file[n], rows[n]) \in {NoBlock, Log}
  <2>1. rows[n] = {} /\ file[n] \in {NoBlock, Log}
    BY <1>1 DEF Init, Genesis
  <2>2. RowsAfter(rows[n], Sequence(file[n])) = << >>
    BY <2>1, RowsAfterNone
  <2> QED BY <2>1, <2>2 DEF Replayed
<1> QED BY <1>1, <1>2 DEF Abstract!Init, Abstract!NoBlock, NoBlock, Durable

LEMMA ExtendImplements ==
    ASSUME NodeInv, NodeInv', [Next]_vars, db' # db
    PROVE  Abstract!Extend
<1>1. /\ \E cert \in Certs \ ResultingState(Log) : Log' = Append(Log, cert)
      /\ UNCHANGED <<file, rows>>
  BY LogExtends
<1>2. Durable' = Durable
  BY <1>1 DEF Durable
<1> QED BY <1>1, <1>2 DEF Abstract!Extend, Abstract!ResultingState, ResultingState

LEMMA LearnImplements ==
    ASSUME NodeInv, NodeInv', NEW n \in Nodes, Learns(n), Loads(n)' # Loads(n)
    PROVE  Abstract!Learn(n)
<1> USE NodeParts
<1>1. Log' = Log
  BY DEF Learns, Log
<1>2. /\ Loads(n)' \in Logged /\ Log \in Logged /\ Sequence(Loads(n)') <= Sequence(Log)
      /\ Loads(n)' \in Block /\ Log \in Block /\ Begins(Loads(n)', Log)
      /\ Sequence(Loads(n)') \in Nat /\ Sequence(Log) \in Nat /\ Sequence(Loads(n)') >= 1
  BY LogIsNewest, LoggedFacts DEF Learns, TableInv, LogInv, OneHistory
<1>3. Loads(n)' = SubSeq(Log, 1, Len(Loads(n)'))
  BY <1>2, BeginsIsPrefix DEF Sequence
<1>4. /\ Len(Loads(n)) \in Nat /\ Len(Loads(n)) < Len(Loads(n)')
      /\ IsPrefix(Loads(n), Log)
  <2>1. CASE Loads(n) = NoBlock
    <3>1. << >> \in Block /\ Sequence(<< >>) = 0
      BY MembersFacts DEF NoBlock, Sequence
    <3>2. Begins(<< >>, Log)
      BY <1>2, <3>1 DEF Begins
    <3>3. IsPrefix(<< >>, Log)
      BY <1>2, <3>1, <3>2, BeginsIsPrefix
    <3> QED BY <1>2, <2>1, <3>1, <3>3 DEF NoBlock, Sequence
  <2>2. CASE Loads(n) \in Logged /\ Sequence(Loads(n)) <= Sequence(Loads(n)')
    <3>1. Sequence(Loads(n)) \in Nat /\ Sequence(Loads(n)) # Sequence(Loads(n)')
      BY <1>2, <2>2, LoggedFacts DEF TableInv
    <3>2. Sequence(Loads(n)) < Sequence(Loads(n)') /\ Sequence(Loads(n)) <= Sequence(Log)
      BY <1>2, <2>2, <3>1
    <3> QED BY <1>2, <2>2, <3>1, <3>2, RowsArePrefixes DEF Sequence
  <2> QED BY <2>1, <2>2 DEF Learns
<1>5. Len(Loads(n)') \in Len(Loads(n)) + 1 .. Len(Log)
  BY <1>2, <1>4 DEF Sequence
<1>6. Durable' = [Durable EXCEPT ![n] = SubSeq(Log, 1, Len(Loads(n)'))]
  <2>1. Durable' = [m \in Nodes |-> Loads(m)'] /\ Durable = [m \in Nodes |-> Loads(m)]
    BY DEF Durable, Loads
  <2>2. \A m \in Nodes \ {n} : Loads(m)' = Loads(m)
    BY DEF Learns
  <2> QED BY <1>3, <2>1, <2>2
<1>7. Durable[n] = Loads(n)
  BY DEF Durable, Loads
<1> QED BY <1>1, <1>4, <1>5, <1>6, <1>7
        DEF Abstract!Learn, Abstract!IsPrefix, IsPrefix

\* Trust-store replication implements TrustLog: the server's table is one
\* append-only log, and what a node would load after a crash is a prefix of
\* it that only grows, whatever is lost, stored twice, applied or restarted.
THEOREM SyncImplementsLog == Spec => Implements
<1>1. NodeInv /\ NodeInv' /\ [Next]_vars => [Abstract!Next]_<<Log, Durable>>
  <2> SUFFICES ASSUME NodeInv, NodeInv', [Next]_vars
               PROVE  Abstract!Next \/ UNCHANGED <<Log, Durable>>
    OBVIOUS
  <2>1. CASE db' # db
    BY <2>1, ExtendImplements DEF Abstract!Next
  <2>2. CASE db' = db
    <3>1. Log' = Log
      BY <2>2 DEF Log
    <3>2. CASE \A m \in Nodes : Loads(m)' = Loads(m)
      <4>1. Durable' = Durable
        BY <3>2 DEF Durable, Loads
      <4> QED BY <3>1, <4>1
    <3>3. ASSUME NEW n \in Nodes, Learns(n), Loads(n)' # Loads(n)
          PROVE  Abstract!Next
      BY <3>3, LearnImplements DEF Abstract!Next
    <3>4. CASE \E n \in Nodes : Learns(n)
      BY <3>2, <3>3, <3>4 DEF Learns
    <3> QED BY <3>2, <3>4, NextLearns
  <2> QED BY <2>1, <2>2
<1> QED BY <1>1, InitImplements, NodeInvariant, PTL DEF Spec, Implements, Abstract!Spec

(***************************************************************************)
(* No lost update: until the server is restarted, whatever it has          *)
(* broadcast is at a live node or on its way to it.                        *)
(***************************************************************************)
Newer(q, k) == \E i \in 1 .. Len(q) : Sequence(q[i]) >= k

NewerUpdate(w, k) ==
    \E i \in 1 .. Len(w) : w[i].kind = "Transaction" /\ Sequence(w[i].data) >= k

\* A block with sequence k or more is in node n's chain, or on its way there:
\* selected or queued at the server, on the wire, or taken by apply_block.
UnderWay(n, k) ==
    \/ Sequence(chain[n].last) >= k
    \/ receiver[n].phase = "selected" /\ Newer(receiver[n].current, k)
    \/ Newer(receiver[n].queue, k)
    \/ NewerUpdate(wire[n], k)
    \/ pend[n].stage # "idle" /\ Sequence(pend[n].block) >= k

Feeding == {"selected", "draining", "digest", "live"}

LiveInvOf(n) ==
    session[n] # "off" =>
        /\ receiver[n].phase # "off" => /\ 1 <= receiver[n].after
                                        /\ receiver[n].after <= Sequence(chain[n].last)
        /\ n \notin panicked /\ receiver[n].phase \in Feeding => UnderWay(n, curSeq)

LiveInv == \A n \in Nodes : LiveInvOf(n)

LEMMA InitLive == Init => LiveInv
BY DEF Init, LiveInv, LiveInvOf

LEMMA NewerHead ==
    ASSUME NEW S, NEW q \in Seq(S), q # << >>, NEW k
    PROVE  /\ Newer(q, k) => Sequence(Head(q)) >= k \/ Newer(Tail(q), k)
           /\ NewerUpdate(q, k) =>
                 \/ Head(q).kind = "Transaction" /\ Sequence(Head(q).data) >= k
                 \/ NewerUpdate(Tail(q), k)
<1>1. /\ Len(q) \in Nat /\ Len(q) >= 1 /\ Head(q) = q[1] /\ Len(Tail(q)) = Len(q) - 1
      /\ \A i \in 1 .. Len(q) - 1 : Tail(q)[i] = q[i + 1]
  OBVIOUS
<1>2. ASSUME NEW i \in 1 .. Len(q)
      PROVE  i = 1 \/ (i - 1 \in 1 .. Len(Tail(q)) /\ Tail(q)[i - 1] = q[i])
  <2>1. CASE i # 1
    <3>1. i - 1 \in 1 .. Len(q) - 1 /\ (i - 1) + 1 = i
      BY <1>1, <2>1
    <3> QED BY <1>1, <3>1
  <2> QED BY <2>1
<1> QED BY <1>1, <1>2 DEF Newer, NewerUpdate

LEMMA NewerConcat ==
    ASSUME NEW S, NEW w \in Seq(S), NEW u \in Seq(S), NEW k
    PROVE  /\ NewerUpdate(w, k) => NewerUpdate(w \o u, k)
           /\ NewerUpdate(u, k) => NewerUpdate(w \o u, k)
           /\ Newer(w, k) => Newer(w \o u, k)
           /\ Newer(u, k) => Newer(w \o u, k)
<1>1. /\ Len(w) \in Nat /\ Len(u) \in Nat /\ Len(w \o u) = Len(w) + Len(u)
      /\ \A i \in 1 .. Len(w) : i \in 1 .. Len(w \o u) /\ (w \o u)[i] = w[i]
  OBVIOUS
<1>2. \A i \in 1 .. Len(u) : i + Len(w) \in 1 .. Len(w \o u) /\ (w \o u)[i + Len(w)] = u[i]
  OBVIOUS
<1> QED BY <1>1, <1>2 DEF Newer, NewerUpdate

LEMMA NewerSent ==
    ASSUME NEW blocks \in Seq(Block), NEW k, Newer(blocks, k)
    PROVE  NewerUpdate([i \in DOMAIN blocks |-> Update("Transaction", blocks[i])], k)
<1> DEFINE u == [i \in DOMAIN blocks |-> Update("Transaction", blocks[i])]
<1>1. DOMAIN blocks = 1 .. Len(blocks) /\ Len(blocks) \in Nat
  OBVIOUS
<1>2. Len(u) = Len(blocks)
  <2>1. u \in Seq({Update("Transaction", blocks[i]) : i \in 1 .. Len(blocks)})
    BY <1>1
  <2>2. DOMAIN u = 1 .. Len(blocks)
    BY <1>1
  <2> QED BY <1>1, <2>1, <2>2
<1>3. \A i \in 1 .. Len(blocks) : u[i].kind = "Transaction" /\ u[i].data = blocks[i]
  BY <1>1 DEF Update
<1> QED BY <1>2, <1>3 DEF Newer, NewerUpdate

LEMMA NewerEnqueued ==
    ASSUME NEW r \in ReceiverType, NEW b \in Block
    PROVE  Newer(Enqueue(r, b).queue, Sequence(b))
<1>1. /\ r.queue \in Seq(Block) /\ Len(r.queue) \in Nat /\ BroadcastCap \in Nat \ {0}
      /\ Sequence(b) \in Nat
  BY ConstantsAssumption, BlockFacts DEF ReceiverType
<1>2. ASSUME NEW q \in Seq(Block) PROVE Newer(Append(q, b), Sequence(b))
  <2>1. Len(Append(q, b)) \in 1 .. Len(Append(q, b)) /\ Append(q, b)[Len(Append(q, b))] = b
    OBVIOUS
  <2> QED BY <1>1, <2>1 DEF Newer
<1>3. CASE Len(r.queue) < BroadcastCap
  <2>1. Enqueue(r, b).queue = Append(r.queue, b)
    BY <1>3 DEF Enqueue, ReceiverType
  <2> QED BY <1>1, <1>2, <2>1
<1>4. CASE ~(Len(r.queue) < BroadcastCap)
  <2>1. Enqueue(r, b).queue = Append(Tail(r.queue), b)
    BY <1>4 DEF Enqueue, ReceiverType
  <2>2. r.queue # << >>
    BY <1>1, <1>4
  <2>3. Tail(r.queue) \in Seq(Block)
    BY <1>1, <2>2
  <2> QED BY <1>2, <2>1, <2>3
<1> QED BY <1>3, <1>4

\* A step that leaves what is on its way to node n alone.
LEMMA LiveFrame ==
    ASSUME LiveInv, NEW n \in Nodes, chain'[n] = chain[n], curSeq' = curSeq,
           receiver'[n] = receiver[n], wire'[n] = wire[n], pend'[n] = pend[n],
           session'[n] = session[n], n \in panicked => n \in panicked'
    PROVE  LiveInvOf(n)'
BY DEF LiveInv, LiveInvOf, UnderWay

LEMMA LiveEnds ==
    ASSUME NEW n \in Nodes, session'[n] = "off"
    PROVE  LiveInvOf(n)'
BY DEF LiveInvOf

\* What a write to the session must carry on.
LEMMA SendLive ==
    ASSUME TypeInv, LiveInv, NEW n \in Nodes, NEW u \in Seq(Message), NEW r,
           receiver[n].phase # "off", r.after = receiver[n].after \/ r.phase = "off",
           n \notin panicked /\ session[n] # "off" /\ r.phase \in Feeding =>
               \/ Sequence(chain[n].last) >= curSeq
               \/ Newer(r.queue, curSeq)
               \/ NewerUpdate(wire[n], curSeq) \/ NewerUpdate(u, curSeq)
               \/ pend[n].stage # "idle" /\ Sequence(pend[n].block) >= curSeq,
           Send(n, u, r), UNCHANGED <<chain, panicked, curSeq, pend, session>>
    PROVE  LiveInv'
<1>1. ASSUME NEW m \in Nodes \ {n} PROVE LiveInvOf(m)'
  <2>1. receiver'[m] = receiver[m] /\ wire'[m] = wire[m]
    BY DEF Send, TypeInv, TypeOK
  <2> QED BY <2>1, LiveFrame
<1>2. CASE session[n] = "off"
  BY <1>1, <1>2, LiveEnds DEF LiveInv
<1>3. CASE session[n] # "off"
  <2>1. receiver'[n] = r /\ wire'[n] = wire[n] \o u /\ wire[n] \in Seq(Message)
    BY <1>3 DEF Send, TypeInv, TypeOK
  <2>2. /\ NewerUpdate(wire[n], curSeq) => NewerUpdate(wire'[n], curSeq)
        /\ NewerUpdate(u, curSeq) => NewerUpdate(wire'[n], curSeq)
    BY <2>1, NewerConcat
  <2>3. LiveInvOf(n)'
    BY <1>3, <2>1, <2>2 DEF LiveInv, LiveInvOf, UnderWay
  <2> QED BY <1>1, <2>3 DEF LiveInv
<1> QED BY <1>2, <1>3

\* load_all_after: what is in the table after the subscription is selected.
LEMMA SelectLive ==
    ASSUME NodeInv, LiveInv, NEW n \in Nodes, Select(n)
    PROVE  LiveInv'
<1> USE NodeParts
<1> DEFINE after == receiver[n].after
           selected == RowsAfter(db, after)
<1>1. /\ receiver[n].phase = "subscribed" /\ receiver[n] \in ReceiverType
      /\ receiver' = [receiver EXCEPT ![n].phase = "selected", ![n].current = selected]
      /\ UNCHANGED <<chain, panicked, curSeq, pend, session, wire>>
  BY ReceiverFacts DEF Select, serverVars, nodeVars
<1> HIDE DEF selected
<1>2. /\ receiver'[n].current = selected /\ receiver'[n].after = after
      /\ receiver'[n].phase = "selected"
      /\ \A m \in Nodes \ {n} : receiver'[m] = receiver[m]
  BY <1>1 DEF TypeInv, TypeOK, ReceiverType
<1>3. ASSUME session[n] # "off", ~(Sequence(chain[n].last) >= curSeq)
      PROVE  Newer(selected, curSeq)
  <2>1. /\ after \in Nat /\ 1 <= after /\ after <= Sequence(chain[n].last)
        /\ Sequence(chain[n].last) \in Nat
    BY <1>1, <1>3, ReceiverFacts, NodeFacts, BlockFacts DEF LiveInv, LiveInvOf
  <2>2. curSeq \in Nat /\ (curSeq = 1 \/ HasRow(db, curSeq))
    BY DEF TableInv, LogInv, CurInv
  <2>3. HasRow(db, curSeq) /\ after < curSeq
    BY <1>3, <2>1, <2>2
  <2>4. PICK b \in db : Sequence(b) = curSeq
    BY <2>3 DEF HasRow
  <2> DEFINE top == Sequence(Log)
  <2>5. Log \in Logged /\ curSeq <= top /\ top \in Nat
    BY <2>4, LogIsNewest, LoggedFacts DEF TableInv, Logged
  <2>6. Gapless(db, top)
    <3>1. Log \in db
      BY <2>1, <2>2, <2>3, <2>5, LoggedFacts DEF Logged, TableInv
    <3>2. \A d \in db : Sequence(d) \in Nat /\ 2 <= Sequence(d) /\ Sequence(d) <= top
      BY LogIsNewest, LoggedFacts DEF TableInv, Logged
    <3>3. \A j \in 2 .. top : HasRow(db, j)
      BY <3>1 DEF TableInv, LogInv, NoGaps
    <3>4. \A d, e \in db : Sequence(d) = Sequence(e) => d = e
      BY LoggedFacts DEF TableInv
    <3>5. IsTable(db) /\ top \in Nat \ {0}
      BY <2>1, <2>2, <2>3, <2>5 DEF TypeInv
    <3> HIDE DEF top
    <3> QED BY <3>2, <3>3, <3>4, <3>5 DEF Gapless
  <2> HIDE DEF top, after
  <2>7. /\ Len(selected) = top - after
        /\ \A i \in 1 .. top - after : Sequence(selected[i]) = after + i
    <3>1. after < top
      BY <2>1, <2>2, <2>3, <2>5
    <3>2. /\ Len(RowsAfter(db, after)) = top - after
          /\ \A i \in 1 .. top - after : Sequence(RowsAfter(db, after)[i]) = after + i
      BY <2>1, <2>6, <3>1, RowsAfterSome
    <3> QED BY <3>2 DEF selected
  <2>8. curSeq - after \in 1 .. top - after /\ after + (curSeq - after) = curSeq
    BY <2>1, <2>2, <2>3, <2>5
  <2>9. /\ curSeq - after \in 1 .. Len(selected)
        /\ Sequence(selected[curSeq - after]) = curSeq
    BY <2>7, <2>8
  <2> QED BY <2>2, <2>9 DEF Newer
<1>4. LiveInvOf(n)'
  BY <1>1, <1>2, <1>3 DEF LiveInv, LiveInvOf, UnderWay
<1>5. \A m \in Nodes \ {n} : LiveInvOf(m)'
  BY <1>1, <1>2, LiveFrame
<1> QED BY <1>4, <1>5 DEF LiveInv

\* What load_all_after returns, and what stays in the channel.
LEMMA DeliverLive ==
    ASSUME NodeInv, LiveInv, NEW n \in Nodes, receiver[n].phase # "off",
           NEW blocks \in Seq(Block), NEW rest \in Seq(Block),
           n \notin panicked /\ session[n] # "off" =>
               \/ Sequence(chain[n].last) >= curSeq
               \/ Newer(blocks, curSeq) \/ Newer(rest, curSeq)
               \/ NewerUpdate(wire[n], curSeq)
               \/ pend[n].stage # "idle" /\ Sequence(pend[n].block) >= curSeq,
           Deliver(n, blocks, rest),
           UNCHANGED <<chain, panicked, curSeq, pend, session>>
    PROVE  LiveInv'
<1> DEFINE u == [i \in DOMAIN blocks |-> Update("Transaction", blocks[i])]
           r == [phase |-> "draining", after |-> receiver[n].after,
                 current |-> << >>, queue |-> rest, lagged |-> FALSE]
<1>1. u \in Seq(Message)
  <2>1. \A i \in 1 .. Len(blocks) : Update("Transaction", blocks[i]) \in Message
    BY UpdateType
  <2> QED BY <2>1
<1>2. Newer(blocks, curSeq) => NewerUpdate(u, curSeq)
  BY NewerSent
<1>3. /\ r.after = receiver[n].after /\ r.queue = rest
      /\ Send(n, u, r)
  BY DEF Deliver
<1> HIDE DEF u, r
<1> QED BY <1>1, <1>2, <1>3, NodeParts, SendLive

\* SendCurrent, on values: what it compares the queue with, and what of the
\* queue is newer than that.
Top(s, after) == IF s = << >> THEN after ELSE Sequence(Last(s))
Beyond(q, top) == {i \in DOMAIN q : Sequence(q[i]) > top}

LEMMA QueueRest ==
    ASSUME NEW S, NEW q \in Seq(S), NEW k \in 1 .. Len(q)
    PROVE  /\ SubSeq(q, k + 1, Len(q)) \in Seq(S)
           /\ Len(SubSeq(q, k + 1, Len(q))) = Len(q) - k
           /\ \A j \in k + 1 .. Len(q) : /\ j - k \in 1 .. Len(q) - k
                                         /\ SubSeq(q, k + 1, Len(q))[j - k] = q[j]
<1>1. PICK N \in Nat : N = Len(q)
  OBVIOUS
<1>2. k \in Int /\ 1 <= k /\ k <= N
  BY <1>1
<1>3. \A i \in k + 1 .. N : q[i] \in S
  BY <1>1, <1>2
<1>4. /\ SubSeq(q, k + 1, N) \in Seq(S)
      /\ Len(SubSeq(q, k + 1, N)) = IF k + 1 <= N THEN N - (k + 1) + 1 ELSE 0
      /\ \A i \in 1 .. N - (k + 1) + 1 : SubSeq(q, k + 1, N)[i] = q[(k + 1) + i - 1]
  <2>1. k + 1 \in Int /\ N \in Int
    BY <1>1, <1>2
  <2> QED BY <1>3, <2>1, SubSeqProperties
<1>5. (IF k + 1 <= N THEN N - (k + 1) + 1 ELSE 0) = N - k
  BY <1>1, <1>2
<1>6. ASSUME NEW j \in k + 1 .. N
      PROVE  /\ j - k \in 1 .. N - k /\ j - k \in 1 .. N - (k + 1) + 1
             /\ (k + 1) + (j - k) - 1 = j
  BY <1>2, <1>1
<1>7. ASSUME NEW j \in k + 1 .. N PROVE SubSeq(q, k + 1, N)[j - k] = q[j]
  BY <1>4, <1>6
<1>8. \A j \in k + 1 .. N : j - k \in 1 .. N - k /\ SubSeq(q, k + 1, N)[j - k] = q[j]
  BY <1>6, <1>7
<1>9. Len(SubSeq(q, k + 1, N)) = N - k /\ SubSeq(q, k + 1, N) \in Seq(S)
  BY <1>4, <1>5
<1> QED BY <1>1, <1>8, <1>9, Zenon

\* Of what was selected (s) and queued (q), what is neither sent nor left in
\* the channel is not newer than the selection.
LEMMA NothingSkipped ==
    ASSUME NEW s \in Seq(Block), NEW q \in Seq(Block), NEW after \in Nat, NEW x \in Nat,
           Newer(q, x)
    PROVE  /\ Beyond(q, Top(s, after)) = {} => after >= x \/ Newer(s, x)
           /\ \A k \in Beyond(q, Top(s, after)) :
                 (\A i \in Beyond(q, Top(s, after)) : k <= i) =>
                     \/ after >= x
                     \/ Newer(s \o <<q[k]>>, x)
                     \/ Newer(SubSeq(q, k + 1, Len(q)), x)
<1> PICK top : top = Top(s, after)
  OBVIOUS
<1> PICK newer : newer = Beyond(q, top)
  OBVIOUS
<1>1. /\ DOMAIN q = 1 .. Len(q) /\ Len(q) \in Nat
      /\ \A i \in 1 .. Len(q) : q[i] \in Block
  OBVIOUS
<1>2. \A i \in 1 .. Len(q) : Sequence(q[i]) \in Nat
  BY <1>1, BlockFacts
<1>3. /\ s # << >> => Len(s) \in 1 .. Len(s) /\ top = Sequence(s[Len(s)])
      /\ s = << >> => top = after
      /\ top \in Nat
  <2>1. s # << >> => Len(s) \in 1 .. Len(s) /\ s[Len(s)] \in Block
    OBVIOUS
  <2> QED BY <2>1, BlockFacts DEF Last, Top
<1>4. \A i \in 1 .. Len(q) : i \in newer <=> Sequence(q[i]) > top
  BY <1>1 DEF Beyond
<1>5. PICK j \in 1 .. Len(q) : Sequence(q[j]) >= x
  BY DEF Newer
<1>6. ASSUME j \notin newer PROVE after >= x \/ Newer(s, x)
  <2>1. top >= x
    BY <1>2, <1>3, <1>4, <1>5, <1>6
  <2> QED BY <1>3, <2>1 DEF Newer
<1>7. ASSUME NEW k \in newer
      PROVE  /\ k \in 1 .. Len(q)
             /\ Newer(s, x) => Newer(s \o <<q[k]>>, x)
             /\ Sequence(q[k]) >= x => Newer(s \o <<q[k]>>, x)
             /\ j > k => Newer(SubSeq(q, k + 1, Len(q)), x)
  <2>1. k \in 1 .. Len(q) /\ q[k] \in Block /\ <<q[k]>> \in Seq(Block)
    BY <1>1 DEF Beyond
  <2>2. Sequence(q[k]) >= x => Newer(<<q[k]>>, x)
    BY DEF Newer
  <2>3. /\ Newer(s, x) => Newer(s \o <<q[k]>>, x)
        /\ Newer(<<q[k]>>, x) => Newer(s \o <<q[k]>>, x)
    BY <2>1, NewerConcat
  <2>4. ASSUME j > k PROVE Newer(SubSeq(q, k + 1, Len(q)), x)
    <3>1. j \in k + 1 .. Len(q)
      BY <1>1, <2>1, <2>4
    <3>2. /\ Len(SubSeq(q, k + 1, Len(q))) = Len(q) - k
          /\ j - k \in 1 .. Len(q) - k
          /\ SubSeq(q, k + 1, Len(q))[j - k] = q[j]
      BY <2>1, <3>1, QueueRest
    <3> QED BY <1>5, <3>2 DEF Newer
  <2> QED BY <2>1, <2>2, <2>3, <2>4
<1>8. ASSUME NEW k \in newer, \A i \in newer : k <= i
      PROVE  \/ after >= x \/ Newer(s \o <<q[k]>>, x)
             \/ Newer(SubSeq(q, k + 1, Len(q)), x)
  <2>1. CASE j \notin newer
    BY <1>6, <1>7, <2>1
  <2>2. CASE j \in newer
    <3>1. j = k \/ j > k
      BY <1>1, <1>7, <1>8, <2>2
    <3> QED BY <1>5, <1>7, <3>1
  <2> QED BY <2>1, <2>2
<1> QED BY <1>5, <1>6, <1>8

LEMMA SendCurrentLive ==
    ASSUME NodeInv, LiveInv, NEW n \in Nodes, SendCurrent(n)
    PROVE  LiveInv'
<1> USE NodeParts
<1> DEFINE s == receiver[n].current
           q == receiver[n].queue
           after == receiver[n].after
           newer == Beyond(q, Top(s, after))
           Rest == \/ Sequence(chain[n].last) >= curSeq
                   \/ NewerUpdate(wire[n], curSeq)
                   \/ pend[n].stage # "idle" /\ Sequence(pend[n].block) >= curSeq
<1>1. /\ receiver[n].phase = "selected" /\ s \in Seq(Block) /\ q \in Seq(Block)
      /\ after \in Nat
  BY ReceiverFacts DEF SendCurrent
<1>2. curSeq \in Nat /\ Sequence(chain[n].last) \in Nat
  BY NodeFacts, BlockFacts DEF TypeInv, TypeOK
<1>3. UNCHANGED <<chain, panicked, curSeq, pend, session>>
  BY DEF SendCurrent, serverVars, nodeVars
<1>4. \/ \E k \in newer : /\ \A i \in newer : k <= i
                          /\ Deliver(n, s \o <<q[k]>>, SubSeq(q, k + 1, Len(q)))
      \/ newer = {} /\ Deliver(n, s, << >>)
      \/ Deliver(n, s, q)
  BY DEF SendCurrent, Beyond, Top
<1>5. n \notin panicked /\ session[n] # "off" =>
          /\ Rest \/ Newer(s, curSeq) \/ Newer(q, curSeq)
          /\ after >= curSeq => Rest
  <2>1. session[n] # "off" => after <= Sequence(chain[n].last)
    BY <1>1 DEF LiveInv, LiveInvOf
  <2>2. n \notin panicked /\ session[n] # "off" => Rest \/ Newer(s, curSeq) \/ Newer(q, curSeq)
    BY <1>1 DEF LiveInv, LiveInvOf, UnderWay, Feeding
  <2> QED BY <1>1, <1>2, <2>1, <2>2
<1>6. ASSUME NEW blocks \in Seq(Block), NEW rest \in Seq(Block),
             Deliver(n, blocks, rest),
             n \notin panicked /\ session[n] # "off" =>
                 Rest \/ Newer(blocks, curSeq) \/ Newer(rest, curSeq)
      PROVE  LiveInv'
  BY <1>1, <1>3, <1>6, DeliverLive
<1>7. Newer(q, curSeq) =>
          /\ newer = {} => after >= curSeq \/ Newer(s, curSeq)
          /\ \A k \in newer : (\A i \in newer : k <= i) =>
                 \/ after >= curSeq
                 \/ Newer(s \o <<q[k]>>, curSeq)
                 \/ Newer(SubSeq(q, k + 1, Len(q)), curSeq)
  BY <1>1, <1>2, NothingSkipped
<1>8. newer \subseteq 1 .. Len(q)
  BY <1>1 DEF Beyond
<1> HIDE DEF s, q, after, newer, Rest
<1>9. ASSUME NEW k \in newer, \A i \in newer : k <= i,
             Deliver(n, s \o <<q[k]>>, SubSeq(q, k + 1, Len(q)))
      PROVE  LiveInv'
  <2>1. k \in 1 .. Len(q) /\ <<q[k]>> \in Seq(Block)
    BY <1>1, <1>8
  <2>2. s \o <<q[k]>> \in Seq(Block) /\ SubSeq(q, k + 1, Len(q)) \in Seq(Block)
    BY <1>1, <2>1, QueueRest
  <2>3. Newer(s, curSeq) => Newer(s \o <<q[k]>>, curSeq)
    BY <1>1, <2>1, NewerConcat
  <2>4. n \notin panicked /\ session[n] # "off" =>
            \/ Rest \/ Newer(s \o <<q[k]>>, curSeq)
            \/ Newer(SubSeq(q, k + 1, Len(q)), curSeq)
    BY <1>5, <1>7, <1>9, <2>3
  <2> QED BY <1>6, <1>9, <2>2, <2>4
<1>10. ASSUME newer = {}, Deliver(n, s, << >>) PROVE LiveInv'
  BY <1>1, <1>5, <1>6, <1>7, <1>10, EmptySeq
<1> QED BY <1>1, <1>4, <1>5, <1>6, <1>9, <1>10

LEMMA DrainLive ==
    ASSUME NodeInv, LiveInv, NEW n \in Nodes, receiver[n].phase \in {"draining", "live"},
           receiver[n].queue # << >>,
           Send(n, <<Update("Transaction", Head(receiver[n].queue))>>,
                [receiver[n] EXCEPT !.queue = Tail(@)]),
           UNCHANGED <<chain, panicked, curSeq, pend, session>>
    PROVE  LiveInv'
<1> USE NodeParts
<1> DEFINE q == receiver[n].queue
           u == <<Update("Transaction", Head(q))>>
           r == [receiver[n] EXCEPT !.queue = Tail(q)]
<1>1. u \in Seq(Message) /\ q \in Seq(Block) /\ q # << >>
  BY ForwardHead, ReceiverFacts
<1>2. Newer(q, curSeq) => Sequence(Head(q)) >= curSeq \/ Newer(Tail(q), curSeq)
  BY <1>1, NewerHead
<1>3. r.after = receiver[n].after /\ r.queue = Tail(q) /\ r.phase = receiver[n].phase
  BY ReceiverFacts DEF ReceiverType
<1>4. Sequence(Head(q)) >= curSeq => NewerUpdate(u, curSeq)
  BY DEF NewerUpdate, Update
<1>5. Send(n, u, r)
  OBVIOUS
<1>6. receiver[n].phase # "off" /\ receiver[n].phase # "selected"
  OBVIOUS
<1> HIDE DEF q, u, r
<1>7. n \notin panicked /\ session[n] # "off" /\ r.phase \in Feeding =>
         \/ Sequence(chain[n].last) >= curSeq \/ Newer(q, curSeq)
         \/ NewerUpdate(wire[n], curSeq)
         \/ pend[n].stage # "idle" /\ Sequence(pend[n].block) >= curSeq
  BY <1>3, <1>6 DEF LiveInv, LiveInvOf, UnderWay, q
<1> QED BY <1>1, <1>2, <1>3, <1>4, <1>5, <1>6, <1>7, SendLive

\* A step of the feeding task that only changes the phase.
LEMMA PhaseLive ==
    ASSUME TypeInv, LiveInv, NEW n \in Nodes, NEW r,
           receiver' = [receiver EXCEPT ![n] = r],
           r.after = receiver[n].after, r.queue = receiver[n].queue,
           receiver[n].phase # "off", receiver[n].phase # "selected",
           r.phase \in Feeding => receiver[n].phase \in Feeding,
           UNCHANGED <<chain, panicked, curSeq, pend, session, wire>>
    PROVE  LiveInv'
<1>1. receiver'[n] = r /\ \A m \in Nodes \ {n} : receiver'[m] = receiver[m]
  BY DEF TypeInv, TypeOK
<1>2. LiveInvOf(n)'
  BY <1>1 DEF LiveInv, LiveInvOf, UnderWay
<1>3. \A m \in Nodes \ {n} : LiveInvOf(m)'
  BY <1>1, LiveFrame
<1> QED BY <1>2, <1>3 DEF LiveInv

LEMMA FeedStepLive ==
    ASSUME NodeInv, LiveInv, NEW n \in Nodes, FeedStep(n)
    PROVE  LiveInv'
<1> USE NodeParts
<1>1. UNCHANGED <<chain, panicked, curSeq, pend, session>>
  BY DEF FeedStep, Subscribe, Select, SendCurrent, Drain, SendUpToDate, Forward,
         serverVars, nodeVars
<1>2. CASE Subscribe(n)
  <2> DEFINE r == [receiver[n] EXCEPT !.phase = "subscribed"]
  <2>1. /\ r.after = receiver[n].after /\ r.queue = receiver[n].queue
        /\ r.phase = "subscribed" /\ receiver[n].phase = "request"
        /\ receiver' = [receiver EXCEPT ![n] = r] /\ wire' = wire
    BY <1>2, ReceiverFacts DEF Subscribe, ReceiverType
  <2> HIDE DEF r
  <2> QED BY <1>1, <2>1, PhaseLive DEF Feeding
<1>3. CASE Select(n)
  BY <1>3, SelectLive
<1>4. CASE SendCurrent(n)
  BY <1>4, SendCurrentLive
<1>5. CASE Drain(n)
  <2>1. CASE receiver[n].lagged \/ receiver[n].queue = << >>
    <3> DEFINE r == [receiver[n] EXCEPT !.phase = "digest", !.lagged = FALSE]
    <3>1. receiver[n] \in ReceiverType
      BY ReceiverFacts
    <3>2. r.after = receiver[n].after /\ r.queue = receiver[n].queue
      BY <3>1 DEF ReceiverType
    <3>3. /\ receiver' = [receiver EXCEPT ![n] = r] /\ wire' = wire
          /\ receiver[n].phase = "draining"
      BY <1>5, <2>1 DEF Drain
    <3> HIDE DEF r
    <3> QED BY <1>1, <3>2, <3>3, PhaseLive DEF Feeding
  <2>2. CASE ~(receiver[n].lagged \/ receiver[n].queue = << >>)
    BY <1>1, <1>5, <2>2, DrainLive DEF Drain
  <2> QED BY <2>1, <2>2
<1>6. CASE SendUpToDate(n)
  <2> DEFINE r == [receiver[n] EXCEPT !.phase = "live"]
             u == <<Update("UpToDate", Digest(chain[Server]))>>
  <2>1. u \in Seq(Message)
    BY UpdateType, MembersFacts DEF TypeInv, TypeOK
  <2>2. /\ r.after = receiver[n].after /\ r.queue = receiver[n].queue
        /\ receiver[n].phase = "digest" /\ Send(n, u, r)
    BY <1>6, ReceiverFacts DEF SendUpToDate, ReceiverType
  <2> HIDE DEF r, u
  <2>3. n \notin panicked /\ session[n] # "off" =>
           \/ Sequence(chain[n].last) >= curSeq \/ Newer(r.queue, curSeq)
           \/ NewerUpdate(wire[n], curSeq)
           \/ pend[n].stage # "idle" /\ Sequence(pend[n].block) >= curSeq
    BY <2>2 DEF LiveInv, LiveInvOf, UnderWay, Feeding
  <2> QED BY <1>1, <2>1, <2>2, <2>3, SendLive
<1>7. CASE Forward(n)
  <2>1. CASE receiver[n].lagged
    <3>1. /\ <<Update("Close", NoBlock)>> \in Seq(Message)
          /\ NoReceiver.phase = "off"
      BY UpdateType, MembersFacts DEF NoReceiver
    <3>2. receiver[n].phase # "off" /\ Send(n, <<Update("Close", NoBlock)>>, NoReceiver)
      BY <1>7, <2>1 DEF Forward
    <3> QED BY <1>1, <3>1, <3>2, SendLive DEF Feeding
  <2>2. CASE ~receiver[n].lagged
    BY <1>1, <1>7, <2>2, DrainLive DEF Forward
  <2> QED BY <2>1, <2>2
<1> QED BY <1>2, <1>3, <1>4, <1>5, <1>6, <1>7 DEF FeedStep

LEMMA FollowStepLive ==
    ASSUME NodeInv, LiveInv, NEW n \in Nodes, FollowStep(n)
    PROVE  LiveInv'
<1> USE NodeParts
<1> DEFINE Others == \A m \in Nodes \ {n} :
               /\ chain'[m] = chain[m] /\ wire'[m] = wire[m] /\ pend'[m] = pend[m]
               /\ session'[m] = session[m] /\ (m \in panicked => m \in panicked')
<1>1. UNCHANGED <<curSeq, receiver>>
  BY DEF FollowStep, ReadTransaction, StoreBlock, ApplyBlock, ReadUpToDate,
         ReadClose, serverVars
<1>2. ASSUME Others, LiveInvOf(n)' PROVE LiveInv'
  BY <1>1, <1>2, LiveFrame DEF LiveInv
<1>3. CASE EndSession(n)
  <2>1. Others /\ session'[n] = "off"
    BY <1>3, MembersFacts DEF EndSession, TypeInv, TypeOK
  <2> QED BY <1>2, <2>1, LiveEnds
<1>4. CASE ReadTransaction(n) /\ ~EndSession(n)
  <2> DEFINE block == Head(wire[n]).data
  <2>1. /\ wire[n] \in Seq(Message) /\ wire[n] # << >> /\ pend[n].stage = "idle"
        /\ pend' = [pend EXCEPT ![n] = [stage |-> "checked", block |-> block]]
        /\ wire' = [wire EXCEPT ![n] = Tail(@)]
        /\ UNCHANGED <<chain, panicked, status, session>>
    BY <1>4 DEF ReadTransaction, Reads, TypeInv, TypeOK
  <2>2. Others
    BY <2>1 DEF TypeInv, TypeOK
  <2>3. /\ pend'[n] = [stage |-> "checked", block |-> block] /\ wire'[n] = Tail(wire[n])
    BY <2>1 DEF TypeInv, TypeOK
  <2>4. NewerUpdate(wire[n], curSeq) =>
           Sequence(block) >= curSeq \/ NewerUpdate(Tail(wire[n]), curSeq)
    BY <2>1, NewerHead
  <2> HIDE DEF block
  <2>5. pend'[n].stage # "idle" /\ pend'[n].block = block
    BY <2>3
  <2>6. LiveInvOf(n)'
    BY <1>1, <2>1, <2>3, <2>4, <2>5 DEF LiveInv, LiveInvOf, UnderWay
  <2> QED BY <1>2, <2>2, <2>6
<1>5. CASE StoreBlock(n) /\ ~EndSession(n)
  <2>1. /\ pend[n].stage = "checked" /\ pend' = [pend EXCEPT ![n].stage = "stored"]
        /\ UNCHANGED <<chain, panicked, status, session, wire>>
    BY <1>5 DEF StoreBlock
  <2>2. Others /\ pend'[n].stage = "stored" /\ pend'[n].block = pend[n].block
    BY <2>1 DEF TypeInv, TypeOK, PendType
  <2>3. LiveInvOf(n)'
    BY <1>1, <2>1, <2>2 DEF LiveInv, LiveInvOf, UnderWay
  <2> QED BY <1>2, <2>2, <2>3
<1>6. CASE ApplyBlock(n) /\ ~EndSession(n)
  <2>1. /\ pend[n].stage = "stored" /\ n \notin panicked /\ ApplyAt(n, pend[n].block)
        /\ pend' = [pend EXCEPT ![n] = Idle]
    BY <1>6 DEF ApplyBlock
  <2>2. status[n] \in Up /\ pend[n].block \in rows[n]
    BY <2>1 DEF LifeInv, ChainInv, ChainInvOf
  <2>3. /\ \A m \in Nodes \ {n} : chain'[m] = chain[m]
        /\ Sequence(chain[n].last) <= Sequence(chain'[n].last)
        /\ chain'[n].last \in Logged
    BY <2>1, <2>2, ApplyGrows
  <2>4. CASE ApplyPanics(chain[n], pend[n].block)
    <3>1. /\ session' = [session EXCEPT ![n] = "off"]
          /\ wire' = [wire EXCEPT ![n] = << >>]
      BY <1>6, <2>1, <2>4 DEF ApplyBlock
    <3>2. Others /\ session'[n] = "off"
      BY <2>1, <2>3, <3>1 DEF ApplyAt, TypeInv, TypeOK
    <3> QED BY <1>2, <3>2, LiveEnds
  <2>5. CASE ~ApplyPanics(chain[n], pend[n].block)
    <3>1. UNCHANGED <<session, wire, panicked>>
      BY <1>6, <2>1, <2>5 DEF ApplyBlock, ApplyAt
    <3>2. Others
      BY <2>1, <2>3, <3>1 DEF TypeInv, TypeOK
    <3>3. chain'[n].last = pend[n].block
      <4>1. chain'[n] = Apply(chain[n], pend[n].block)
        BY <2>1, MembersFacts DEF ApplyAt, TypeInv, TypeOK
      <4> QED BY <2>5, <4>1 DEF Apply
    <3>4. /\ Sequence(chain[n].last) \in Nat /\ Sequence(chain'[n].last) \in Nat
          /\ receiver[n].after \in Nat /\ curSeq \in Nat
      BY <3>3, NodeFacts, BlockFacts, ReceiverFacts DEF TypeInv, TypeOK
    <3>5. Sequence(chain[n].last) >= curSeq => Sequence(chain'[n].last) >= curSeq
      BY <2>3, <3>4
    <3>6. receiver[n].after <= Sequence(chain[n].last)
              => receiver[n].after <= Sequence(chain'[n].last)
      BY <2>3, <3>4
    <3>7. LiveInvOf(n)'
      BY <1>1, <3>1, <3>3, <3>5, <3>6 DEF LiveInv, LiveInvOf, UnderWay
    <3> QED BY <1>2, <3>2, <3>7
  <2> QED BY <2>4, <2>5
<1>7. CASE ReadUpToDate(n) /\ ~EndSession(n)
  <2>1. /\ wire[n] \in Seq(Message) /\ wire[n] # << >>
        /\ Head(wire[n]).kind = "UpToDate" /\ session[n] = "sync"
        /\ wire' = [wire EXCEPT ![n] = Tail(@)]
        /\ session' = [session EXCEPT ![n] = "live"]
        /\ UNCHANGED <<chain, panicked, pend>>
    BY <1>7 DEF ReadUpToDate, Reads, TypeInv, TypeOK
  <2>2. Others /\ wire'[n] = Tail(wire[n])
    BY <2>1 DEF TypeInv, TypeOK
  <2>3. NewerUpdate(wire[n], curSeq) => NewerUpdate(Tail(wire[n]), curSeq)
    <3>1. Head(wire[n]).kind # "Transaction"
      BY <2>1
    <3> QED BY <2>1, <3>1, NewerHead
  <2>4. LiveInvOf(n)'
    BY <1>1, <2>1, <2>2, <2>3 DEF LiveInv, LiveInvOf, UnderWay
  <2> QED BY <1>2, <2>2, <2>4
<1>8. CASE ReadClose(n)
  BY <1>3, <1>8 DEF ReadClose
<1> QED BY <1>3, <1>4, <1>5, <1>6, <1>7, <1>8 DEF FollowStep

LEMMA HandlerPublishLive ==
    ASSUME NodeInv, LiveInv, NEW c \in Clients, HandlerPublish(c)
    PROVE  LiveInv'
<1> USE NodeParts
<1>1. PICK b \in Block : b = handler[c].block
  BY HandlerBlock
<1>2. /\ curSeq' = Sequence(b)
      /\ UNCHANGED <<chain, panicked, wire, pend, session>>
      /\ \/ receiver' = [n \in Nodes |-> IF Subscribed(n) THEN Enqueue(receiver[n], b)
                                                          ELSE receiver[n]]
         \/ /\ ~ \E n \in Nodes : Subscribed(n)
            /\ receiver' = receiver
  BY <1>1 DEF HandlerPublish, nodeVars
<1>3. ASSUME NEW n \in Nodes PROVE LiveInvOf(n)'
  <2>1. CASE Subscribed(n)
    <3>1. receiver'[n] = Enqueue(receiver[n], b)
      BY <1>2, <2>1
    <3>2. /\ receiver'[n].phase = receiver[n].phase
          /\ receiver'[n].after = receiver[n].after
      BY <3>1, ReceiverFacts DEF Enqueue, ReceiverType
    <3>3. Newer(receiver'[n].queue, curSeq')
      BY <1>2, <3>1, ReceiverFacts, NewerEnqueued
    <3> QED BY <1>2, <3>2, <3>3 DEF LiveInv, LiveInvOf, UnderWay
  <2>2. CASE ~Subscribed(n)
    <3>1. receiver'[n] = receiver[n] /\ receiver[n].phase \notin Feeding
      BY <1>2, <2>2 DEF Subscribed, Feeding
    <3> QED BY <1>2, <3>1 DEF LiveInv, LiveInvOf
  <2> QED BY <2>1, <2>2
<1> QED BY <1>3 DEF LiveInv

LEMMA AddApplyLive ==
    ASSUME NodeInv, LiveInv, NEW c \in Clients, AddApply(c), c \notin panicked
    PROVE  LiveInv'
<1> USE NodeParts
<1>1. /\ c \in Nodes /\ Adding(c) /\ add[c].stage = "stored" /\ ApplyAt(c, add[c].block)
      /\ UNCHANGED <<curSeq, receiver, wire, session, pend>>
  BY MembersFacts DEF AddApply, Adding, serverVars, feedVars
<1>2. status[c] \in Up /\ add[c].block \in rows[c]
  BY <1>1 DEF LifeInv, Up, ChainInv, SnapshotInvOf
<1>3. /\ \A m \in Nodes \ {c} : chain'[m] = chain[m]
      /\ Sequence(chain[c].last) <= Sequence(chain'[c].last)
      /\ chain'[c].last \in Logged
  BY <1>1, <1>2, ApplyGrows
<1>4. panicked \subseteq panicked'
  BY <1>1 DEF ApplyAt
<1>5. ASSUME NEW m \in Nodes \ {c} PROVE LiveInvOf(m)'
  BY <1>1, <1>3, <1>4, LiveFrame
<1>6. /\ Sequence(chain[c].last) \in Nat /\ Sequence(chain'[c].last) \in Nat
      /\ receiver[c].after \in Nat /\ curSeq \in Nat
  BY <1>1, <1>3, NodeFacts, BlockFacts, ReceiverFacts, LoggedFacts
     DEF TypeInv, TypeOK, TableInv
<1>7. /\ Sequence(chain[c].last) >= curSeq => Sequence(chain'[c].last) >= curSeq
      /\ receiver[c].after <= Sequence(chain[c].last)
              => receiver[c].after <= Sequence(chain'[c].last)
  BY <1>3, <1>6
<1>8. LiveInvOf(c)'
  BY <1>1, <1>4, <1>7 DEF LiveInv, LiveInvOf, UnderWay
<1> QED BY <1>5, <1>8 DEF LiveInv

LEMMA StartLive ==
    ASSUME NodeInv, LiveInv, NEW n \in Nodes, Start(n)
    PROVE  LiveInv'
<1> USE NodeParts
<1>1. PICK last : last = Replayed(file[n], rows[n])
  OBVIOUS
<1>2. /\ status[n] = "down" /\ chain' = [chain EXCEPT ![n] = Import(last)]
      /\ session' = [session EXCEPT ![n] = "sync"]
      /\ wire' = [wire EXCEPT ![n] = << >>]
      /\ UNCHANGED <<panicked, curSeq, pend>>
  BY <1>1 DEF Start, serverVars
<1>3. last \in Logged /\ Sequence(last) \in Nat /\ 1 <= Sequence(last)
  BY <1>1, <1>2, ReplayedIs, LoggedFacts DEF Outside, TableInv
<1>4. /\ receiver'[n].phase = "request" /\ receiver'[n].after = Sequence(last)
      /\ \A m \in Nodes \ {n} : receiver'[m] = receiver[m]
  BY <1>1, StartFields
<1>5. /\ chain'[n].last = last
      /\ \A m \in Nodes \ {n} : /\ chain'[m] = chain[m] /\ session'[m] = session[m]
                                /\ wire'[m] = wire[m]
  BY <1>2, MembersFacts DEF Import, TypeInv, TypeOK
<1>6. LiveInvOf(n)'
  BY <1>3, <1>4, <1>5 DEF LiveInvOf, Feeding
<1>7. \A m \in Nodes \ {n} : LiveInvOf(m)'
  BY <1>2, <1>4, <1>5, LiveFrame
<1> QED BY <1>6, <1>7 DEF LiveInv

LEMMA NextLive == NodeInv /\ LiveInv /\ [Next]_vars => LiveInv'
<1> SUFFICES ASSUME NodeInv, LiveInv, [Next]_vars PROVE LiveInv'
  OBVIOUS
<1> USE NodeParts
<1>1. ASSUME UNCHANGED <<curSeq, receiver, wire, session, pend>>,
             panicked \subseteq panicked', \A n \in Nodes : chain'[n] = chain[n]
      PROVE  LiveInv'
  BY <1>1, LiveFrame DEF LiveInv
<1>2. ASSUME NEW c \in Clients, ServerStep(c) PROVE LiveInv'
  <2>1. CASE HandlerPublish(c)
    BY <2>1, HandlerPublishLive
  <2>2. CASE ~HandlerPublish(c)
    <3>1. /\ UNCHANGED <<curSeq, receiver, wire, session, pend>>
          /\ panicked \subseteq panicked'
          /\ \A n \in Nodes : chain'[n] = chain[n]
      BY <1>2, <2>2, MembersFacts
         DEF ServerStep, HandlerCheck, HandlerInsert, HandlerApply, feedVars, nodeVars,
             TypeInv, TypeOK
    <3> QED BY <1>1, <3>1
  <2> QED BY <2>1, <2>2
<1>3. ASSUME NEW c \in Clients, AddStep(c) PROVE LiveInv'
  <2>1. CASE AddApply(c) /\ c \notin panicked
    BY <2>1, AddApplyLive
  <2>2. CASE ~(AddApply(c) /\ c \notin panicked)
    <3>1. UNCHANGED <<curSeq, receiver, wire, session, pend, chain, panicked>>
      BY <1>3, <2>2 DEF AddStep, PackageAndSend, AddAnswered, AddStore, AddApply,
                        serverVars, feedVars
    <3> QED BY <1>1, <3>1
  <2> QED BY <2>1, <2>2
<1>4. ASSUME NEW c \in Clients, NEW a \in Agents, Enroll(c, a) PROVE LiveInv'
  BY <1>1, <1>4 DEF Enroll, serverVars, feedVars
<1>5. ASSUME NEW n \in Nodes, Save(n) PROVE LiveInv'
  BY <1>1, <1>5 DEF Save, serverVars, feedVars, nodeVars
<1>6. ASSUME NEW n \in Nodes, Stop(n) PROVE LiveInv'
  <2>1. /\ UNCHANGED <<curSeq, receiver>> /\ session'[n] = "off"
        /\ \A m \in Nodes \ {n} :
              /\ chain'[m] = chain[m] /\ session'[m] = session[m] /\ wire'[m] = wire[m]
              /\ pend'[m] = pend[m] /\ (m \in panicked => m \in panicked')
    BY <1>6, MembersFacts DEF Stop, TypeInv, TypeOK
  <2>2. \A m \in Nodes \ {n} : LiveInvOf(m)'
    BY <2>1, LiveFrame
  <2> QED BY <2>1, <2>2, LiveEnds DEF LiveInv
<1>7. CASE RestartServer
  BY <1>7, LiveEnds DEF RestartServer, LiveInv
<1>8. CASE UNCHANGED vars
  BY <1>1, <1>8 DEF vars, serverVars, feedVars, nodeVars
<1> QED
  BY <1>2, <1>3, <1>4, <1>5, <1>6, <1>7, <1>8, FeedStepLive, FollowStepLive, StartLive
     DEF Next

\* No lost update.  load_all_after subscribes before it selects, so a block
\* that is published between the two is selected or queued, and what
\* SendCurrent discards from the queue was selected.  A full channel drops its
\* oldest block, never the newest.  So a live node with nothing under way has
\* every block the server broadcast, whatever the capacity of the channel.
THEOREM LiveNodesAreComplete == Spec => []LiveNodeComplete
<1>1. LiveInv => LiveNodeComplete
  <2> SUFFICES ASSUME LiveInv, NEW n \in Nodes \ panicked,
                      session[n] = "live", pend[n].stage = "idle", wire[n] = << >>,
                      receiver[n].phase = "live", receiver[n].queue = << >>
               PROVE  Sequence(chain[n].last) >= curSeq
    BY DEF LiveNodeComplete
  <2>1. UnderWay(n, curSeq)
    BY DEF LiveInv, LiveInvOf, Feeding
  <2>2. ~Newer(receiver[n].queue, curSeq) /\ ~NewerUpdate(wire[n], curSeq)
    BY DEF Newer, NewerUpdate
  <2> QED BY <2>1, <2>2 DEF UnderWay
<1>2. Spec => []LiveInv
  BY NodeInvariant, InitLive, NextLive, PTL DEF Spec
<1> QED BY <1>1, <1>2, PTL

=============================================================================

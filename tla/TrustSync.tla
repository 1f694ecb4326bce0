------------------------------ MODULE TrustSync ------------------------------
(***************************************************************************)
(* Replication of the trust-store chain between the server, the clients    *)
(* and the agents:                                                         *)
(*   - a client adds an agent: handle_agent_enroll and                     *)
(*     add_cert_to_trust_store (accept_handler.rs, client/add_agent.rs);   *)
(*   - the server takes the block: MessageHandler::handle (with_client.rs) *)
(*     and add_and_broadcast (server_store/...transaction_store.rs);       *)
(*   - the server feeds every connected node: UpdateTrustStoreHandler and  *)
(*     load_all_after;                                                     *)
(*   - a node starts and follows: load_trust_store, update_trust_store,    *)
(*     UpdateTrustStore::dispatch, apply_block, and the node's own table   *)
(*     (trust_store_transaction_store.rs);                                 *)
(*   - nodes stop and restart, and so does the server (server.rs).         *)
(*                                                                         *)
(* A step ends where the code awaits or releases a lock that another task  *)
(* can take.  The write of a block to a session and its receipt are two    *)
(* steps joined by the FIFO wire.                                          *)
(*                                                                         *)
(* Simplifications: a client has at most one add_cert_to_trust_store under *)
(* way and one handler of its messages at the server; a node has one       *)
(* update session, so the receiver of a connection that is gone is dropped *)
(* when the node connects again (the code drops it at the next broadcast); *)
(* an agent that failed to join does not try again (it would come back     *)
(* with a new key, hence as another agent).                                *)
(***************************************************************************)
EXTENDS SecureChain

CONSTANTS
    Server,        \* the server, and its certificate (the first block)
    Clients,       \* sessions of the root user, which may add agents
    Agents,        \* agents, each with the certificate a block adds
    Started,       \* bound: the nodes that are ever started
    BroadcastCap,  \* capacity of the server's broadcast channel (100)
    MaxStops,      \* bound: how often nodes stop or crash
    MaxRestarts    \* bound: how often the server is restarted

ASSUME ConstantsAssumption ==
    /\ Server \notin Clients \cup Agents
    /\ Clients \cap Agents = {}
    /\ Started \subseteq Clients \cup Agents
    /\ BroadcastCap \in Nat \ {0}
    /\ MaxStops \in Nat
    /\ MaxRestarts \in Nat

VARIABLES
    chain,     \* [Server + nodes -> chain in memory] Arc<RwLock<TrustStore>>
    panicked,  \* those whose apply panicked: the RwLock is poisoned
    db,        \* rows of the server's trust_store_transactions table
    curSeq,    \* current_sequence of the server's table
    handler,   \* [Clients -> server task that handles the client's message]
    reply,     \* [Clients -> answer of that task on its way to the client]
    receiver,  \* [nodes -> UpdateTrustStoreHandler task of the node]
    wire,      \* [nodes -> updates written to the session, not yet read]
    status,    \* [nodes -> life cycle of the node]
    file,      \* [nodes -> snapshot in the node's trust_store.json]
    rows,      \* [nodes -> rows of the node's trust_store_transactions]
    cur,       \* [nodes -> current_sequence of the node's table]
    session,   \* [nodes -> phase of UpdateTrustStore::dispatch]
    pend,      \* [nodes -> block that apply_block works on]
    add,       \* [Clients -> add_cert_to_trust_store under way]
    stops,     \* number of node stops so far
    restarts   \* number of server restarts so far

serverVars == <<db, curSeq, handler, reply>>
feedVars == <<receiver, wire>>
diskVars == <<file, rows>>
nodeVars == <<status, cur, session, pend>>
vars == <<chain, panicked, serverVars, feedVars, diskVars, nodeVars, add,
          stops, restarts>>

Nodes == Clients \cup Agents
Members == {Server} \cup Nodes
Certs == {Server} \cup Agents
Running(m) == m = Server \/ status[m] \in {"syncing", "ready", "offline"}
Block == Seq(Certs)

\* The chain that Init::dispatch creates: one block, the server certificate.
Genesis == <<Server>>

\* A chain in memory of a node that does not run.
NoChain == [last |-> NoBlock, state |-> {}]

Idle == [stage |-> "idle", block |-> NoBlock]
NoAdd == [stage |-> "idle", block |-> NoBlock, agent |-> Server,
          snapshot |-> NoBlock]
NoReceiver == [phase |-> "off", after |-> 0, current |-> << >>,
               queue |-> << >>, lagged |-> FALSE]
Message == [kind : {"Transaction", "Close"}, data : Block]
              \cup [kind : {"UpToDate"}, data : Block \X SUBSET Certs]
Update(kind, data) == [kind |-> kind, data |-> data]

(***************************************************************************)
(* The two tables.  A row is the block stored under its sequence, the      *)
(* primary key.                                                            *)
(***************************************************************************)
HasRow(table, seq) == \E b \in table : Sequence(b) = seq

\* SELECT ... WHERE sequence > ? ORDER BY sequence ASC.  The primary key makes
\* the sequences distinct, so there is exactly one such order.
RowsAfter(table, after) ==
    LET later  == {b \in table : Sequence(b) > after}
        sorted == {s \in [1 .. Cardinality(later) -> later] :
                      \A i, j \in DOMAIN s : i < j => Sequence(s[i]) < Sequence(s[j])}
    IN IF sorted = {} THEN << >> ELSE CHOOSE s \in sorted : TRUE

\* SELECT MAX(sequence), unwrap_or(1) for an empty table
MaxSequence(table) ==
    IF table = {} THEN 1 ELSE Max({Sequence(b) : b \in table})

\* The outcome of the node table's add: a block not beyond the next free
\* sequence; one at or below current_sequence must be there already.
TableAccepts(table, current, block) ==
    /\ Sequence(block) <= current + 1
    /\ Sequence(block) <= current => block \in table

\* Faulty variant: the sequence is counted but the row is not written.
TableAddUnstored(n, block) ==
    /\ UNCHANGED rows
    /\ cur' = [cur EXCEPT ![n] = Max({@, Sequence(block)})]

TableAdd(n, block) ==
    /\ rows' = [rows EXCEPT ![n] = @ \cup {block}]
    /\ cur' = [cur EXCEPT ![n] = Max({@, Sequence(block)})]

(***************************************************************************)
(* Initial state: the server is initialised, the clients have logged in    *)
(* and got the trust store of the initialisation; no agent exists.         *)
(***************************************************************************)
Init ==
    /\ chain = [m \in Members |-> IF m = Server THEN Import(Genesis)
                                                ELSE NoChain]
    /\ panicked = {}
    /\ db = {}
    /\ curSeq = MaxSequence({})
    /\ handler = [c \in Clients |-> Idle]
    /\ reply = [c \in Clients |-> "none"]
    /\ receiver = [n \in Nodes |-> NoReceiver]
    /\ wire = [n \in Nodes |-> << >>]
    /\ status = [n \in Nodes |-> IF n \in Clients THEN "down" ELSE "new"]
    /\ file = [n \in Nodes |-> IF n \in Clients THEN Genesis ELSE NoBlock]
    /\ rows = [n \in Nodes |-> {}]
    /\ cur = [n \in Nodes |-> 1]
    /\ session = [n \in Nodes |-> "off"]
    /\ pend = [n \in Nodes |-> Idle]
    /\ add = [c \in Clients |-> NoAdd]
    /\ stops = 0
    /\ restarts = 0

(***************************************************************************)
(* The server takes a block: MessageHandler::handle, TrustStore(block).    *)
(***************************************************************************)
\* Faulty variant: an error is not answered.
AnswerOnlyOk(c, result) ==
    reply' = [reply EXCEPT ![c] = IF add[c].stage = "sent" /\ result = "ok"
                                  THEN result ELSE @]

\* Faulty variant: every answer is Ok.
AnswerAlwaysOk(c, result) ==
    reply' = [reply EXCEPT ![c] = IF add[c].stage = "sent" THEN "ok" ELSE @]

\* The answer goes to the add that waits for it; a client that has been
\* stopped since then does not get it.
Answer(c, result) ==
    reply' = [reply EXCEPT ![c] = IF add[c].stage = "sent" THEN result ELSE @]

\* trust_store.write().check(block)
HandlerCheck(c) ==
    /\ handler[c].stage = "received"
    /\ \/ /\ Check(chain[Server], handler[c].block)
          /\ handler' = [handler EXCEPT ![c].stage = "checked"]
          /\ UNCHANGED reply
       \/ /\ ~Check(chain[Server], handler[c].block)
          /\ handler' = [handler EXCEPT ![c] = Idle]
          /\ Answer(c, "err")
    /\ UNCHANGED <<chain, panicked, db, curSeq, feedVars, diskVars, nodeVars,
                   add, stops, restarts>>

\* Faulty variant: a table without the primary key.
InsertAcceptedNoKey(block) == Sequence(block) = curSeq + 1

\* add_and_broadcast, up to the INSERT: refused when the sequence is not the
\* next one or, by the primary key, when there is such a row.
InsertAccepted(block) ==
    /\ Sequence(block) = curSeq + 1
    /\ ~HasRow(db, Sequence(block))

HandlerInsert(c) ==
    /\ handler[c].stage = "checked"
    /\ \/ /\ InsertAccepted(handler[c].block)
          /\ db' = db \cup {handler[c].block}
          /\ handler' = [handler EXCEPT ![c].stage = "inserted"]
          /\ UNCHANGED reply
       \/ /\ ~InsertAccepted(handler[c].block)
          /\ handler' = [handler EXCEPT ![c] = Idle]
          /\ Answer(c, "err")
          /\ UNCHANGED db
    /\ UNCHANGED <<chain, panicked, curSeq, feedVars, diskVars, nodeVars, add,
                   stops, restarts>>

\* Faulty variant: subscribe after the loaded blocks are sent.
SubscribedLate(n) ==
    receiver[n].phase \notin {"off", "request", "subscribed", "selected"}

Subscribed(n) == receiver[n].phase \notin {"off", "request"}

\* Faulty variant: an unbounded channel.
EnqueueUnbounded(r, block) == [r EXCEPT !.queue = Append(@, block)]

\* tokio broadcast: a receiver that is BroadcastCap behind loses its oldest
\* block, and its next receive reports that it lagged.
Enqueue(r, block) ==
    IF Len(r.queue) < BroadcastCap
    THEN [r EXCEPT !.queue = Append(@, block)]
    ELSE [r EXCEPT !.queue = Append(Tail(@), block), !.lagged = TRUE]

\* add_and_broadcast, after the INSERT: current_sequence is stored and the
\* block is broadcast, which is an error when nobody is subscribed.
HandlerPublish(c) ==
    /\ handler[c].stage = "inserted"
    /\ curSeq' = Sequence(handler[c].block)
    /\ \/ /\ \E n \in Nodes : Subscribed(n)
          /\ receiver' = [n \in Nodes |->
                             IF Subscribed(n)
                             THEN Enqueue(receiver[n], handler[c].block)
                             ELSE receiver[n]]
          /\ handler' = [handler EXCEPT ![c].stage = "published"]
          /\ UNCHANGED reply
       \/ /\ ~ \E n \in Nodes : Subscribed(n)
          /\ handler' = [handler EXCEPT ![c] = Idle]
          /\ Answer(c, "err")
          /\ UNCHANGED receiver
    /\ UNCHANGED <<chain, panicked, db, wire, diskVars, nodeVars, add, stops,
                   restarts>>

\* trust_store.write().apply(block), then the answer Ok.  (A panic would end
\* the connection; ServerChainStored says that there is none.)
HandlerApply(c) ==
    /\ handler[c].stage = "published"
    /\ chain' = [chain EXCEPT ![Server] = Apply(@, handler[c].block)]
    /\ panicked' = IF ApplyPanics(chain[Server], handler[c].block)
                   THEN panicked \cup {Server} ELSE panicked
    /\ handler' = [handler EXCEPT ![c] = Idle]
    /\ Answer(c, IF Server \in panicked' THEN "err" ELSE "ok")
    /\ UNCHANGED <<db, curSeq, feedVars, diskVars, nodeVars, add, stops,
                   restarts>>

(***************************************************************************)
(* The server feeds a node: UpdateTrustStoreHandler::handle.               *)
(***************************************************************************)
\* load_all_after: broadcast.subscribe()
Subscribe(n) ==
    /\ receiver[n].phase = "request"
    /\ receiver' = [receiver EXCEPT ![n].phase = "subscribed"]
    /\ UNCHANGED <<chain, panicked, serverVars, wire, diskVars, nodeVars, add,
                   stops, restarts>>

\* load_all_after: the SELECT
Select(n) ==
    /\ receiver[n].phase = "subscribed"
    /\ receiver' = [receiver EXCEPT
                       ![n].phase = "selected",
                       ![n].current = RowsAfter(db, receiver[n].after)]
    /\ UNCHANGED <<chain, panicked, serverVars, wire, diskVars, nodeVars, add,
                   stops, restarts>>

\* A write to a session whose other side is gone fails and ends the handler.
Send(n, updates, r) ==
    IF session[n] = "off"
    THEN /\ receiver' = [receiver EXCEPT ![n] = NoReceiver]
         /\ UNCHANGED wire
    ELSE /\ receiver' = [receiver EXCEPT ![n] = r]
         /\ wire' = [wire EXCEPT ![n] = @ \o updates]

\* The blocks that load_all_after returns are written to the session; rest
\* is still in the broadcast channel.
Deliver(n, blocks, rest) ==
    Send(n, [i \in DOMAIN blocks |-> Update("Transaction", blocks[i])],
         [phase |-> "draining", after |-> receiver[n].after,
          current |-> << >>, queue |-> rest, lagged |-> FALSE])

\* load_all_after, after the SELECT: try_recv discards queued blocks that were
\* selected already; the first newer one is taken and ends the loop.  So does
\* an empty channel, and so does a lagged receive.
SendCurrent(n) ==
    /\ receiver[n].phase = "selected"
    /\ LET r     == receiver[n]
           top   == IF r.current = << >> THEN r.after
                                         ELSE Sequence(Last(r.current))
           newer == {i \in DOMAIN r.queue : Sequence(r.queue[i]) > top}
       IN \/ /\ ~r.lagged
             /\ \E k \in newer :
                   /\ \A i \in newer : k <= i
                   /\ Deliver(n, r.current \o <<r.queue[k]>>,
                              SubSeq(r.queue, k + 1, Len(r.queue)))
          \/ /\ ~r.lagged
             /\ newer = {}
             /\ Deliver(n, r.current, << >>)
          \/ /\ r.lagged
             /\ Deliver(n, r.current, r.queue)
    /\ UNCHANGED <<chain, panicked, serverVars, diskVars, nodeVars, add,
                   stops, restarts>>

\* while let Ok(block) = receiver.try_recv(): a lagged receive ends the loop.
Drain(n) ==
    /\ receiver[n].phase = "draining"
    /\ \/ /\ ~receiver[n].lagged
          /\ receiver[n].queue # << >>
          /\ Send(n, <<Update("Transaction", Head(receiver[n].queue))>>,
                  [receiver[n] EXCEPT !.queue = Tail(@)])
       \/ /\ receiver[n].lagged \/ receiver[n].queue = << >>
          /\ receiver' = [receiver EXCEPT ![n].phase = "digest",
                                          ![n].lagged = FALSE]
          /\ UNCHANGED wire
    /\ UNCHANGED <<chain, panicked, serverVars, diskVars, nodeVars, add,
                   stops, restarts>>

\* Faulty variant: UpToDate waits until everything stored is applied.
SendUpToDateCaughtUp(n) ==
    /\ receiver[n].phase = "digest"
    /\ Sequence(chain[Server].last) = curSeq
    /\ Send(n, <<Update("UpToDate", Digest(chain[Server]))>>,
            [receiver[n] EXCEPT !.phase = "live"])
    /\ UNCHANGED <<chain, panicked, serverVars, diskVars, nodeVars, add,
                   stops, restarts>>

\* UpToDate with the digest of the server's chain in memory.
SendUpToDate(n) ==
    /\ receiver[n].phase = "digest"
    /\ Send(n, <<Update("UpToDate", Digest(chain[Server]))>>,
            [receiver[n] EXCEPT !.phase = "live"])
    /\ UNCHANGED <<chain, panicked, serverVars, diskVars, nodeVars, add,
                   stops, restarts>>

\* The live loop: forward a block; Close and end when the receiver lagged.
Forward(n) ==
    /\ receiver[n].phase = "live"
    /\ \/ /\ receiver[n].lagged
          /\ Send(n, <<Update("Close", NoBlock)>>, NoReceiver)
       \/ /\ ~receiver[n].lagged
          /\ receiver[n].queue # << >>
          /\ Send(n, <<Update("Transaction", Head(receiver[n].queue))>>,
                  [receiver[n] EXCEPT !.queue = Tail(@)])
    /\ UNCHANGED <<chain, panicked, serverVars, diskVars, nodeVars, add,
                   stops, restarts>>

(***************************************************************************)
(* A node starts and follows.                                              *)
(***************************************************************************)
\* load_trust_store: the snapshot, then every later row checked and applied.
\* A checked and applied row leaves the chain that importing it would give.
Replayed(snapshot, table) ==
    LET later == RowsAfter(table, Sequence(snapshot))
    IN IF later = << >> THEN snapshot ELSE Last(later)

ReplayAccepted(snapshot, table) ==
    LET later == RowsAfter(table, Sequence(snapshot))
    IN \A i \in DOMAIN later :
          Check(Import(IF i = 1 THEN snapshot ELSE later[i - 1]), later[i])

\* load_trust_store, then update_trust_store opens the session.  The server
\* lets an agent connect only when its certificate is in the server's state.
Start(n) ==
    /\ n \in Started
    /\ status[n] = "down"
    /\ ReplayAccepted(file[n], rows[n])
    /\ n \in Agents => n \in chain[Server].state
    /\ LET last == Replayed(file[n], rows[n])
       IN /\ chain' = [chain EXCEPT ![n] = Import(last)]
          /\ file' = [file EXCEPT ![n] = last]
          /\ receiver' = [receiver EXCEPT ![n] =
                             [NoReceiver EXCEPT !.phase = "request",
                                                !.after = Sequence(last)]]
    /\ cur' = [cur EXCEPT ![n] = MaxSequence(rows[n])]
    /\ status' = [status EXCEPT ![n] = "syncing"]
    /\ session' = [session EXCEPT ![n] = "sync"]
    /\ wire' = [wire EXCEPT ![n] = << >>]
    /\ UNCHANGED <<panicked, serverVars, rows, pend, add, stops, restarts>>

\* dispatch returns an error: before ready the start fails and the node goes
\* down, afterwards only the background task is gone.
EndSession(n) ==
    /\ session' = [session EXCEPT ![n] = "off"]
    /\ wire' = [wire EXCEPT ![n] = << >>]
    /\ pend' = [pend EXCEPT ![n] = Idle]
    /\ IF session[n] = "sync"
       THEN /\ status' = [status EXCEPT ![n] = "down"]
            /\ chain' = [chain EXCEPT ![n] = NoChain]
            /\ panicked' = panicked \ {n}
       ELSE UNCHANGED <<status, chain, panicked>>

Reads(n, kind) ==
    /\ session[n] # "off"
    /\ pend[n].stage = "idle"
    /\ wire[n] # << >>
    /\ Head(wire[n]).kind = kind

\* apply_block, first lock: check.  A poisoned lock ends the task.
ReadTransaction(n) ==
    /\ Reads(n, "Transaction")
    /\ LET block == Head(wire[n]).data
       IN \/ /\ n \notin panicked
             /\ Check(chain[n], block)
             /\ pend' = [pend EXCEPT ![n] = [stage |-> "checked",
                                             block |-> block]]
             /\ wire' = [wire EXCEPT ![n] = Tail(@)]
             /\ UNCHANGED <<chain, panicked, status, session>>
          \/ /\ n \in panicked \/ ~Check(chain[n], block)
             /\ EndSession(n)
    /\ UNCHANGED <<serverVars, receiver, diskVars, cur, add, stops, restarts>>

\* apply_block: store.add(&block).await
StoreBlock(n) ==
    /\ pend[n].stage = "checked"
    /\ \/ /\ TableAccepts(rows[n], cur[n], pend[n].block)
          /\ TableAdd(n, pend[n].block)
          /\ pend' = [pend EXCEPT ![n].stage = "stored"]
          /\ UNCHANGED <<chain, panicked, status, session, wire>>
       \/ /\ ~TableAccepts(rows[n], cur[n], pend[n].block)
          /\ EndSession(n)
          /\ UNCHANGED <<rows, cur>>
    /\ UNCHANGED <<serverVars, receiver, file, add, stops, restarts>>

\* Chain::apply at member m; a panic poisons the lock.
ApplyAt(m, block) ==
    /\ chain' = [chain EXCEPT ![m] = Apply(@, block)]
    /\ panicked' = IF ApplyPanics(chain[m], block)
                   THEN panicked \cup {m} ELSE panicked

\* apply_block, second lock: apply.  A panic, or a lock that is poisoned
\* already, ends the task; before ready, the start fails with it.
ApplyBlock(n) ==
    /\ pend[n].stage = "stored"
    /\ \/ /\ n \notin panicked
          /\ ~ApplyPanics(chain[n], pend[n].block)
          /\ ApplyAt(n, pend[n].block)
          /\ pend' = [pend EXCEPT ![n] = Idle]
          /\ UNCHANGED <<status, session, wire>>
       \/ /\ n \in panicked \/ ApplyPanics(chain[n], pend[n].block)
          /\ IF session[n] = "sync" \/ n \in panicked
             THEN EndSession(n)
             ELSE /\ ApplyAt(n, pend[n].block)
                  /\ pend' = [pend EXCEPT ![n] = Idle]
                  /\ session' = [session EXCEPT ![n] = "off"]
                  /\ wire' = [wire EXCEPT ![n] = << >>]
                  /\ UNCHANGED status
    /\ UNCHANGED <<serverVars, receiver, diskVars, cur, add, stops, restarts>>

\* UpToDate: the digests must agree; then the node is ready.  A second one
\* is a protocol error.
ReadUpToDate(n) ==
    /\ Reads(n, "UpToDate")
    /\ \/ /\ session[n] = "sync"
          /\ Head(wire[n]).data = Digest(chain[n])
          /\ session' = [session EXCEPT ![n] = "live"]
          /\ status' = [status EXCEPT ![n] = "ready"]
          /\ wire' = [wire EXCEPT ![n] = Tail(@)]
          /\ UNCHANGED <<chain, panicked, pend>>
       \/ /\ session[n] = "live" \/ Head(wire[n]).data # Digest(chain[n])
          /\ EndSession(n)
    /\ UNCHANGED <<serverVars, receiver, diskVars, cur, add, stops, restarts>>

ReadClose(n) ==
    /\ Reads(n, "Close")
    /\ EndSession(n)
    /\ UNCHANGED <<serverVars, receiver, diskVars, cur, add, stops, restarts>>

\* The scheduled save_trust_store (a new file, renamed over the old one).
Save(n) ==
    /\ Running(n)
    /\ n \notin panicked
    /\ file[n] # chain[n].last
    /\ file' = [file EXCEPT ![n] = chain[n].last]
    /\ UNCHANGED <<chain, panicked, serverVars, feedVars, rows, nodeVars, add,
                   stops, restarts>>

(***************************************************************************)
(* A client adds an agent.                                                 *)
(***************************************************************************)
\* handle_agent_enroll exports the trust store for the agent ...
Enroll(c, a) ==
    /\ status[c] = "ready"
    /\ c \notin panicked
    /\ add[c].stage = "idle"
    /\ handler[c].stage = "idle"
    /\ status[a] = "new"
    /\ add' = [add EXCEPT ![c] = [stage |-> "exported", block |-> NoBlock,
                                  agent |-> a, snapshot |-> chain[c].last]]
    /\ status' = [status EXCEPT ![a] = "joining"]
    /\ UNCHANGED <<chain, panicked, serverVars, feedVars, diskVars, cur,
                   session, pend, stops, restarts>>

\* The add ends with an error: the agent is not told Ok and gives up.
AddFails(c) ==
    /\ add' = [add EXCEPT ![c] = NoAdd]
    /\ status' = [status EXCEPT ![add[c].agent] = "failed"]

\* ... then add_cert_to_trust_store packages the block and sends it, which
\* fails when the connection is gone.
PackageAndSend(c) ==
    /\ add[c].stage = "exported"
    /\ \/ /\ c \notin panicked
          /\ StateCheck(chain[c].state, add[c].agent)
          /\ status[c] = "ready"
          /\ LET block == Package(chain[c], add[c].agent)
             IN /\ add' = [add EXCEPT ![c].stage = "sent", ![c].block = block]
                /\ handler' = [handler EXCEPT ![c] = [stage |-> "received",
                                                      block |-> block]]
          /\ UNCHANGED status
       \/ /\ \/ c \in panicked
             \/ ~StateCheck(chain[c].state, add[c].agent)
             \/ status[c] = "offline"
          /\ AddFails(c)
          /\ UNCHANGED handler
    /\ UNCHANGED <<chain, panicked, db, curSeq, reply, feedVars, diskVars, cur,
                   session, pend, stops, restarts>>

\* The feedback of send_with_feedback.
AddAnswered(c) ==
    /\ add[c].stage = "sent"
    /\ reply[c] # "none"
    /\ reply' = [reply EXCEPT ![c] = "none"]
    /\ \/ /\ reply[c] = "ok"
          /\ add' = [add EXCEPT ![c].stage = "confirmed"]
          /\ UNCHANGED status
       \/ /\ reply[c] = "err"
          /\ AddFails(c)
    /\ UNCHANGED <<chain, panicked, db, curSeq, handler, feedVars, diskVars,
                   cur, session, pend, stops, restarts>>

\* transaction_store().add(&block).await
AddStore(c) ==
    /\ add[c].stage = "confirmed"
    /\ \/ /\ TableAccepts(rows[c], cur[c], add[c].block)
          /\ TableAdd(c, add[c].block)
          /\ add' = [add EXCEPT ![c].stage = "stored"]
          /\ UNCHANGED status
       \/ /\ ~TableAccepts(rows[c], cur[c], add[c].block)
          /\ AddFails(c)
          /\ UNCHANGED <<rows, cur>>
    /\ UNCHANGED <<chain, panicked, serverVars, feedVars, file, session, pend,
                   stops, restarts>>

\* trust_store.write().apply(block); then the agent is told Ok and writes its
\* files.
AddApply(c) ==
    /\ add[c].stage = "stored"
    /\ \/ /\ c \notin panicked
          /\ ApplyAt(c, add[c].block)
       \/ /\ c \in panicked
          /\ UNCHANGED <<chain, panicked>>
    /\ \/ /\ c \notin panicked'
          /\ add' = [add EXCEPT ![c] = NoAdd]
          /\ status' = [status EXCEPT ![add[c].agent] = "down"]
          /\ file' = [file EXCEPT ![add[c].agent] = add[c].snapshot]
       \/ /\ c \in panicked'
          /\ AddFails(c)
          /\ UNCHANGED file
    /\ UNCHANGED <<serverVars, feedVars, rows, cur, session, pend, stops,
                   restarts>>

(***************************************************************************)
(* Stops and restarts.                                                     *)
(***************************************************************************)
\* A node that is stopped, or crashes, keeps its file and its table.  What
\* it sent to the server is still handled there.  A node that lost the server
\* does not connect again by itself: it has to be stopped and started.
Stop(n) ==
    /\ \/ /\ status[n] \in {"syncing", "ready"}
          /\ stops < MaxStops
          /\ stops' = stops + 1
       \/ /\ status[n] = "offline"
          /\ UNCHANGED stops
    /\ chain' = [chain EXCEPT ![n] = NoChain]
    /\ panicked' = panicked \ {n}
    /\ session' = [session EXCEPT ![n] = "off"]
    /\ wire' = [wire EXCEPT ![n] = << >>]
    /\ pend' = [pend EXCEPT ![n] = Idle]
    /\ IF n \in Clients /\ add[n].stage # "idle"
       THEN /\ add' = [add EXCEPT ![n] = NoAdd]
            /\ status' = [status EXCEPT ![n] = "down",
                                        ![add[n].agent] = "failed"]
            /\ reply' = [reply EXCEPT ![n] = "none"]
       ELSE /\ status' = [status EXCEPT ![n] = "down"]
            /\ UNCHANGED <<add, reply>>
    /\ UNCHANGED <<db, curSeq, handler, receiver, diskVars, cur, restarts>>

\* Server::start after a stop or a crash: get_base_config imports the trust
\* store saved when the server was initialised, the table is opened again.
\* Every connection is gone: sessions end, an add that waits gets an error.
RestartServer ==
    /\ restarts < MaxRestarts
    /\ restarts' = restarts + 1
    /\ LET syncing == {n \in Nodes : session[n] = "sync"}
           waiting == {c \in Clients : add[c].stage = "sent"}
       IN /\ chain' = [m \in Members |->
                          IF m = Server THEN Import(Genesis)
                          ELSE IF m \in syncing THEN NoChain ELSE chain[m]]
          /\ panicked' = panicked \ ({Server} \cup syncing)
          /\ pend' = [n \in Nodes |-> IF n \in syncing THEN Idle ELSE pend[n]]
          /\ add' = [c \in Clients |-> IF c \in waiting THEN NoAdd ELSE add[c]]
          /\ status' = [n \in Nodes |->
                           IF n \in syncing THEN "down"
                           ELSE IF status[n] = "ready" THEN "offline"
                           ELSE IF \E c \in waiting : add[c].agent = n
                                THEN "failed" ELSE status[n]]
    /\ curSeq' = MaxSequence(db)
    /\ handler' = [c \in Clients |-> Idle]
    /\ reply' = [c \in Clients |-> "none"]
    /\ receiver' = [n \in Nodes |-> NoReceiver]
    /\ wire' = [n \in Nodes |-> << >>]
    /\ session' = [n \in Nodes |-> "off"]
    /\ UNCHANGED <<db, diskVars, cur, stops>>

-----------------------------------------------------------------------------
ServerStep(c) == \/ HandlerCheck(c) \/ HandlerInsert(c)
                 \/ HandlerPublish(c) \/ HandlerApply(c)

FeedStep(n) == \/ Subscribe(n) \/ Select(n) \/ SendCurrent(n) \/ Drain(n)
               \/ SendUpToDate(n) \/ Forward(n)

FollowStep(n) == \/ ReadTransaction(n) \/ StoreBlock(n) \/ ApplyBlock(n)
                 \/ ReadUpToDate(n) \/ ReadClose(n)

AddStep(c) == \/ PackageAndSend(c) \/ AddAnswered(c)
              \/ AddStore(c) \/ AddApply(c)

Next ==
    \/ \E c \in Clients : ServerStep(c) \/ AddStep(c)
    \/ \E c \in Clients, a \in Agents : Enroll(c, a)
    \/ \E n \in Nodes : \/ FeedStep(n) \/ FollowStep(n)
                        \/ Start(n) \/ Save(n) \/ Stop(n)
    \/ RestartServer

Spec == Init /\ [][Next]_vars

(***************************************************************************)
(* Every task that can run is run: tokio polls a task that is ready, and   *)
(* the tables and sessions answer.                                         *)
(***************************************************************************)
Fairness ==
    /\ \A c \in Clients : WF_vars(ServerStep(c)) /\ WF_vars(AddStep(c))
    /\ \A n \in Nodes : WF_vars(FeedStep(n)) /\ WF_vars(FollowStep(n))

FairSpec == Spec /\ Fairness

-----------------------------------------------------------------------------
(***************************************************************************)
(* Properties.                                                             *)
(***************************************************************************)
\* The history the server's table holds: its newest row.
Log == IF db = {} THEN Genesis
       ELSE CHOOSE b \in db : \A d \in db : Sequence(d) <= Sequence(b)

ChainType == [last : Block, state : SUBSET Certs]
HandlerType == [stage : {"idle", "received", "checked", "inserted", "published"},
                block : Block]
ReceiverType ==
    {r \in [phase : {"off", "request", "subscribed", "selected", "draining",
                     "digest", "live"},
            after : Nat, current : Seq(Block), queue : Seq(Block),
            lagged : BOOLEAN] : Len(r.queue) <= BroadcastCap}
PendType == [stage : {"idle", "checked", "stored"}, block : Block]
AddType == [stage : {"idle", "exported", "sent", "confirmed", "stored"},
            block : Block, agent : Certs, snapshot : Block]
StatusType == {"new", "joining", "failed", "down", "syncing", "ready", "offline"}

\* The type of every variable; the queue of a broadcast receiver never holds
\* more than the channel's capacity.
TypeOK ==
    /\ chain \in [Members -> ChainType]
    /\ panicked \subseteq Members
    /\ db \subseteq Block
    /\ curSeq \in Nat
    /\ handler \in [Clients -> HandlerType]
    /\ reply \in [Clients -> {"none", "ok", "err"}]
    /\ receiver \in [Nodes -> ReceiverType]
    /\ wire \in [Nodes -> Seq(Message)]
    /\ status \in [Nodes -> StatusType]
    /\ file \in [Nodes -> Block]
    /\ rows \in [Nodes -> SUBSET Block]
    /\ cur \in [Nodes -> Nat]
    /\ session \in [Nodes -> {"off", "sync", "live"}]
    /\ pend \in [Nodes -> PendType]
    /\ add \in [Clients -> AddType]
    /\ stops \in 0 .. MaxStops
    /\ restarts \in 0 .. MaxRestarts

\* The server's table is one chain without gaps: two blocks packaged on the
\* same block are never both stored (MessageHandler::handle checks and
\* add_and_broadcast inserts in two steps), whatever restarts intervene.
TableIsOneChain ==
    /\ \A b \in db : /\ Sequence(b) >= 2
                     /\ PreviousBlock(b) \in db \cup {Genesis}
    /\ \A b, d \in db : Sequence(b) = Sequence(d) => b = d

\* The server's apply never panics, and its chain in memory is always one of
\* the histories its table holds.
ServerChainStored ==
    /\ Server \notin panicked
    /\ chain[Server].last \in db \cup {Genesis}
    /\ chain[Server].state = ResultingState(chain[Server].last)

\* No fork: as long as no apply panicked at them, any two members that run
\* have accepted histories of which one is a prefix of the other.
NoFork ==
    \A m, n \in Members \ panicked :
        Running(m) /\ Running(n) =>
            \/ IsPrefix(chain[m].last, chain[n].last)
            \/ IsPrefix(chain[n].last, chain[m].last)

\* A node applies only what it could load again: the rows that
\* load_trust_store would replay over the file are accepted and lead at
\* least to the chain in memory, at every point a crash can happen.
Recoverable ==
    \A n \in Nodes : Running(n) \/ status[n] = "down" =>
        /\ ReplayAccepted(file[n], rows[n])
        /\ n \notin panicked /\ Running(n) =>
               IsPrefix(chain[n].last, Replayed(file[n], rows[n]))

\* No lost update: a live node with nothing under way has every block the
\* server has broadcast (load_all_after subscribes before it selects), until
\* the server is restarted.
LiveNodeComplete ==
    \A n \in Nodes \ panicked :
        /\ session[n] = "live" /\ pend[n].stage = "idle" /\ wire[n] = << >>
        /\ receiver[n].phase = "live" /\ receiver[n].queue = << >>
        /\ ~receiver[n].lagged
        => Sequence(chain[n].last) >= curSeq

\* Until it is restarted, the server's chain in memory is at most one block
\* behind its table (add_and_broadcast runs before apply, and a broadcast
\* that nobody receives skips apply for good).
ServerLagAtMostOne ==
    restarts = 0 => Sequence(Log) <= Sequence(chain[Server].last) + 1

\* What the server serves from memory never leaves its table: it is a history of the
\* table and, until a restart, at most one block behind.
ServerFollowsTable == ServerChainStored /\ ServerLagAtMostOne

\* While a node runs, its accepted history only grows: apply does not test
\* the sequence, so applying a block a second time must be harmless or panic.
NeverRegresses ==
    [][\A n \in Nodes :
          Running(n) /\ Running(n)' =>
              IsPrefix(chain[n].last, chain'[n].last)]_vars

\* An agent that was told Ok is in the log: whatever restarts intervene, its
\* certificate is in a row of the server's table.
JoinedAgentsRecorded ==
    \A a \in Agents : status[a] \notin {"new", "joining", "failed"} =>
        a \in ResultingState(Log)

\* What each node would load if it were started now.
Durable == [n \in Nodes |-> Replayed(file[n], rows[n])]

\* The detailed system implements the abstract one: the server's table is the
\* log, and a node durably knows what load_trust_store would replay.
Abstract == INSTANCE TrustLog
    WITH Node <- Nodes, Cert <- Certs, log <- Log, durable <- Durable

Implements == Abstract!Spec

\* Every add_cert_to_trust_store ends, with success or with an error.
AddEnds == \A c \in Clients : add[c].stage # "idle" ~> add[c].stage = "idle"

\* A node that starts gets ready or gives up; it does not wait for ever.
StartEnds == \A n \in Started : session[n] = "sync" ~> session[n] # "sync"

(***************************************************************************)
(* Claims of the documentation that the code does not meet.                *)
(***************************************************************************)
\* "resulting state mismatch should have already been checked"
\* (secure_chain.rs): apply is only called with blocks that check accepted
\* on the same chain, so its panic is never reached.
ApplyNeverPanics == panicked = {}

\* "A newly initialized node only needs a trusted snapshot of the current
\* state and the latest chain position" (central_trust_store.md): the table
\* of a node takes every block that its chain takes.
SnapshotSuffices ==
    \A n \in Nodes : pend[n].stage = "checked" =>
        TableAccepts(rows[n], cur[n], pend[n].block)

\* "Persistent local state prevents unnoticed rollback"
\* (central_trust_store.md): the server never goes back to an older history.
NoServerRollback == [][IsPrefix(chain[Server].last, chain'[Server].last)]_vars

\* "it will continue to download and apply updates in a background task"
\* (util/trust_store.rs): a live update session ends only with the node, the
\* connection or a Close of the server.
UpdatesContinue ==
    [][\A n \in Nodes :
          session[n] = "live" /\ session'[n] = "off" =>
              \/ status'[n] # "ready"
              \/ wire[n] # << >> /\ Head(wire[n]).kind = "Close"]_vars

=============================================================================

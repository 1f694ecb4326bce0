-------------------------------- MODULE UserMls --------------------------------
(***************************************************************************)
(* The MLS state of a user (shared/commands/update_user_mls.rs).  The      *)
(* server keeps it encrypted in the user's row; whichever client session   *)
(* of the user is connected brings it up to date: it reads the saved       *)
(* state, processes the messages the server streams to it, and sends back  *)
(* the new state with the ids of the messages it has processed and with    *)
(* fresh key packages.  The handler serialises the sessions of one user    *)
(* with a lock, and both directions of the session are used at any time,   *)
(* so the answer to a StateUpdate may be preceded by Updates.              *)
(*                                                                         *)
(* All streams belong to the one user; a stream s is one session: the      *)
(* server's handler, the task that streams the messages to it, and the     *)
(* client's dispatch.  The state is abstracted to the messages it has      *)
(* processed and the key packages whose private part it holds.             *)
(*                                                                         *)
(* The list "messages" of a StateUpdate is always empty (the code that     *)
(* would fill it is commented out), and the server never sends a           *)
(* YieldRequest, so neither is modelled.                                   *)
(***************************************************************************)
EXTENDS MessageStore

CONSTANTS
    User,           \* the user
    Packages,       \* key packages that can ever be made (bound)
    Wanted,         \* WANTED_KEY_PACKAGES (100)
    Batch,          \* processed messages that force an update (10)
    ForwardCap,     \* capacity of the task's channel to the handler (100)
    MaxArrivals     \* bound: messages, sessions, ticks of the key package timer
                    \*  and restarts of the server, together

ASSUME UserAssumption ==
    /\ User \in Receivers
    /\ IsFiniteSet(Packages)
    /\ \A s \in Streams : Owner[s] = User
    /\ Wanted \in Nat /\ Batch \in Nat \ {0} /\ ForwardCap \in Nat \ {0}
    /\ MaxArrivals \in Nat

VARIABLES
    saved,     \* mls_store of the user's row
    pool,      \* key_packages table: the user's key packages
    lock,      \* session that holds the user's lock
    srv,       \* [Streams -> where the handler is]
    pending,   \* [Streams -> StateUpdate the handler works on]
    feed,      \* [Streams -> where the streaming task is]
    batch,     \* [Streams -> loaded messages it still has to forward]
    channel,   \* [Streams -> its channel to the handler]
    down,      \* [Streams -> objects on their way to the client]
    up,        \* [Streams -> objects on their way to the server]
    cl,        \* [Streams -> where the client's dispatch is]
    local,     \* [Streams -> state the client works on]
    done,      \* [Streams -> processed, not yet acknowledged]
    made,      \* key packages made so far
    broken,    \* history: an update was cut short between two of its steps
    counts, restarts

sessionVars == <<srv, pending, feed, batch, channel, down, up, cl, local, done>>
vars == <<stored, owed, adding, earlier, requests, handing, subscribed, sub,
          saved, pool, lock, srv, pending, feed, batch, channel, down, up, cl,
          local, done, made, broken, counts, restarts>>

MlsState == [seen : SUBSET Messages, keys : SUBSET Packages]
StateUpdates == [kind : {"update"}, state : MlsState, keys : SUBSET Packages,
                 acks : SUBSET Messages]
NoUpdate == [kind |-> "none"]
\* What the server writes: the state, an update, or the answer to an update.
Down == [kind : {"state"}, state : MlsState]
        \cup [kind : {"message"}, msg : Messages]
        \cup [kind : {"count"}, n : 0 .. Cardinality(Packages)]
        \cup {[kind |-> "result"], [kind |-> "goodbye"]}
Up == StateUpdates \cup {[kind |-> "goodbye"], [kind |-> "damaged"]}

Empty == [seen |-> {}, keys |-> {}]

TypeOK ==
    /\ StoreTypeOK
    /\ saved \in MlsState
    /\ pool \subseteq Packages
    /\ lock \in Streams \cup {None}
    /\ srv \in [Streams -> {"off", "lock", "loop", "packages", "save", "acknowledge",
                            "ended"}]
    /\ pending \in [Streams -> StateUpdates \cup {NoUpdate}]
    /\ feed \in [Streams -> {"off", "load", "subscribe", "forward", "ended"}]
    /\ batch \in [Streams -> Seq(Messages)]
    /\ channel \in [Streams -> Seq(Messages)]
    /\ \A s \in Streams : Len(channel[s]) <= ForwardCap
    /\ down \in [Streams -> Seq(Down)]
    /\ up \in [Streams -> Seq(Up)]
    /\ cl \in [Streams -> {"off", "state", "read", "result", "garbled", "ended"}]
    /\ local \in [Streams -> MlsState]
    /\ done \in [Streams -> SUBSET Messages]
    /\ made \subseteq Packages
    /\ broken \in BOOLEAN
    /\ counts \in 0 .. MaxArrivals
    /\ restarts \in 0 .. MaxArrivals

Init ==
    /\ StoreInit
    /\ saved = Empty
    /\ pool = {}
    /\ lock = None
    /\ srv = [s \in Streams |-> "off"]
    /\ pending = [s \in Streams |-> NoUpdate]
    /\ feed = [s \in Streams |-> "off"]
    /\ batch = [s \in Streams |-> <<>>]
    /\ channel = [s \in Streams |-> <<>>]
    /\ down = [s \in Streams |-> <<>>]
    /\ up = [s \in Streams |-> <<>>]
    /\ cl = [s \in Streams |-> "off"]
    /\ local = [s \in Streams |-> Empty]
    /\ done = [s \in Streams |-> {}]
    /\ made = {}
    /\ broken = FALSE
    /\ counts = 0
    /\ restarts = 0

MayArrive ==
    Cardinality({m \in Messages : adding[m] # "new"})
        + Cardinality({s \in Streams : srv[s] # "off"}) + counts + restarts < MaxArrivals

\* An object for a peer that is gone is not read by anybody.
ToClient(s, object) ==
    down' = IF cl[s] = "ended" THEN down ELSE [down EXCEPT ![s] = Append(@, object)]
ToServer(s, object) ==
    up' = IF srv[s] = "ended" THEN up ELSE [up EXCEPT ![s] = Append(@, object)]

-----------------------------------------------------------------------------
(* The task that streams the user's messages to the handler *)

feedFrame == <<saved, pool, lock, srv, pending, down, up, cl, local, done, made,
               broken, counts, restarts>>

Load(s) ==
    /\ feed[s] = "load"
    /\ \E f \in Loads(OwedTo(User)) : batch' = [batch EXCEPT ![s] = f]
    /\ feed' = [feed EXCEPT ![s] = "subscribe"]
    /\ UNCHANGED <<storeVars, channel, feedFrame>>

LoadFails(s) ==
    /\ feed[s] = "load"
    /\ feed' = [feed EXCEPT ![s] = "ended"]
    /\ UNCHANGED <<storeVars, batch, channel, feedFrame>>

Subscribe(s) ==
    /\ feed[s] = "subscribe"
    /\ SendSubscription(s)
    /\ feed' = [feed EXCEPT ![s] = "forward"]
    /\ UNCHANGED <<batch, channel, feedFrame>>

\* The handler still holds the receiving end of the task's channel.
Listening(s) == srv[s] \notin {"off", "lock", "ended"}

\* As if the channel had no bound.
AlwaysRoom(s) == TRUE

\* The task waits while the channel is full.
HasRoom(s) == Len(channel[s]) < ForwardCap

\* A loaded message is forwarded; an error ends the task.
ForwardLoaded(s) ==
    /\ feed[s] = "forward" /\ batch[s] # <<>>
    /\ \/ /\ Listening(s) /\ HasRoom(s)
          /\ channel' = [channel EXCEPT ![s] = Append(@, Head(batch[s]))]
          /\ batch' = [batch EXCEPT ![s] = Tail(@)]
          /\ UNCHANGED <<feed, sub>>
       \/ /\ ~Listening(s)
          /\ feed' = [feed EXCEPT ![s] = "ended"]
          /\ batch' = [batch EXCEPT ![s] = <<>>]
          /\ sub' = Dropped(s)
          /\ UNCHANGED channel
    /\ UNCHANGED <<stored, owed, adding, earlier, requests, handing, subscribed, feedFrame>>

\* A live message is forwarded; here an error is ignored, and the task goes on
\* as long as its subscription is fed.
ForwardLive(s) ==
    /\ feed[s] = "forward" /\ batch[s] = <<>> /\ sub[s].queue # <<>>
    /\ Listening(s) => HasRoom(s)
    /\ channel' = IF Listening(s)
                  THEN [channel EXCEPT ![s] = Append(@, Head(sub[s].queue))]
                  ELSE channel
    /\ sub' = [sub EXCEPT ![s].queue = Tail(@)]
    /\ UNCHANGED <<stored, owed, adding, earlier, requests, handing, subscribed,
                   feed, batch, feedFrame>>

Unfed(s) ==
    /\ feed[s] = "forward" /\ batch[s] = <<>> /\ sub[s].queue = <<>> /\ ~Fed(s)
    /\ feed' = [feed EXCEPT ![s] = "ended"]
    /\ sub' = Dropped(s)
    /\ UNCHANGED <<stored, owed, adding, earlier, requests, handing, subscribed,
                   batch, channel, feedFrame>>

-----------------------------------------------------------------------------
(* The handler, UpdateUserMlsHandler::handle *)

\* A client dispatches UpdateUserMls; the handler waits for the user's lock.
Connect(s) ==
    /\ srv[s] = "off" /\ MayArrive
    /\ srv' = [srv EXCEPT ![s] = "lock"]
    /\ cl' = [cl EXCEPT ![s] = "state"]
    /\ UNCHANGED <<storeVars, saved, pool, lock, pending, feed, batch, channel, down, up,
                   local, done, made, broken, counts, restarts>>

\* As if the saved state were read before the lock is taken (here: as it is
\* for a user without any).
LockAfterRead(s) ==
    /\ srv[s] = "lock" /\ lock = None
    /\ lock' = s
    /\ srv' = [srv EXCEPT ![s] = "loop"]
    /\ ToClient(s, [kind |-> "state", state |-> Empty])
    /\ feed' = [feed EXCEPT ![s] = "load"]
    /\ UNCHANGED <<storeVars, saved, pool, pending, batch, channel, up, cl, local,
                   done, made, broken, counts, restarts>>

\* With the lock, the handler reads the user's row, sends the saved state, and
\* starts the streaming task.
Lock(s) ==
    /\ srv[s] = "lock" /\ lock = None
    /\ lock' = s
    /\ srv' = [srv EXCEPT ![s] = "loop"]
    /\ ToClient(s, [kind |-> "state", state |-> saved])
    /\ feed' = [feed EXCEPT ![s] = "load"]
    /\ UNCHANGED <<storeVars, saved, pool, pending, batch, channel, up, cl, local,
                   done, made, broken, counts, restarts>>

\* read_object is not cancel safe: when another branch of the select wins while
\* an object arrives, what was read of it is lost.
Interrupted(s) ==
    IF up[s] = <<>> THEN {up[s]}
    ELSE {up[s], <<[kind |-> "damaged"]>> \o Tail(up[s])}

\* The select takes a message of the streaming task.
SendMessage(s) ==
    /\ srv[s] = "loop" /\ channel[s] # <<>>
    /\ channel' = [channel EXCEPT ![s] = Tail(@)]
    /\ ToClient(s, [kind |-> "message", msg |-> Head(channel[s])])
    /\ \E u \in Interrupted(s) : up' = [up EXCEPT ![s] = u]
    /\ UNCHANGED <<storeVars, saved, pool, lock, srv, pending, feed, batch, cl, local,
                   done, made, broken, counts, restarts>>

\* The select takes the timer: the client is told how many key packages are left.
SendCount(s) ==
    /\ srv[s] = "loop" /\ MayArrive
    /\ counts' = counts + 1
    /\ ToClient(s, [kind |-> "count", n |-> Cardinality(pool)])
    /\ \E u \in Interrupted(s) : up' = [up EXCEPT ![s] = u]
    /\ UNCHANGED <<storeVars, saved, pool, lock, srv, pending, feed, batch, channel, cl,
                   local, done, made, broken, restarts>>

\* The handler returns: its session ends and the lock is released.
Release(s) ==
    /\ srv' = [srv EXCEPT ![s] = "ended"]
    /\ lock' = IF lock = s THEN None ELSE lock
    /\ pending' = [pending EXCEPT ![s] = NoUpdate]
    /\ channel' = [channel EXCEPT ![s] = <<>>]
    /\ up' = [up EXCEPT ![s] = <<>>]

\* The select takes an object the client wrote.
ReadUpdate(s) ==
    /\ srv[s] = "loop" /\ up[s] # <<>> /\ Head(up[s]).kind = "update"
    /\ pending' = [pending EXCEPT ![s] = Head(up[s])]
    /\ up' = [up EXCEPT ![s] = Tail(@)]
    /\ srv' = [srv EXCEPT ![s] = "packages"]
    /\ UNCHANGED <<storeVars, saved, pool, lock, feed, batch, channel, down, cl, local,
                   done, made, broken, counts, restarts>>

\* The loop is left, on Goodbye, when the streaming task is gone or when the
\* server shuts down (at any time); the client is told.
Finish(s) ==
    /\ srv[s] = "loop"
    /\ Release(s)
    /\ ToClient(s, [kind |-> "goodbye"])
    /\ UNCHANGED <<storeVars, saved, pool, feed, batch, cl, local, done, made, broken,
                   counts, restarts>>

returnFrame == <<storeVars, saved, pool, feed, batch, cl, local, done, made, counts, restarts>>

\* The handler returns an error: a damaged object, or a database that does not
\* find the user's row or the number of key packages.
Fail(s) ==
    /\ srv[s] = "loop" \/ (srv[s] = "lock" /\ lock = None)
    /\ Release(s)
    /\ UNCHANGED <<returnFrame, down, broken>>

\* The client is gone: reading from it or writing to it fails.
ClientLost(s) ==
    /\ srv[s] = "loop" /\ cl[s] = "ended"
    /\ Release(s)
    /\ UNCHANGED <<returnFrame, down, broken>>

-----------------------------------------------------------------------------
(* handle_response *)

\* verify_key_package and add_key_package, one key package after the other
AddKeyPackage(s) ==
    /\ srv[s] = "packages"
    /\ \/ \E k \in pending[s].keys :
             /\ pool' = pool \cup {k}
             /\ pending' = [pending EXCEPT ![s].keys = @ \ {k}]
             /\ UNCHANGED srv
       \/ /\ pending[s].keys = {}
          /\ srv' = [srv EXCEPT ![s] = "save"]
          /\ UNCHANGED <<pool, pending>>
    /\ UNCHANGED <<storeVars, saved, lock, feed, batch, channel, down, up, cl, local,
                   done, made, broken, counts, restarts>>

Updating(s) == srv[s] \in {"packages", "save", "acknowledge"}

\* A step fails: the client gets an Err, the handler returns the error, and
\* what the steps before it wrote stays.
UpdateFails(s) ==
    /\ Updating(s)
    /\ Release(s)
    /\ ToClient(s, [kind |-> "result"])
    /\ broken' = TRUE
    /\ UNCHANGED returnFrame

\* As if the messages were acknowledged before the state is saved.
SaveLast(s) ==
    /\ srv[s] = "save"
    /\ \/ /\ pending[s].acks # {}
          /\ owed' = DropReceivers(pending[s].acks, User)
          /\ stored' = DropMessages(pending[s].acks, owed')
          /\ pending' = [pending EXCEPT ![s].acks = {}]
          /\ UNCHANGED <<srv, saved>>
       \/ /\ pending[s].acks = {}
          /\ saved' = pending[s].state
          /\ srv' = [srv EXCEPT ![s] = "acknowledge"]
          /\ UNCHANGED <<stored, owed, pending>>
    /\ UNCHANGED <<adding, earlier, requests, handing, subscribed, sub, pool, lock, feed,
                   batch, channel, down, up, cl, local, done, made, broken, counts, restarts>>

\* update_mls_data replaces the state, whatever it was.
Save(s) ==
    /\ srv[s] = "save"
    /\ saved' = pending[s].state
    /\ srv' = [srv EXCEPT ![s] = "acknowledge"]
    /\ UNCHANGED <<storeVars, pool, lock, pending, feed, batch, channel, down, up, cl,
                   local, done, made, broken, counts, restarts>>

\* aknowledge_messages, both DELETEs of every message in one transaction, and
\* the answer to the client.
Acknowledge(s) ==
    /\ srv[s] = "acknowledge"
    /\ owed' = DropReceivers(pending[s].acks, User)
    /\ stored' = DropMessages(pending[s].acks, owed')
    /\ srv' = [srv EXCEPT ![s] = "loop"]
    /\ pending' = [pending EXCEPT ![s] = NoUpdate]
    /\ ToClient(s, [kind |-> "result"])
    /\ UNCHANGED <<adding, earlier, requests, handing, subscribed, sub, saved, pool, lock,
                   feed, batch, channel, up, cl, local, done, made,
                   broken, counts, restarts>>

-----------------------------------------------------------------------------
(* The client, UpdateUserMls::dispatch *)

clientFrame == <<storeVars, saved, pool, lock, srv, pending, feed, batch, channel,
                 broken, counts, restarts>>

Read(s) == down' = [down EXCEPT ![s] = Tail(@)]

ReadState(s) ==
    /\ cl[s] = "state" /\ down[s] # <<>>
    /\ local' = [local EXCEPT ![s] = Head(down[s]).state]
    /\ cl' = [cl EXCEPT ![s] = "read"]
    /\ Read(s)
    /\ UNCHANGED <<clientFrame, up, done, made>>

\* As if the ids of the processed messages were left out of the update.
SendUpdateOnly(s, state, acks, keys) ==
    /\ ToServer(s, [kind |-> "update", state |-> state,
                     keys |-> keys, acks |-> {}])
    /\ done' = [done EXCEPT ![s] = {}]
    /\ cl' = [cl EXCEPT ![s] = "result"]

\* The client writes a StateUpdate and then waits for its result.
SendUpdate(s, state, acks, keys) ==
    /\ ToServer(s, [kind |-> "update", state |-> state,
                     keys |-> keys, acks |-> acks])
    /\ done' = [done EXCEPT ![s] = {}]
    /\ cl' = [cl EXCEPT ![s] = "result"]

\* A message it has not seen is processed; Batch of them force an update.
ReadMessage(s) ==
    /\ cl[s] = "read" /\ down[s] # <<>> /\ Head(down[s]).kind = "message"
    /\ LET m == Head(down[s]).msg
           state == [local[s] EXCEPT !.seen = @ \cup {m}] IN
          /\ m \notin local[s].seen
          /\ local' = [local EXCEPT ![s] = state]
          /\ IF Cardinality(done[s] \cup {m}) >= Batch
             THEN SendUpdate(s, state, done[s] \cup {m}, {})
             ELSE done' = [done EXCEPT ![s] = @ \cup {m}] /\ UNCHANGED <<up, cl>>
    /\ Read(s)
    /\ UNCHANGED <<clientFrame, made>>

\* As if the state were exported before the key packages are made.
ReadCountFirst(s) ==
    /\ cl[s] = "read" /\ down[s] # <<>> /\ Head(down[s]).kind = "count"
    /\ Head(down[s]).n < Wanted
    /\ \E K \in SUBSET (Packages \ made) :
          /\ Cardinality(K) = Wanted - Head(down[s]).n
          /\ local' = [local EXCEPT ![s].keys = @ \cup K]
          /\ SendUpdate(s, local[s], done[s], K)
          /\ made' = made \cup K
    /\ Read(s)
    /\ UNCHANGED clientFrame

\* Too few key packages: new ones are made and sent.
ReadCount(s) ==
    /\ cl[s] = "read" /\ down[s] # <<>> /\ Head(down[s]).kind = "count"
    /\ \/ /\ Head(down[s]).n < Wanted
          /\ \E K \in SUBSET (Packages \ made) :
                /\ Cardinality(K) = Wanted - Head(down[s]).n
                /\ LET state == [local[s] EXCEPT !.keys = @ \cup K] IN
                      /\ local' = [local EXCEPT ![s] = state]
                      /\ SendUpdate(s, state, done[s], K)
                /\ made' = made \cup K
       \/ /\ Head(down[s]).n >= Wanted
          /\ UNCHANGED <<local, up, done, made, cl>>
    /\ Read(s)
    /\ UNCHANGED clientFrame

\* No update came for a while: what was processed is sent.
Timeout(s) ==
    /\ cl[s] = "read" /\ done[s] # {}
    /\ SendUpdate(s, local[s], done[s], {})
    /\ UNCHANGED <<clientFrame, down, local, made>>

\* read_object is not cancel safe: the timeout strikes while an object arrives,
\* and from then on the client reads from the middle of objects.
LoseTrack(s) ==
    /\ cl[s] = "read" /\ down[s] # <<>>
    /\ \/ /\ done[s] # {}
          /\ ToServer(s, [kind |-> "update", state |-> local[s],
                          keys |-> {}, acks |-> done[s]])
       \/ done[s] = {} /\ UNCHANGED up
    /\ cl' = [cl EXCEPT ![s] = "garbled"]
    /\ done' = [done EXCEPT ![s] = {}]
    /\ UNCHANGED <<clientFrame, down, local, made>>

\* Whatever comes next is taken for the result: an Update in its place decodes
\* as a Result or as an error that is only logged, and is lost either way.
ReadResult(s) ==
    /\ cl[s] = "result" /\ down[s] # <<>>
    /\ cl' = [cl EXCEPT ![s] = "read"]
    /\ Read(s)
    /\ UNCHANGED <<clientFrame, up, local, done, made>>

\* dispatch is left, and with it the state it worked on.
ClientEnds(s) ==
    /\ cl' = [cl EXCEPT ![s] = "ended"]
    /\ down' = [down EXCEPT ![s] = <<>>]
    /\ local' = [local EXCEPT ![s] = Empty]
    /\ done' = [done EXCEPT ![s] = {}]

\* dispatch returns: on a Goodbye, on a message that fails (one that was seen
\* before always does), on a result that comes where an Update is expected, on
\* what it cannot decode, or when the handler is gone.
Return(s) ==
    /\ \/ cl[s] = "read" /\ down[s] # <<>>
          /\ Head(down[s]).kind \in {"goodbye", "result", "message"}
       \/ cl[s] = "garbled"
       \/ cl[s] \in {"state", "read", "result"} /\ down[s] = <<>> /\ srv[s] = "ended"
    /\ ClientEnds(s)
    /\ UNCHANGED <<clientFrame, up, made>>

\* The client stops: it says Goodbye when it is cancelled while it reads, and
\* nothing when it crashes or its connection is lost.
Stop(s) ==
    /\ cl[s] \in {"state", "read", "result", "garbled"}
    /\ ClientEnds(s)
    /\ \/ UNCHANGED up
       \/ /\ cl[s] \in {"read", "garbled"}
          /\ ToServer(s, [kind |-> "goodbye"])
    /\ UNCHANGED <<clientFrame, made>>

-----------------------------------------------------------------------------
otherVars == <<saved, pool, lock, sessionVars, made, broken, counts, restarts>>

Store ==
    /\ StoreStep
    /\ ~MayArrive => \A m \in Messages : adding[m] = "new" => adding'[m] = "new"
    /\ UNCHANGED otherVars

\* Somebody fetches a key package of the user, to add it to a group.
UsePackage ==
    /\ \E k \in pool : pool' = pool \ {k}
    /\ UNCHANGED <<storeVars, saved, lock, sessionVars, made, broken, counts, restarts>>

Restart ==
    /\ MayArrive
    /\ restarts' = restarts + 1
    /\ StoreRestart
    /\ lock' = None
    /\ srv' = [s \in Streams |-> IF srv[s] = "off" THEN "off" ELSE "ended"]
    /\ pending' = [s \in Streams |-> NoUpdate]
    /\ feed' = [s \in Streams |-> IF feed[s] = "off" THEN "off" ELSE "ended"]
    /\ batch' = [s \in Streams |-> <<>>]
    /\ channel' = [s \in Streams |-> <<>>]
    /\ up' = [s \in Streams |-> <<>>]
    /\ broken' = (broken \/ \E s \in Streams : Updating(s))
    /\ UNCHANGED <<saved, pool, down, cl, local, done, made, counts>>

FeedStep(s) ==
    \/ Load(s) \/ LoadFails(s) \/ Subscribe(s) \/ ForwardLoaded(s) \/ ForwardLive(s)
    \/ Unfed(s)

UpdateStep(s) == AddKeyPackage(s) \/ Save(s) \/ Acknowledge(s)

HandlerStep(s) ==
    \/ Lock(s) \/ SendMessage(s) \/ ReadUpdate(s) \/ Finish(s) \/ Fail(s)
    \/ ClientLost(s) \/ UpdateStep(s) \/ UpdateFails(s)

ClientStep(s) ==
    \/ ReadState(s) \/ ReadMessage(s) \/ ReadCount(s) \/ Timeout(s)
    \/ LoseTrack(s) \/ ReadResult(s) \/ Return(s)

Next ==
    \/ Store
    \/ UsePackage
    \/ \E s \in Streams :
          \/ Connect(s) \/ FeedStep(s) \/ HandlerStep(s) \/ SendCount(s)
          \/ ClientStep(s) \/ Stop(s)
    \/ Restart

Spec == Init /\ [][Next]_vars

-----------------------------------------------------------------------------
(* Properties *)

\* A message is acknowledged for the user only when the state on the server
\* has processed it: no session that stops, no lost or misread object and no
\* restart of the server makes the user miss a message.
AcknowledgedIsSaved ==
    \A m \in Committed : User \in To[m] => <<m, User>> \in owed \/ m \in saved.seen

\* The saved state never goes back: no session overwrites what another one of
\* the user has saved, though update_mls_data replaces the row blindly.
SavedNeverGoesBack ==
    [][saved.seen \subseteq saved'.seen /\ saved.keys \subseteq saved'.keys]_vars

\* A message that the saved state has processed is not left to be delivered
\* again (which the client would take for an error, each time it starts),
\* except while the update that saved it is being handled, or if that update
\* was cut short by a failing step or by the end of the server.
SavedIsAcknowledged ==
    \A m \in saved.seen :
        <<m, User>> \in owed => broken \/ \E s \in Streams : srv[s] = "acknowledge"

\* A key package is handed out only if the user's saved state has its private
\* part, with the same exceptions: otherwise the user could not open the
\* welcome that is sealed with it.
PackagesAreUsable ==
    \A k \in pool :
        k \in saved.keys \/ broken \/ \E s \in Streams : srv[s] \in {"packages", "save"}

\* Messages, saved state and key packages fit together: nothing the user was sent is
\* missed or left behind, and nothing is on offer that the user could not use.
StateIsComplete == AcknowledgedIsSaved /\ SavedIsAcknowledged /\ PackagesAreUsable
=============================================================================

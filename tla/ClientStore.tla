------------------------------ MODULE ClientStore ------------------------------
(***************************************************************************)
(* What a client keeps about one device: the latest report of its agent    *)
(* and the latest meta data a user gave it (svalin_store: client_store.rs, *)
(* client_store/persistent.rs; message_streaming/client.rs; device.rs).    *)
(*                                                                         *)
(* Updates reach the client in the order of the server's message log, are  *)
(* put into a channel and acknowledged; one task takes them from there and *)
(* writes the database, then the state in memory that is shown.  The       *)
(* user's own MLS state reads the same log (see UserMls) and from time to  *)
(* time sends its whole view through the channel.                          *)
(*                                                                         *)
(* An update is its position in the log; its timestamp (seconds, from the  *)
(* clock of its author) decides what the database keeps.  Subscribers to   *)
(* the shown state are in ConnectionStatus.                                *)
(***************************************************************************)
EXTENDS Integers, Sequences, Functions, FiniteSetsExt

CONSTANTS
    ChannelCap,     \* capacity of the channel (100 in the code)
    MaxItems,       \* updates ever made
    MaxStamp,       \* timestamps are 1..MaxStamp
    MaxMains,       \* times the user's state is sent
    MaxCrashes

VARIABLES
    log,        \* updates in the server's order: [kind, at, own]
    next,       \* position of the next update this client is sent
    sending,    \* own updates the server has and the channel has not
    channel,    \* updates that wait for the state task
    row,        \* [Kinds -> the row of the device, or NoRow]
    shown,      \* [Kinds -> position of the update in memory, 0 for none]
    main,       \* how far the user's own state has read the log
    mains, crashes,
    entered,    \* [Kinds -> position of the latest update put into the channel]
    excused     \* kinds some update of which was lost, or came after a later one

Bounded == {ChannelCap, MaxItems, MaxStamp, MaxMains, MaxCrashes} \subseteq Nat

vars == <<log, next, sending, channel, row, shown, main, mains, crashes, entered, excused>>

Kinds == {"report", "meta"}
NoRow == [data |-> 0, at |-> 0]
Stamp(i) == IF i = 0 THEN 0 ELSE log[i].at

TypeOK ==
    /\ log \in Seq([kind : Kinds, at : 1..MaxStamp, own : BOOLEAN]) /\ Len(log) <= MaxItems
    /\ next \in 1..(Len(log) + 1) /\ main \in 0..Len(log)
    /\ sending \subseteq DOMAIN log
    /\ channel \in Seq([main : BOOLEAN, upto : 1..Len(log)]) /\ Len(channel) <= ChannelCap
    /\ row \in [Kinds -> [data : 0..Len(log), at : 0..MaxStamp]]
    /\ shown \in [Kinds -> 0..Len(log)]
    /\ \A k \in Kinds : shown[k] # 0 => log[shown[k]].kind = k
    /\ entered \in [Kinds -> 0..Len(log)]
    /\ mains \in 0..MaxMains /\ crashes \in 0..MaxCrashes /\ excused \subseteq Kinds

Init ==
    /\ log = <<>> /\ next = 1 /\ sending = {} /\ channel = <<>>
    /\ row = [k \in Kinds |-> NoRow] /\ shown = [k \in Kinds |-> 0]
    /\ main = 0 /\ mains = 0 /\ crashes = 0 /\ excused = {}
    /\ entered = [k \in Kinds |-> 0]

-----------------------------------------------------------------------------
(* The log.                                                                *)

\* An agent reports, or another client of the user changes the meta data.
OthersUpdate ==
    /\ Len(log) < MaxItems
    /\ \E k \in Kinds, t \in 1..MaxStamp :
          log' = Append(log, [kind |-> k, at |-> t, own |-> FALSE])
    /\ UNCHANGED <<next, sending, channel, row, shown, main, mains, crashes, entered, excused>>

\* DeviceHandle::update_metainfo, first part: the update is with the server, which
\* does not send it back.
SendMetaInfo ==
    /\ Len(log) < MaxItems
    /\ \E t \in 1..MaxStamp : log' = Append(log, [kind |-> "meta", at |-> t, own |-> TRUE])
    /\ sending' = sending \cup {Len(log')}
    /\ UNCHANGED <<next, channel, row, shown, main, mains, crashes, entered, excused>>

EnterUnbounded(i) ==
    LET k == log[i].kind
    IN /\ channel' = Append(channel, [main |-> FALSE, upto |-> i])
       /\ entered' = [entered EXCEPT ![k] = i]
       /\ excused' = IF i < entered[k] THEN excused \cup {k} ELSE excused

\* update_client_state, ClientStateHandle::update: waits while the channel is full.
Enter(i) ==
    LET k == log[i].kind
    IN /\ Len(channel) < ChannelCap
       /\ channel' = Append(channel, [main |-> FALSE, upto |-> i])
       /\ entered' = [entered EXCEPT ![k] = i]
       /\ excused' = IF i < entered[k] THEN excused \cup {k} ELSE excused

\* Second part: the client's own state gets it.  What others had changed before
\* may still be on its way, and then comes after it.
UpdateOwnState(i) ==
    /\ i \in sending
    /\ Enter(i)
    /\ sending' = sending \ {i}
    /\ UNCHANGED <<log, next, row, shown, main, mains, crashes>>

DeliverOrDrop ==
    /\ next <= Len(log)
    /\ channel' = IF log[next].own \/ Len(channel) >= ChannelCap THEN channel
                  ELSE Append(channel, [main |-> FALSE, upto |-> next])
    /\ next' = next + 1
    /\ UNCHANGED <<log, sending, row, shown, main, mains, crashes, entered, excused>>

\* ClientMessageReceiver: the update is put into the channel, waiting while it is
\* full, and then acknowledged.
Deliver ==
    /\ next <= Len(log)
    /\ IF log[next].own THEN UNCHANGED <<channel, entered, excused>> ELSE Enter(next)
    /\ next' = next + 1
    /\ UNCHANGED <<log, sending, row, shown, main, mains, crashes>>

\* UserMlsUpdater: the user's state, which may be behind what the client has.
SendMainState ==
    /\ mains < MaxMains /\ Len(channel) < ChannelCap
    /\ \E p \in main..Len(log) :
          /\ p > 0 /\ main' = p
          /\ channel' = Append(channel, [main |-> TRUE, upto |-> p])
    /\ mains' = mains + 1
    /\ UNCHANGED <<log, next, sending, row, shown, crashes, entered, excused>>

-----------------------------------------------------------------------------
(* ClientStateHandle's task.                                               *)

LastOf(k, p) == Max({0} \cup {i \in 1..p : log[i].kind = k})

\* The update of kind k that a message is about, 0 for none.
UpdateOf(message, k) ==
    IF message.main THEN LastOf(k, message.upto)
    ELSE IF log[message.upto].kind = k THEN message.upto ELSE 0

UpsertOnce(old, i) == IF old = NoRow THEN [data |-> i, at |-> Stamp(i)] ELSE old

UpsertAnyway(old, i) ==
    IF old = NoRow THEN [data |-> i, at |-> Stamp(i)] ELSE [old EXCEPT !.data = i]

\* INSERT ... ON CONFLICT DO UPDATE SET data WHERE the row's timestamp is older:
\* the timestamp stays that of the insert.
Upsert(old, i) ==
    IF old = NoRow THEN [data |-> i, at |-> Stamp(i)]
    ELSE IF old.at < Stamp(i) THEN [old EXCEPT !.data = i] ELSE old

\* ClientStore::update, as far as the tables in written.
Store(message, written) ==
    [k \in Kinds |-> IF k \in written /\ UpdateOf(message, k) # 0
                       THEN Upsert(row[k], UpdateOf(message, k)) ELSE row[k]]

\* State::update: a report of the user's state counts only if it is newer than
\* the one shown, and its meta data not at all.
Show(message) ==
    LET last == UpdateOf(message, "report")
    IN IF message.main
         THEN IF Stamp(shown["report"]) < Stamp(last)
                THEN [shown EXCEPT !["report"] = last] ELSE shown
         ELSE [shown EXCEPT ![log[message.upto].kind] = message.upto]

\* One request of the task; nobody sees the state between the two writes.
Process ==
    /\ channel # <<>>
    /\ row' = Store(Head(channel), Kinds)
    /\ shown' = Show(Head(channel))
    /\ channel' = Tail(channel)
    /\ UNCHANGED <<log, next, sending, main, mains, crashes, entered, excused>>

\* load_persistent shows what is in the database.
LoadPersistent(rows) == [k \in Kinds |-> rows[k].data]

Pending == {log[m.upto].kind : m \in {m \in Range(channel) : ~m.main}}
             \cup {log[i].kind : i \in sending}

\* The client stops, perhaps between two writes of one message (the report comes
\* first), and starts again: what is in the channel is lost, acknowledged or not.
Restart ==
    /\ crashes < MaxCrashes
    /\ \E written \in {{}, {"report"}, Kinds} :
          LET rows == IF channel = <<>> THEN row ELSE Store(Head(channel), written)
          IN /\ row' = rows /\ shown' = LoadPersistent(rows)
             /\ excused' = excused \cup {k \in Kinds : rows[k].data # shown[k] \/ k \in Pending}
    /\ channel' = <<>> /\ sending' = {} /\ crashes' = crashes + 1
    /\ UNCHANGED <<log, next, main, mains, entered>>

Next ==
    \/ OthersUpdate \/ SendMetaInfo \/ (\E i \in sending : UpdateOwnState(i))
    \/ Deliver \/ SendMainState \/ Process \/ Restart

Spec == Init /\ [][Next]_vars

-----------------------------------------------------------------------------
Ascending(k) ==
    \A i, j \in DOMAIN log : i < j /\ log[i].kind = k /\ log[j].kind = k => log[i].at < log[j].at

\* While the clocks of the authors agree with the log's order, what is shown at
\* rest is the latest of each kind: no update is lost between the log and the
\* screen, whatever the user's state sent, unless it was in the channel when the
\* client stopped or an own change crossed another one.
QuietShowsLatest ==
    \A k \in Kinds \ excused :
        Ascending(k) /\ next > Len(log) /\ channel = <<>> /\ sending = {}
        => shown[k] = LastOf(k, Len(log))

\* After a restart the user sees what he saw before: while the clocks agree and
\* the user's state was not sent, the row is what is shown.
RowIsShown ==
    \A k \in Kinds : Ascending(k) /\ mains = 0 /\ k \notin excused => row[k].data = shown[k]

\* Whatever the order, a stored update is never older than the first that was
\* stored for the device, and a row is there once something is shown.
RowNotBeforeFirst ==
    \A k \in Kinds : /\ Stamp(row[k].data) >= row[k].at
                     /\ shown[k] # 0 => row[k] # NoRow
================================================================================

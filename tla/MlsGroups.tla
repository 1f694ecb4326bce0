------------------------------- MODULE MlsGroups -------------------------------
(***************************************************************************)
(* The MLS groups of one device (svalin_pki/src/mls): its device group,    *)
(* created by the agent, and its meta group, created by a client.  Every   *)
(* member keeps the group in its own OpenMLS storage; the server keeps the *)
(* public part, checks what it is sent and passes it on.                   *)
(*                                                                         *)
(* OpenMLS is external.  A group's state is its log: the entry of its      *)
(* creation and one entry per commit; a commit is the log it leads to, and *)
(* can be processed by exactly those whose log is all but its last entry.  *)
(* gen counts the application messages of each member in this epoch: the   *)
(* code asks for no tolerance (SenderRatchetConfiguration::new(0, 0)) and  *)
(* no past epochs, so a message is readable only in its epoch and at its   *)
(* turn.                                                                   *)
(*                                                                         *)
(* Left out: commits sent as a GroupMessage and removals, which no code    *)
(* creates; key packages, see UserMls (asking for them may fail here); the *)
(* encodings.  An owed message is one of the message store, which keeps    *)
(* them in order and drops one when its receiver has answered Ok.          *)
(***************************************************************************)
EXTENDS Integers, Sequences, FiniteSets, SequencesExt, FiniteSetsExt

CONSTANTS
    Members,        \* certificates that take part
    CertificateType,\* [Members -> their type]
    Device,         \* the agent whose groups these are
    Chain,          \* its certificate chain, the agent included
    MetaCreators,   \* the client that creates the meta group, or none
    Adders,         \* clients that add members
    MaxOperations,  \* bound: groups created, members added and messages sent
    MaxFaults       \* bound: restarts of a member or of the server

ASSUME GroupsAssumption ==
    /\ Device \in Chain /\ Chain \subseteq Members
    /\ CertificateType \in [Members -> {"Root", "User", "UserSession", "Agent"}]
    /\ CertificateType[Device] = "Agent"
    /\ MetaCreators \cup Adders \subseteq Members
    /\ \A m, n \in MetaCreators : m = n
    /\ \A m \in MetaCreators \cup Adders : CertificateType[m] # "Agent"
    /\ MaxOperations \in Nat /\ MaxFaults \in Nat

Groups == {"DeviceGroup", "DeviceMetaGroup"}
NoGroup == << >>

VARIABLES
    group,      \* [Members -> [Groups -> log in the member's storage]]
    gen,        \* [Members -> [Groups -> [Members -> next message of that member]]]
    running,    \* the agent has been through ensure_group_exists
    outbox,     \* [Members -> messages on their way to the server, in order]
    handling,   \* [Members -> messages to store for what the member sent]
    stored,     \* [Groups -> log in the server's storage]
    cached,     \* [Groups -> log in the PublicProcessor's group_cache]
    owed,       \* [Members -> messages the store holds for the member]
    tried,      \* [Members -> how many of them failed on this connection]
    read,       \* [Members -> [Groups -> contents read, oldest first]]
    operations, faults,
    clean       \* history: the server has got and accepted all it was sent

vars == <<group, gen, running, outbox, handling, stored, cached, owed, tried,
          read, operations, faults, clean>>

GroupMembers(log) == UNION {log[i].new : i \in DOMAIN log}

\* get_required_group_members: the device's chain, for the meta group without
\* the device.
RequiredMembers(g) == IF g = "DeviceGroup" THEN Chain ELSE Chain \ {Device}

FreshGen == [m \in Members |-> 0]

TypeOK ==
    /\ running \in BOOLEAN /\ clean \in BOOLEAN
    /\ operations \in 0 .. MaxOperations /\ faults \in 0 .. MaxFaults
    /\ \A m \in Members :
          /\ tried[m] \in 0 .. Len(owed[m])
          /\ \A g \in Groups : /\ GroupMembers(group[m][g]) \subseteq Members
                               /\ gen[m][g] \in [Members -> 0 .. MaxOperations]
    /\ \A g \in Groups : /\ GroupMembers(stored[g]) \subseteq Members
                         /\ cached[g] # NoGroup => stored[g] # NoGroup

Init ==
    /\ group = [m \in Members |-> [g \in Groups |-> NoGroup]]
    /\ gen = [m \in Members |-> [g \in Groups |-> FreshGen]]
    /\ running = FALSE /\ clean = TRUE
    /\ outbox = [m \in Members |-> << >>]
    /\ handling = [m \in Members |-> << >>]
    /\ stored = [g \in Groups |-> NoGroup]
    /\ cached = [g \in Groups |-> NoGroup]
    /\ owed = [m \in Members |-> << >>]
    /\ tried = [m \in Members |-> 0]
    /\ read = [m \in Members |-> [g \in Groups |-> << >>]]
    /\ operations = 0 /\ faults = 0

-----------------------------------------------------------------------------
(* What a member does on its own: MlsProcessor.                            *)

serverVars == <<handling, stored, cached, owed, tried, read, faults>>

Fault == faults < MaxFaults /\ faults' = faults + 1
Count == operations < MaxOperations /\ operations' = operations + 1

\* What is sent to the server, and the welcome that comes with a new group or
\* new members.
MessageToServer(type, g, m, log) == [type |-> type, group |-> g, by |-> m, log |-> log]
Welcome(message) == [type |-> "Welcome", group |-> message.group, log |-> message.log]

\* A message is handed to the dispatcher, which sends them one by one.
Send(m, message) == outbox' = [outbox EXCEPT ![m] = Append(@, message)]

\* merge_pending_commit, join and merge_staged_commit: a new epoch, in which
\* every ratchet starts afresh.
NewEpoch(m, g, log) ==
    /\ group' = [group EXCEPT ![m][g] = log]
    /\ gen' = [gen EXCEPT ![m][g] = FreshGen]

\* create_group with the key packages of the required members: the group is
\* stored and its first commit merged before the server hears of it.  The
\* number of the operation tells two creations of one group apart.
CreateGroup(m, g) ==
    LET log == <<[by |-> m, new |-> RequiredMembers(g) \cup {m}, nr |-> operations]>>
    IN /\ Count
       /\ NewEpoch(m, g, log)
       /\ Send(m, MessageToServer("NewDeviceGroup", g, m, log))

CreateGroupAlways(m, g) ==
    /\ CreateGroup(m, g)
    /\ UNCHANGED <<serverVars, clean>>

\* create_group_if_not_exists, when the group is missing and the key packages
\* of the others could be had.
CreateGroupIfMissing(m, g) ==
    /\ group[m][g] = NoGroup
    /\ CreateGroup(m, g)
    /\ UNCHANGED <<serverVars, clean>>

\* ensure_group_exists creates the group when the agent starts; should that
\* fail, the agent ends and is started again.
EnsureGroupCreates ==
    /\ ~running
    /\ CreateGroupIfMissing(Device, "DeviceGroup")
    /\ running' = TRUE

EnsureGroupFound ==
    /\ ~running
    /\ group[Device]["DeviceGroup"] # NoGroup
    /\ running' = TRUE
    /\ UNCHANGED <<group, gen, outbox, operations, clean, serverVars>>

CreateMetaGroup(m) ==
    /\ CreateGroupIfMissing(m, "DeviceMetaGroup")
    /\ UNCHANGED running

\* create_message: encrypted for the member's own epoch, the ratchet advances.
CreateMessage(m, g) ==
    /\ Count
    /\ group[m][g] # NoGroup
    /\ gen' = [gen EXCEPT ![m][g][m] = @ + 1]
    /\ Send(m, [type |-> "GroupMessage", group |-> g, by |-> m, log |-> group[m][g],
                gen |-> gen[m][g][m], content |-> operations])
    /\ UNCHANGED <<group, running, clean, serverVars>>

SendReport == running /\ CreateMessage(Device, "DeviceGroup")

SendMetaInfo(m) == m # Device /\ CreateMessage(m, "DeviceMetaGroup")

\* add_member: the commit is merged at once, before the server has seen it.
AddMember(m, g, x) ==
    /\ Count
    /\ group[m][g] # NoGroup
    /\ x \notin GroupMembers(group[m][g])
    /\ LET log == Append(group[m][g], [by |-> m, new |-> {x}, nr |-> 0])
       IN /\ NewEpoch(m, g, log)
          /\ Send(m, MessageToServer("AddToGroup", g, m, log))
    /\ UNCHANGED <<running, clean, serverVars>>

-----------------------------------------------------------------------------
(* The server: MlsServer::process_message, then the message store.         *)

\* get_group of the PublicProcessor: the cache, else the storage.
ServerGroup(g) == IF cached[g] # NoGroup THEN cached[g] ELSE stored[g]

To(receivers, message) == [receivers |-> receivers, message |-> message]

MayEdit(m) == CertificateType[m] \in {"Root", "User", "UserSession"}
MayBeAdded(m) == CertificateType[m] \in {"User", "UserSession"}

\* check_commit for a commit that adds: who may edit, and what may be added.
CheckCommit(commit) ==
    /\ MayEdit(Last(commit.log).by)
    /\ \A x \in Last(commit.log).new : MayBeAdded(x)

\* process_message of either processor: a commit has to follow the group's epoch.
Follows(commit, log) == log # NoGroup /\ Front(commit.log) = log

MergeInMemory(g, log) == cached' = [cached EXCEPT ![g] = log] /\ UNCHANGED stored

\* commit of the PublicProcessor: OpenMLS merges in memory and in the storage.
Merge(g, log) ==
    /\ cached' = [cached EXCEPT ![g] = log]
    /\ stored' = [stored EXCEPT ![g] = log]

\* MlsMessageHandler::handle takes the next message of a member; what it
\* answers is stored message by message by Store.
Handle(m) ==
    /\ outbox[m] # << >> /\ handling[m] = << >>
    /\ outbox' = [outbox EXCEPT ![m] = Tail(@)]
    /\ UNCHANGED <<group, gen, running, owed, tried, read, operations, faults>>

Refused == UNCHANGED <<handling, stored, cached>> /\ clean' = FALSE

RespondToAll(m, messages) == handling' = [handling EXCEPT ![m] = messages]

RespondOnce(m, messages) ==
    handling' = [handling EXCEPT ![m] =
        [i \in DOMAIN messages \cap {1} |-> [messages[i] EXCEPT !.receivers = @ \ {m}]]]

\* remove_receiver: the sender never gets its own message back.
Respond(m, messages) ==
    handling' = [handling EXCEPT ![m] =
        [i \in DOMAIN messages |-> [messages[i] EXCEPT !.receivers = @ \ {m}]]]

\* add_group of the PublicProcessor writes the storage, whatever is there, and
\* leaves the cache alone.
AddGroup(g, log) == stored' = [stored EXCEPT ![g] = log] /\ UNCHANGED cached

\* add_device_group: the group has to have exactly the required members.
HandleNewGroup(m) ==
    LET message == Head(outbox[m])
        members == GroupMembers(message.log)
    IN /\ Handle(m)
       /\ message.type = "NewDeviceGroup"
       /\ IF members # RequiredMembers(message.group) THEN Refused
          ELSE /\ AddGroup(message.group, message.log)
               /\ Respond(m, IF members = {m} THEN << >> ELSE <<To(members, Welcome(message))>>)
               /\ UNCHANGED clean

\* A private message: passed on to whoever is a member by now.
HandleGroupMessage(m) ==
    LET message == Head(outbox[m])
        log == ServerGroup(message.group)
    IN /\ Handle(m)
       /\ message.type = "GroupMessage"
       /\ IF log = NoGroup THEN Refused
          ELSE /\ cached' = [cached EXCEPT ![message.group] = log]
               /\ Respond(m, <<To(GroupMembers(log), message)>>)
               /\ UNCHANGED <<stored, clean>>

\* handle_add_to_group: a commit that does not follow the server's epoch is an
\* error; one that fails the check is passed on without being merged; else the
\* old members get the commit and the new ones the welcome.
HandleAddToGroup(m) ==
    LET message == Head(outbox[m])
        log == ServerGroup(message.group)
    IN /\ Handle(m)
       /\ message.type = "AddToGroup"
       /\ \/ /\ ~Follows(message, log)
             /\ clean' = FALSE
             /\ cached' = [cached EXCEPT ![message.group] = log]
             /\ UNCHANGED <<handling, stored>>
          \/ /\ Follows(message, log) /\ ~CheckCommit(message)
             /\ clean' = FALSE
             /\ cached' = [cached EXCEPT ![message.group] = log]
             /\ Respond(m, <<To(GroupMembers(log), message)>>)
             /\ UNCHANGED stored
          \/ /\ Follows(message, log) /\ CheckCommit(message)
             /\ Merge(message.group, message.log)
             /\ Respond(m, <<To(GroupMembers(log), message),
                             To(Last(message.log).new, Welcome(message))>>)
             /\ UNCHANGED clean

\* add_message for one of the messages of the answer.
Store(m) ==
    /\ handling[m] # << >>
    /\ LET next == Head(handling[m])
       IN owed' = [x \in Members |-> IF x \in next.receivers
                                       THEN Append(owed[x], next.message) ELSE owed[x]]
    /\ handling' = [handling EXCEPT ![m] = Tail(@)]
    /\ UNCHANGED <<group, gen, running, outbox, stored, cached, tried, read,
                   operations, faults, clean>>

-----------------------------------------------------------------------------
(* A member receives: MlsClient::handle_message, MlsAgent::handle_message. *)

NextOwed(m) == owed[m][tried[m] + 1]

\* The next message that has not failed yet is handed to the member.
Receive(m) ==
    /\ tried[m] < Len(owed[m])
    /\ m = Device => running
    /\ UNCHANGED <<running, outbox, handling, stored, cached, operations, clean>>

AcknowledgeAndSkip(m) ==
    /\ owed' = [owed EXCEPT ![m] = RemoveAt(@, tried[m] + 1)]
    /\ tried' = [tried EXCEPT ![m] = @ + 1]
    /\ UNCHANGED faults

\* The member answers Ok and the store drops the message; or the connection
\* breaks before that and the message is delivered again.
Acknowledge(m) ==
    \/ /\ owed' = [owed EXCEPT ![m] = RemoveAt(@, tried[m] + 1)]
       /\ UNCHANGED <<tried, faults>>
    \/ /\ Fault
       /\ tried' = [tried EXCEPT ![m] = 0]
       /\ UNCHANGED owed

\* The member answers Err: the message stays, and the next one follows.
Fail(m) ==
    /\ tried' = [tried EXCEPT ![m] = @ + 1]
    /\ UNCHANGED <<group, gen, owed, read, faults>>

\* handle_welcome: the required members have to be in the group.  Joining
\* takes the welcome's state, whatever the member had; the key package's
\* private part is gone afterwards, so a welcome works once.
HandleWelcome(m) ==
    LET message == NextOwed(m)
    IN /\ m # Device /\ Receive(m) /\ message.type = "Welcome"
       /\ IF /\ RequiredMembers(message.group) \subseteq GroupMembers(message.log)
             /\ group[m][message.group] = NoGroup
            THEN /\ NewEpoch(m, message.group, message.log)
                 /\ Acknowledge(m)
                 /\ UNCHANGED read
            ELSE Fail(m)

\* handle_add_to_group of client and agent; the agent knows its own group only.
HandleCommit(m) ==
    LET message == NextOwed(m)
    IN /\ Receive(m) /\ message.type = "AddToGroup"
       /\ IF /\ Follows(message, group[m][message.group])
             /\ CheckCommit(message)
             /\ m = Device => message.group = "DeviceGroup"
            THEN /\ NewEpoch(m, message.group, message.log)
                 /\ Acknowledge(m)
                 /\ UNCHANGED read
            ELSE Fail(m)

ReadableOutOfOrder(m, message) == message.log = group[m][message.group]

\* OpenMLS decrypts a message of the member's own epoch, at its turn.
Readable(m, message) ==
    /\ message.log = group[m][message.group]
    /\ message.gen = gen[m][message.group][message.by]

\* The GroupMessage arm: a report is taken from the device itself only.
HandleContent(m) ==
    LET message == NextOwed(m)
    IN /\ m # Device /\ Receive(m) /\ message.type = "GroupMessage"
       /\ IF Readable(m, message)
            THEN /\ gen' = [gen EXCEPT ![m][message.group][message.by] = message.gen + 1]
                 /\ read' = [read EXCEPT ![m][message.group] =
                               Append(@, [by |-> message.by, content |-> message.content])]
                 /\ Acknowledge(m)
                 /\ UNCHANGED group
            ELSE Fail(m)

-----------------------------------------------------------------------------
(* Faults.                                                                 *)

\* A member's process or connection ends: what it had not sent yet is lost,
\* and what failed is tried again on the next connection.
Reconnect(m) ==
    /\ Fault
    /\ outbox' = [outbox EXCEPT ![m] = << >>]
    /\ clean' = (clean /\ outbox[m] = << >>)
    /\ tried' = [tried EXCEPT ![m] = 0]
    /\ running' = (running /\ m # Device)
    /\ UNCHANGED <<group, gen, handling, stored, cached, owed, read, operations>>

\* The server restarts: caches and answers that are not stored yet are gone.
RestartServer ==
    /\ Fault
    /\ cached' = [g \in Groups |-> NoGroup]
    /\ handling' = [m \in Members |-> << >>]
    /\ outbox' = [m \in Members |-> << >>]
    /\ tried' = [m \in Members |-> 0]
    /\ clean' = (clean /\ \A m \in Members : outbox[m] = << >> /\ handling[m] = << >>)
    /\ UNCHANGED <<group, gen, running, stored, owed, read, operations>>

-----------------------------------------------------------------------------
Next ==
    \/ EnsureGroupCreates \/ EnsureGroupFound \/ SendReport \/ RestartServer
    \/ \E m \in MetaCreators : CreateMetaGroup(m)
    \/ \E m \in Adders, g \in Groups, x \in Members : AddMember(m, g, x)
    \/ \E m \in Members :
          \/ SendMetaInfo(m) \/ HandleNewGroup(m) \/ HandleGroupMessage(m)
          \/ HandleAddToGroup(m) \/ Store(m) \/ HandleWelcome(m) \/ HandleCommit(m)
          \/ HandleContent(m) \/ Reconnect(m)

Spec == Init /\ [][Next]_vars

-----------------------------------------------------------------------------
(* Properties.                                                             *)

\* How far two logs agree.
CommonLength(a, b) ==
    Max({k \in 0 .. Len(a) : k <= Len(b) /\ SubSeq(a, 1, k) = SubSeq(b, 1, k)})

\* add_member merges a commit before the server has seen it, so a member can
\* be in an epoch the server never had; but only by its own commit: what others
\* send it is merged only after the server has, whatever is lost, refused or
\* restarted on the way.
ForkedOnlyByOwnCommit ==
    \A m \in Members, g \in Groups :
        LET mine == group[m][g]
            k == CommonLength(mine, ServerGroup(g))
        IN Len(mine) > k => mine[k + 1].by = m

\* When everything sent has arrived and was accepted, and no commit or welcome
\* is still owed, every member of the server's group is in the server's epoch.
QuietAgrees ==
    (/\ clean
     /\ \A m \in Members : /\ outbox[m] = << >> /\ handling[m] = << >>
                           /\ \A i \in DOMAIN owed[m] : owed[m][i].type = "GroupMessage")
    => \A g \in Groups : \A m \in GroupMembers(stored[g]) : group[m][g] = stored[g]

\* add_group overwrites a stored group and does not touch the cache: this is
\* sound because a group is created once.  The group the server works with is
\* the stored one, and it is the one its creator has.
CreatedOnce ==
    \A g \in Groups :
        /\ cached[g] # NoGroup => cached[g] = stored[g]
        /\ stored[g] # NoGroup =>
              LET first == stored[g][1] IN group[first.by][g][1] = first

\* MlsAgent::handle_message has a todo!() for welcomes and group messages: the
\* agent is never owed one, its own messages included.
AgentCanHandle == \A i \in DOMAIN owed[Device] : owed[Device][i].type = "AddToGroup"

\* However often a message is delivered, a member reads the messages of one
\* sender at most once and in the order they were sent.
ReadInOrder ==
    \A m \in Members, g \in Groups : \A i, j \in DOMAIN read[m][g] :
        (i < j /\ read[m][g][i].by = read[m][g][j].by)
        => read[m][g][i].content < read[m][g][j].content

\* The members' groups stay with the server's: no fork but by an own commit, one
\* epoch at rest, one creation, nothing an agent cannot handle, nothing out of order.
GroupsAgree ==
    ForkedOnlyByOwnCommit /\ QuietAgrees /\ CreatedOnce /\ AgentCanHandle /\ ReadInOrder
================================================================================

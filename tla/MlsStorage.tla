------------------------------ MODULE MlsStorage -------------------------------
(***************************************************************************)
(* The storage OpenMLS works on (SvalinStorage in                          *)
(* svalin_pki/src/mls/provider.rs): an SQLite database                     *)
(* (sqlx_storage/src/storage_provider.rs) for agents, sessions and the     *)
(* server, OpenMLS's own MemoryStorage for the state of a user.  Here both *)
(* are given the same calls, to see whether they answer alike.             *)
(*                                                                         *)
(* A row is a table, its primary key and a value; a statement is atomic    *)
(* (block_async_in_place waits for it), a call of OpenMLS may make many.   *)
(* MemoryStorage is external: a map in which a write replaces, and leaf    *)
(* nodes and references of proposals are lists that grow.  Left out: the   *)
(* codec, the migrations.                                                  *)
(***************************************************************************)
EXTENDS Integers, Sequences, SequencesExt

CONSTANTS
    GroupIds,       \* groups
    DataTypes,      \* kinds of group data in use, by their GroupDataType
    KeyTables,      \* tables with one value per key that are in use
    Keys,           \* keys of those tables
    ProposalRefs,
    Values,
    MaxCalls        \* bound: calls of the provider

\* GroupDataType::to_str, the column data_type.
ToStr == [JoinGroupConfig |-> "join_group_config",
          Tree |-> "tree",
          InterimTranscriptHash |-> "interim_transcript_hash",
          Context |-> "context",
          ConfirmationTag |-> "confirmation_tag",
          GroupState |-> "group_state",
          MessageSecrets |-> "message_secrets",
          ResumptionPskStore |-> "resumption_psk_store",
          OwnLeafIndex |-> "own_leaf_index",
          UseRatchetTreeExtension |-> "use_ratchet_tree_extension",
          GroupEpochSecrets |-> "group_epoch_secrets",
          ApplicationExportTree |-> "application_export_tree"]

AllKeyTables == {"openmls_signature_key", "openmls_encryption_key",
                 "openmls_epoch_key_pairs", "openmls_key_package", "openmls_psk"}

VARIABLES
    rows,       \* the database: a set of rows [table, key, value]
    memory,     \* the MemoryStorage: a map
    repeated,   \* history: items SQLite refused because the row exists
    calls

vars == <<rows, memory, repeated, calls>>

\* No two rows of a table have one primary key.
TypeOK ==
    /\ calls \in 0 .. MaxCalls
    /\ \A r \in rows : r.value \in Values
    /\ \A r, s \in rows : r.table = s.table /\ r.key = s.key => r = s

Init == rows = {} /\ memory = << >> /\ repeated = {} /\ calls = 0

-----------------------------------------------------------------------------
(* SQL.                                                                    *)

Row(table, key, value) == [table |-> table, key |-> key, value |-> value]
Select(table, key) == {r \in rows : r.table = table /\ r.key = key}
SelectGroup(table, g) == {r \in rows : r.table = table /\ r.key[1] = g}

InsertAnyway(table, key, value) ==
    rows' = rows \cup {Row(table, key, value)} /\ UNCHANGED repeated

InsertOrReplace(table, key, value) ==
    /\ rows' = (rows \ Select(table, key)) \cup {Row(table, key, value)}
    /\ UNCHANGED repeated

\* A plain INSERT violates the primary key if the key has a row.
Insert(table, key, value, item) ==
    IF Select(table, key) = {}
      THEN rows' = rows \cup {Row(table, key, value)} /\ UNCHANGED repeated
      ELSE repeated' = repeated \cup {item} /\ UNCHANGED rows

DeleteRows(doomed, item) == rows' = rows \ doomed /\ repeated' = repeated \ {item}

-----------------------------------------------------------------------------
(* SqliteStorageProvider.                                                  *)

SqliteWriteGroupData(g, t, v) == InsertOrReplace("openmls_group_data", <<g, ToStr[t]>>, v)

\* append_own_leaf_node: the table has one row per group.
SqliteAppendOwnLeafNode(g, v) ==
    Insert("openmls_own_leaf_node", <<g>>, v, <<"leaf_nodes", g>>)

SqliteQueueProposal(g, r, v) == Insert("openmls_proposal", <<g, r>>, v, <<"proposals", g>>)

\* Signature, encryption and epoch keys, key packages and pre-shared keys.
SqliteWriteKey(table, k, v) == Insert(table, <<k>>, v, <<table, k>>)

SqliteDeleteAllGroupData(g, t) ==
    DeleteRows(SelectGroup("openmls_group_data", g), <<"group_data", g, t>>)

SqliteDeleteGroupData(g, t) ==
    DeleteRows(Select("openmls_group_data", <<g, ToStr[t]>>), <<"group_data", g, t>>)

SqliteDeleteOwnLeafNodes(g) ==
    DeleteRows(Select("openmls_own_leaf_node", <<g>>), <<"leaf_nodes", g>>)

\* What was queued twice in memory may not be gone there yet.
SqliteRemoveProposal(g, r) == DeleteRows(Select("openmls_proposal", <<g, r>>), <<>>)

SqliteClearProposalQueue(g) ==
    DeleteRows(SelectGroup("openmls_proposal", g), <<"proposals", g>>)

SqliteDeleteKey(table, k) == DeleteRows(Select(table, <<k>>), <<table, k>>)

SqliteGroupData(g, t) == {r.value : r \in Select("openmls_group_data", <<g, ToStr[t]>>)}
SqliteOwnLeafNodes(g) == {r.value : r \in Select("openmls_own_leaf_node", <<g>>)}
SqliteQueuedProposals(g) ==
    {<<r.key[2], r.value>> : r \in SelectGroup("openmls_proposal", g)}
SqliteKey(table, k) == {r.value : r \in Select(table, <<k>>)}

-----------------------------------------------------------------------------
(* MemoryStorage.                                                          *)

Get(key) == {memory[k] : k \in {key} \cap DOMAIN memory}
GetList(key) == IF key \in DOMAIN memory THEN memory[key] ELSE << >>
With(map, key, value) ==
    [k \in DOMAIN map \cup {key} |-> IF k = key THEN value ELSE map[k]]
Put(key, value) == memory' = With(memory, key, value)
Erase(keys) == memory' = Restrict(memory, DOMAIN memory \ keys)

MemoryQueueProposal(g, r, v) ==
    memory' = With(With(memory, <<"proposals", g>>, Append(GetList(<<"proposals", g>>), r)),
                   <<"proposal", g, r>>, v)

\* Takes one reference out of the list.
MemoryRemoveProposal(g, r) ==
    memory' = With(Restrict(memory, DOMAIN memory \ {<<"proposal", g, r>>}),
                   <<"proposals", g>>, RemoveFirst(GetList(<<"proposals", g>>), r))

MemoryQueuedProposals(g) ==
    {<<r, memory[<<"proposal", g, r>>]>> : r \in ToSet(GetList(<<"proposals", g>>))}

-----------------------------------------------------------------------------
(* SvalinStorage: every call goes to the storage behind it, here to both.  *)

Call == calls < MaxCalls /\ calls' = calls + 1

WriteGroupData(g, t, v) ==
    /\ Call
    /\ SqliteWriteGroupData(g, t, v) /\ Put(<<"group_data", g, t>>, v)

WriteToGroup(g, v) ==
    /\ Call
    /\ \/ /\ SqliteAppendOwnLeafNode(g, v)
          /\ Put(<<"leaf_nodes", g>>, Append(GetList(<<"leaf_nodes", g>>), v))
       \/ \E r \in ProposalRefs : SqliteQueueProposal(g, r, v) /\ MemoryQueueProposal(g, r, v)

WriteKey(table, k, v) ==
    /\ Call
    /\ SqliteWriteKey(table, k, v) /\ Put(<<table, k>>, v)

DeleteGroupData(g, t) ==
    /\ Call
    /\ SqliteDeleteGroupData(g, t) /\ Erase({<<"group_data", g, t>>})

DeleteFromGroup(g) ==
    /\ Call
    /\ \/ SqliteDeleteOwnLeafNodes(g) /\ Erase({<<"leaf_nodes", g>>})
       \/ \E r \in ProposalRefs : SqliteRemoveProposal(g, r) /\ MemoryRemoveProposal(g, r)
       \/ /\ SqliteClearProposalQueue(g)
          /\ Erase({<<"proposals", g>>} \cup {<<"proposal", g, r>> : r \in ProposalRefs})

DeleteKey(table, k) ==
    /\ Call
    /\ SqliteDeleteKey(table, k) /\ Erase({<<table, k>>})

\* What the reads answer; SQLite does not order the proposals.
ReadGroupData(storage, g, t) ==
    CASE storage = "Sqlite" -> SqliteGroupData(g, t)
      [] storage = "Memory" -> Get(<<"group_data", g, t>>)

OwnLeafNodes(storage, g) ==
    CASE storage = "Sqlite" -> SqliteOwnLeafNodes(g)
      [] storage = "Memory" -> ToSet(GetList(<<"leaf_nodes", g>>))

QueuedProposals(storage, g) ==
    CASE storage = "Sqlite" -> SqliteQueuedProposals(g)
      [] storage = "Memory" -> MemoryQueuedProposals(g)

ReadKey(storage, table, k) ==
    CASE storage = "Sqlite" -> SqliteKey(table, k)
      [] storage = "Memory" -> Get(<<table, k>>)

-----------------------------------------------------------------------------
Next ==
    \/ \E g \in GroupIds :
          \/ \E t \in DataTypes : DeleteGroupData(g, t) \/ \E v \in Values : WriteGroupData(g, t, v)
          \/ DeleteFromGroup(g) \/ \E v \in Values : WriteToGroup(g, v)
    \/ \E table \in KeyTables, k \in Keys :
          DeleteKey(table, k) \/ \E v \in Values : WriteKey(table, k, v)

Spec == Init /\ [][Next]_vars

-----------------------------------------------------------------------------
\* After any sequence of calls the two storages give the same answer to every
\* read, except for an item that was written again while it existed: SQLite
\* refuses that where MemoryStorage replaces or appends.
BackendsAgree ==
    /\ \A g \in GroupIds :
          /\ \A t \in DataTypes : ReadGroupData("Sqlite", g, t) = ReadGroupData("Memory", g, t)
          /\ \/ <<"leaf_nodes", g>> \in repeated
             \/ OwnLeafNodes("Sqlite", g) = OwnLeafNodes("Memory", g)
          /\ \/ <<"proposals", g>> \in repeated
             \/ QueuedProposals("Sqlite", g) = QueuedProposals("Memory", g)
    /\ \A table \in KeyTables, k \in Keys :
          <<table, k>> \in repeated \/ ReadKey("Sqlite", table, k) = ReadKey("Memory", table, k)
================================================================================

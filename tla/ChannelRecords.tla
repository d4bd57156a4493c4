--------------------------- MODULE ChannelRecords ---------------------------
(***************************************************************************)
(* The channels and their API keys as the console edits them: key lists    *)
(* saved whole, the older single-key write, archiving, import over         *)
(* existing channels, and channels an older build adds. Every write is one *)
(* transaction; a handler that looks first looks outside it.               *)
(*   db/upstream_keys.go, db/upstream.go, handlers/upstreams.go            *)
(***************************************************************************)
EXTENDS Integers, FiniteSets, Sequences, FiniteSetsExt

CONSTANTS
    Channels,       \* names
    KeyValues,      \* "" is none
    KeyEdits,       \* what a write may say of the keys: a list of [id, value, enabled]
                    \* (id 0 is new), the older single value, all cleared, or nothing
    Switches,       \* and of the rest: <<archived: "", "yes" or "no", enabled>>
    MaxChannelId, MaxKeyId      \* bounds

\* UpstreamKeyIn, and what a write may say of the keys.
ListedKeys == [id : Int, value : KeyValues, enabled : BOOLEAN]
KeyWrites ==
    [kind : {"keep", "clear"}] \cup [kind : {"legacy"}, value : KeyValues] \cup
    [kind : {"list"}, list : Seq(ListedKeys)]

ASSUME RecordsAssumption ==
    /\ KeyEdits \subseteq KeyWrites /\ "" \in KeyValues
    /\ Switches \subseteq {"", "yes", "no"} \X BOOLEAN
    /\ MaxChannelId \in Nat /\ MaxKeyId \in Nat

VARIABLES
    channels,       \* id -> [name, mirror, enabled, archived, before]
    keys,           \* id -> [channel, value, enabled]
    lastIds,        \* sqlite_sequence: ids are never reused
    handler         \* one that looked and has not yet written

recordVars == <<channels, keys, lastIds, handler>>

KeysOf(c) == {k \in DOMAIN keys : keys[k].channel = c}
Named(n) == {c \in DOMAIN channels : channels[c].name = n}
NoHandler == [op |-> "none"]

RecordsInit ==
    /\ channels = <<>> /\ keys = <<>>
    /\ lastIds = [channel |-> 0, key |-> 0]
    /\ handler = NoHandler
-----------------------------------------------------------------------------
\* A listed id is refused unless it is the channel's, and listed once.
Foreign(c, listed) == \E i \in DOMAIN listed : listed[i].id # 0 /\ listed[i].id \notin KeysOf(c)
Repeated(listed) ==
    \E i, j \in DOMAIN listed : i < j /\ listed[i].id = listed[j].id /\ listed[i].id # 0

\* Mutant: another channel's ids pass.
RefusedLists(c, listed) == Repeated(listed)
Refused(c, listed) == Foreign(c, listed) \/ Repeated(listed)

\* keyValue: the value given, else the stored one.
KeyValue(l) == IF l.value # "" THEN l.value ELSE keys[l.id].value

\* A new key is added unless it is blank or repeats one kept.
Added(listed) ==
    LET kept == {KeyValue(listed[i]) : i \in {j \in DOMAIN listed : listed[j].id \in DOMAIN keys}}
    IN  {i \in DOMAIN listed : /\ listed[i].id = 0 /\ listed[i].value \notin kept \cup {""}
                               /\ \A j \in 1..(i - 1) : listed[j].id = 0 => listed[j].value # listed[i].value}
AddedId(listed, i) == lastIds.key + Cardinality({j \in Added(listed) : j <= i})

\* replaceUpstreamKeys: the list becomes the channel's whole key list.
Replaced(c, listed) ==
    LET given == [k \in {listed[i].id : i \in DOMAIN listed} \cap DOMAIN keys |->
                    CHOOSE l \in {listed[i] : i \in DOMAIN listed} : l.id = k]
        added == [k \in {AddedId(listed, i) : i \in Added(listed)} |->
                    listed[CHOOSE i \in Added(listed) : AddedId(listed, i) = k]]
    IN  [k \in (DOMAIN keys \ (KeysOf(c) \ DOMAIN given)) \cup DOMAIN added |->
            IF k \in DOMAIN added THEN [channel |-> c, value |-> added[k].value, enabled |-> added[k].enabled]
            ELSE IF k \in DOMAIN given
            THEN [keys[k] EXCEPT !.value = KeyValue(given[k]), !.enabled = given[k].enabled]
            ELSE keys[k]]

\* setLegacyKey: the first key's value, or a first key; blank changes nothing.
LegacySet(c, value) ==
    IF value = "" THEN keys
    ELSE IF KeysOf(c) = {} THEN Replaced(c, <<[id |-> 0, value |-> value, enabled |-> TRUE]>>)
    ELSE [keys EXCEPT ![Min(KeysOf(c))].value = value]

\* syncKeyMirror: the first enabled key, or none.
MirrorOf(ks, c) ==
    LET enabled == {k \in DOMAIN ks : ks[k].channel = c /\ ks[k].enabled}
    IN  IF enabled = {} THEN "" ELSE ks[Min(enabled)].value

EditRefused(c, edit) == edit.kind = "list" /\ Refused(c, edit.list)
Edited(c, edit) == CASE edit.kind = "list" -> Replaced(c, edit.list)
                     [] edit.kind = "clear" -> Replaced(c, <<>>)
                     [] edit.kind = "legacy" -> LegacySet(c, edit.value)
                     [] edit.kind = "keep" -> keys

\* setArchived, each a no-op on a channel already so.
Archive(r) == IF r.archived THEN r ELSE [r EXCEPT !.archived = TRUE, !.enabled = FALSE, !.before = r.enabled]
Unarchive(r) == IF r.archived THEN [r EXCEPT !.archived = FALSE, !.enabled = r.before, !.before = FALSE] ELSE r

LastKeyId(ks) == Max({lastIds.key} \cup DOMAIN ks)
-----------------------------------------------------------------------------
\* UpdateUpstream, within its transaction: unarchived first, archived last.
Write(c, edit, archived, enabled) ==
    LET old == channels[c]
        shown == IF archived = "no" THEN Unarchive(old) ELSE old
        saved == [shown EXCEPT !.enabled = ~shown.archived /\ enabled,
                               !.mirror = IF edit.kind = "keep" THEN @ ELSE MirrorOf(Edited(c, edit), c)]
    IN  /\ c \in DOMAIN channels /\ ~EditRefused(c, edit)
        /\ LastKeyId(Edited(c, edit)) <= MaxKeyId
        /\ keys' = Edited(c, edit)
        /\ channels' = [channels EXCEPT ![c] = IF archived = "yes" THEN Archive(saved) ELSE saved]
        /\ lastIds' = [lastIds EXCEPT !.key = LastKeyId(keys')]

\* CreateUpstream: the name must be free, and every listed id is foreign.
Insert(n, edit, archived, enabled) ==
    LET c == lastIds.channel + 1
        new == [name |-> n, mirror |-> MirrorOf(Edited(c, edit), c),
                enabled |-> enabled, archived |-> FALSE, before |-> FALSE]
    IN  /\ Named(n) = {} /\ c <= MaxChannelId /\ ~EditRefused(c, edit)
        /\ LastKeyId(Edited(c, edit)) <= MaxKeyId
        /\ keys' = Edited(c, edit)
        /\ channels' = [d \in DOMAIN channels \cup {c} |->
              IF d \in DOMAIN channels THEN channels[d] ELSE IF archived = "yes" THEN Archive(new) ELSE new]
        /\ lastIds' = [channel |-> c, key |-> LastKeyId(keys')]

Up == handler.op # "down"

UpdateUpstream(c, edit, archived, enabled) ==
    Up /\ Write(c, edit, archived, enabled) /\ UNCHANGED handler

CreateUpstream(n, edit, archived, enabled) ==
    Up /\ edit.kind # "clear" /\ Insert(n, edit, archived, enabled) /\ UNCHANGED handler

SetUpstreamArchived(c, archived) ==
    /\ Up /\ c \in DOMAIN channels
    /\ channels' = [channels EXCEPT ![c] = IF archived THEN Archive(@) ELSE Unarchive(@)]
    /\ UNCHANGED <<keys, lastIds, handler>>

\* The keys go with their channel.
DeleteUpstream(c) ==
    /\ Up /\ c \in DOMAIN channels
    /\ channels' = [d \in DOMAIN channels \ {c} |-> channels[d]]
    /\ keys' = [k \in DOMAIN keys \ KeysOf(c) |-> keys[k]]
    /\ UNCHANGED <<lastIds, handler>>

\* AdminSetUpstreamEnabled looks whether the channel is archived...
LookToSwitch(c, enabled) ==
    /\ handler.op = "none" /\ c \in DOMAIN channels /\ ~channels[c].archived
    /\ handler' = [op |-> "switch", channel |-> c, enabled |-> enabled]
    /\ UNCHANGED <<channels, keys, lastIds>>

\* ... and writes whatever it has become since.
SetUpstreamEnabled ==
    /\ handler.op = "switch" /\ handler' = NoHandler
    /\ channels' = [c \in DOMAIN channels |->
          IF c = handler.channel THEN [channels[c] EXCEPT !.enabled = handler.enabled] ELSE channels[c]]
    /\ UNCHANGED <<keys, lastIds>>

\* AdminExportUpstreams, with keys: an item of the document.
Document(c) ==
    LET nth(i) == CHOOSE k \in KeysOf(c) : Cardinality({j \in KeysOf(c) : j <= k}) = i
        r == channels[c]
    IN  [edit |-> IF KeysOf(c) = {} THEN [kind |-> "keep"]
                  ELSE [kind |-> "list", list |-> [i \in 1..Cardinality(KeysOf(c)) |->
                          [id |-> 0, value |-> keys[nth(i)].value, enabled |-> keys[nth(i)].enabled]]],
         archived |-> IF r.archived THEN "yes" ELSE "no",
         enabled |-> IF r.archived THEN r.before ELSE r.enabled]

\* AdminImportUpstreams looks the name up; in skip mode an existing one stays.
LookToImport(n, item, mode) ==
    /\ handler.op = "none" /\ (mode = "overwrite" \/ Named(n) = {})
    /\ handler' = [op |-> "import", name |-> n, found |-> Named(n), item |-> item]
    /\ UNCHANGED <<channels, keys, lastIds>>

\* Only its write is a transaction: the channel may have gone or come since, and the item fails.
ImportItem ==
    /\ handler.op = "import" /\ handler' = NoHandler
    /\ LET item == handler.item
       IN  \/ \E c \in handler.found : Write(c, item.edit, item.archived, item.enabled)
           \/ handler.found = {} /\ Insert(handler.name, item.edit, item.archived, item.enabled)
           \/ UNCHANGED <<channels, keys, lastIds>>

\* The process stops; an older build, without a key table, adds a channel.
StopForRollback == Up /\ handler' = [op |-> "down"] /\ UNCHANGED <<channels, keys, lastIds>>

OlderBuildAdds(n, value) ==
    /\ handler.op = "down" /\ Named(n) = {} /\ lastIds.channel < MaxChannelId
    /\ channels' = [d \in DOMAIN channels \cup {lastIds.channel + 1} |->
          IF d \in DOMAIN channels THEN channels[d]
          ELSE [name |-> n, mirror |-> value, enabled |-> TRUE, archived |-> FALSE, before |-> FALSE]]
    /\ lastIds' = [lastIds EXCEPT !.channel = @ + 1]
    /\ UNCHANGED <<keys, handler>>

\* migrateUpstreamKeys, at every start.
MigrateUpstreamKeys ==
    LET bare == {c \in DOMAIN channels : channels[c].mirror # "" /\ KeysOf(c) = {}}
        id(c) == lastIds.key + Cardinality({d \in bare : d <= c})
    IN  /\ handler.op = "down" /\ lastIds.key + Cardinality(bare) <= MaxKeyId
        /\ keys' = [k \in DOMAIN keys \cup {id(c) : c \in bare} |->
              IF k \in DOMAIN keys THEN keys[k]
              ELSE LET c == CHOOSE d \in bare : id(d) = k
                   IN  [channel |-> c, value |-> channels[c].mirror, enabled |-> TRUE]]
        /\ lastIds' = [lastIds EXCEPT !.key = @ + Cardinality(bare)]
        /\ handler' = NoHandler /\ UNCHANGED channels

Items == {Document(c) : c \in DOMAIN channels}

RecordsNext ==
    \/ \E edit \in KeyEdits, s \in Switches :
         \/ \E c \in DOMAIN channels : UpdateUpstream(c, edit, s[1], s[2])
         \/ \E n \in Channels : CreateUpstream(n, edit, s[1], s[2])
    \/ \E c \in DOMAIN channels : \/ DeleteUpstream(c)
                                  \/ \E on \in BOOLEAN : SetUpstreamArchived(c, on) \/ LookToSwitch(c, on)
    \/ \E n \in Channels, item \in Items, mode \in {"skip", "overwrite"} : LookToImport(n, item, mode)
    \/ SetUpstreamEnabled \/ ImportItem
    \/ StopForRollback \/ MigrateUpstreamKeys
    \/ \E n \in Channels, e \in KeyEdits : e.kind = "legacy" /\ OlderBuildAdds(n, e.value)

RecordsSpec == RecordsInit /\ [][RecordsNext]_recordVars
-----------------------------------------------------------------------------
(* Names are unique, ids grow, and every key is a live channel's.          *)
RecordsTypeOK ==
    /\ \A c \in DOMAIN channels : c <= lastIds.channel /\ Named(channels[c].name) = {c}
    /\ \A k \in DOMAIN keys : k <= lastIds.key /\ keys[k].channel \in DOMAIN channels /\ keys[k].value # ""
    /\ handler.op \in {"none", "switch", "import", "down"}

(* The copy of a channel's first enabled key kept on its row, which an     *)
(* older build after a rollback signs in with, follows every edit of the   *)
(* keys, its own channel's and no other's: no list, stale or mixed up, may *)
(* reach a key of another channel (db/upstream_keys.go:144-216, 274-283).  *)
MirrorIsFirstKey == Up => \A c \in DOMAIN channels : channels[c].mirror = MirrorOf(keys, c)
=============================================================================

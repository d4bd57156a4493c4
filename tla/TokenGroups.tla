---------------------------- MODULE TokenGroups -----------------------------
(***************************************************************************)
(* Groups, the channels that serve them and the tokens that reach them.    *)
(* No foreign key ties a token to its group, and a channel in no group is  *)
(* reached by nobody: the writes have to see to both. A token is found by  *)
(* its digest and shown from its plaintext.                                *)
(*   db/group.go, db/token.go, handlers/upstreams.go                       *)
(***************************************************************************)
EXTENDS Integers, FiniteSets, FiniteSetsExt

CONSTANTS
    Members,            \* channels
    TokenIds,
    TokenValues,
    GroupNames,         \* besides the default one
    MaxGroup            \* bound on group ids

DefaultGroup == 1
ASSUME TokenGroupsAssumption ==
    MaxGroup \in Nat \ {0} /\ "" \notin TokenValues /\ IsFiniteSet(GroupNames)

VARIABLES
    groups,         \* id -> name
    lastGroup,      \* ids are never reused
    membership,     \* channel -> the groups it serves, for the channels there are
    tokens,         \* id -> [token, hash, plain, group]
    importing,      \* an import that looked and has not written
    started         \* the process is up

groupVars == <<groups, lastGroup, membership, tokens, importing, started>>

Digest(value) == [of |-> value, digest |-> TRUE]
Plaintext(value) == [of |-> value, digest |-> FALSE]
None == Plaintext("")
NoImport == [channel |-> "", found |-> FALSE, ids |-> {}]

GroupsInit ==
    /\ groups = [g \in {DefaultGroup} |-> "default"] /\ lastGroup = DefaultGroup
    /\ membership = <<>> /\ tokens = <<>>
    /\ importing = NoImport /\ started = TRUE
-----------------------------------------------------------------------------
\* CreateGroup, and EnsureGroups for a name no group has.
CreateGroup(name) ==
    /\ started /\ \A g \in DOMAIN groups : groups[g] # name
    /\ lastGroup < MaxGroup /\ lastGroup' = lastGroup + 1
    /\ groups' = [g \in DOMAIN groups \cup {lastGroup'} |-> IF g = lastGroup' THEN name ELSE groups[g]]
    /\ UNCHANGED <<membership, tokens, importing, started>>

UpdateGroup(g, name) ==
    /\ started /\ g \in DOMAIN groups \ {DefaultGroup} /\ \A h \in DOMAIN groups \ {g} : groups[h] # name
    /\ groups' = [groups EXCEPT ![g] = name]
    /\ UNCHANGED <<lastGroup, membership, tokens, importing, started>>

\* Mutant: the cascade alone clears the memberships.
MovedOut(served, g) == served \ {g}

\* A channel's last home gives way to the default group.
MovedOff(served, g) == IF served = {g} THEN {DefaultGroup} ELSE served \ {g}

DeleteGroup(g) ==
    /\ started /\ g \in DOMAIN groups \ {DefaultGroup}
    /\ groups' = [h \in DOMAIN groups \ {g} |-> groups[h]]
    /\ membership' = [c \in DOMAIN membership |-> MovedOff(membership[c], g)]
    /\ tokens' = [t \in DOMAIN tokens |->
          IF tokens[t].group = g THEN [tokens[t] EXCEPT !.group = DefaultGroup] ELSE tokens[t]]
    /\ UNCHANGED <<lastGroup, importing, started>>

\* ReplaceUpstreamGroups, within the write of a channel: none selected is the
\* default one, one that is not there refuses the write.
Selected(ids) == IF ids = {} THEN {DefaultGroup} ELSE ids
ReplaceUpstreamGroups(c, ids) ==
    /\ Selected(ids) \subseteq DOMAIN groups
    /\ membership' = [d \in DOMAIN membership \cup {c} |-> IF d = c THEN Selected(ids) ELSE membership[d]]

SaveChannel(c, ids) ==
    /\ started /\ ReplaceUpstreamGroups(c, ids)
    /\ UNCHANGED <<groups, lastGroup, tokens, importing, started>>

DeleteChannel(c) ==
    /\ started /\ c \in DOMAIN membership
    /\ membership' = [d \in DOMAIN membership \ {c} |-> membership[d]]
    /\ UNCHANGED <<groups, lastGroup, tokens, importing, started>>

\* An import names its groups, creating those missing, or none: then an
\* existing channel's are read, to be written back.
LookUpGroups(c, names) ==
    LET missing == names \ {groups[g] : g \in DOMAIN groups}
        made == [g \in DOMAIN groups \cup (lastGroup + 1)..(lastGroup + Cardinality(missing)) |->
                   IF g \in DOMAIN groups THEN groups[g]
                   ELSE CHOOSE n \in missing : g = lastGroup + 1]
    IN  /\ started /\ importing = NoImport /\ Cardinality(missing) <= 1
        /\ lastGroup + Cardinality(missing) <= MaxGroup
        /\ groups' = made /\ lastGroup' = lastGroup + Cardinality(missing)
        /\ importing' = [channel |-> c, found |-> c \in DOMAIN membership,
                         ids |-> IF names # {} THEN {g \in DOMAIN made : made[g] \in names}
                                 ELSE IF c \in DOMAIN membership THEN membership[c] ELSE {}]
        /\ UNCHANGED <<membership, tokens, started>>

\* The write checks them again: an item whose group or channel is gone since,
\* or whose channel has come, fails.
ImportChannel ==
    /\ importing # NoImport /\ importing' = NoImport
    /\ \/ /\ importing.found = (importing.channel \in DOMAIN membership)
          /\ ReplaceUpstreamGroups(importing.channel, importing.ids)
       \/ UNCHANGED membership
    /\ UNCHANGED <<groups, lastGroup, tokens, started>>
-----------------------------------------------------------------------------
\* resolveTokenGroup, in the transaction that writes the reference; 0 is not said.
Resolved(g) == IF g > 0 THEN g ELSE DefaultGroup
Taken(t, value) == \E u \in DOMAIN tokens \ {t} : tokens[u].hash = Digest(value)
Row(value, g) == [token |-> Digest(value), hash |-> Digest(value), plain |-> value, group |-> Resolved(g)]

CreateToken(t, value, g) ==
    /\ started /\ t \notin DOMAIN tokens
    /\ Resolved(g) \in DOMAIN groups /\ ~Taken(t, value)
    /\ tokens' = [u \in DOMAIN tokens \cup {t} |-> IF u = t THEN Row(value, g) ELSE tokens[u]]
    /\ UNCHANGED <<groups, lastGroup, membership, importing, started>>

\* UpdateToken: the value it shows, or none, is no new credential; a new one
\* must be free, and takes all four columns.
UpdateToken(t, requested, g) ==
    /\ started /\ t \in DOMAIN tokens /\ Resolved(g) \in DOMAIN groups
    /\ IF requested \in {"", tokens[t].plain}
       THEN tokens' = [tokens EXCEPT ![t].group = Resolved(g)]
       ELSE ~Taken(t, requested) /\ tokens' = [tokens EXCEPT ![t] = Row(requested, g)]
    /\ UNCHANGED <<groups, lastGroup, membership, importing, started>>

DeleteToken(t) ==
    /\ started /\ t \in DOMAIN tokens
    /\ tokens' = [u \in DOMAIN tokens \ {t} |-> tokens[u]]
    /\ UNCHANGED <<groups, lastGroup, membership, importing, started>>

\* The process stops, and a row comes from a build without digests or groups,
\* of a value no row has: one kept as a digest would keep the next start out.
StopTokens ==
    /\ started /\ started' = FALSE /\ importing' = NoImport
    /\ UNCHANGED <<groups, lastGroup, membership, tokens>>

LegacyToken(t, value) ==
    /\ ~started /\ t \notin DOMAIN tokens /\ \A u \in DOMAIN tokens : tokens[u].token.of # value
    /\ tokens' = [u \in DOMAIN tokens \cup {t} |->
          IF u = t THEN [token |-> Plaintext(value), hash |-> None, plain |-> "", group |-> 0] ELSE tokens[u]]
    /\ UNCHANGED <<groups, lastGroup, membership, importing, started>>

\* MigrateLegacyTokenStorage, then the tokens without a group: a row without a
\* digest holds its plaintext, any other its digest already.
MigrateTokens ==
    /\ ~started /\ started' = TRUE
    /\ tokens' = [t \in DOMAIN tokens |->
          LET hash == IF tokens[t].hash = None THEN Digest(tokens[t].token.of) ELSE tokens[t].hash
          IN  [tokens[t] EXCEPT !.token = hash, !.hash = hash, !.group = Resolved(@)]]
    /\ UNCHANGED <<groups, lastGroup, membership, importing>>

GroupsNext ==
    \/ \E n \in GroupNames : CreateGroup(n) \/ \E g \in DOMAIN groups : UpdateGroup(g, n)
    \/ \E g \in DOMAIN groups : DeleteGroup(g)
    \/ \E c \in Members : \/ DeleteChannel(c)
                          \/ \E ids \in SUBSET (1..MaxGroup) : SaveChannel(c, ids)
                          \/ \E names \in SUBSET GroupNames : LookUpGroups(c, names)
    \/ ImportChannel
    \/ \E t \in TokenIds : \/ DeleteToken(t)
                           \/ \E v \in TokenValues \cup {""}, g \in 0..MaxGroup : UpdateToken(t, v, g)
                           \/ \E v \in TokenValues, g \in 0..MaxGroup : CreateToken(t, v, g)
                           \/ \E v \in TokenValues : LegacyToken(t, v)
    \/ StopTokens \/ MigrateTokens

GroupsSpec == GroupsInit /\ [][GroupsNext]_groupVars
-----------------------------------------------------------------------------
(* Groups have names of their own, the default one is always there.        *)
GroupsTypeOK ==
    /\ DOMAIN groups \subseteq 1..lastGroup /\ groups[DefaultGroup] = "default"
    /\ Cardinality({groups[g] : g \in DOMAIN groups}) = Cardinality(DOMAIN groups)
    /\ importing.ids \subseteq 1..lastGroup

(* Whatever is edited, deleted, imported or migrated, and between any two  *)
(* steps of those: a channel serves at least one group and only groups     *)
(* that exist, a token names one that exists, no two tokens answer to one  *)
(* value, what the console shows of a token is the value it answers to,    *)
(* and no column keeps a value readable that is kept as a digest           *)
(* (db/group.go:160-168, db/token.go:189-199, 487-491, 575-583).           *)
NothingDangling ==
    /\ \A c \in DOMAIN membership : membership[c] # {} /\ membership[c] \subseteq DOMAIN groups
    /\ started =>
         \A t \in DOMAIN tokens :
           LET row == tokens[t]
           IN  /\ row.group \in DOMAIN groups
               /\ row.token = row.hash /\ (row.plain # "" => row.hash = Digest(row.plain))
               /\ \A u \in DOMAIN tokens \ {t} : tokens[u].hash # row.hash
=============================================================================

------------------------------ MODULE Secrets -------------------------------
(***************************************************************************)
(* Credentials sealed at rest: where the key comes from at a start, how    *)
(* what is stored is brought under it, and the backups a restore may bring *)
(* back, across crashes and power cuts at any point.                       *)
(*   app/secrets.go, secret/keyfile.go, db/secret.go, app/backup.go        *)
(***************************************************************************)
EXTENDS Integers, Sequences

CONSTANTS
    Cells,              \* the columns and rows holding a credential
    EnvKeys,            \* values ENCRYPTION_KEY may take
    KeepBackups,        \* backup.keep
    MaxGenerated        \* bound on generated keys, key 0 being none

ASSUME SecretsAssumption ==
    /\ KeepBackups \in Nat \ {0} /\ MaxGenerated \in Nat
    /\ EnvKeys \subseteq Nat \ 0..MaxGenerated

VARIABLES
    secrets,        \* cell -> [key it is sealed under, text: "none", "plain" or "sealed"]
    keyFile,        \* [is: "absent", "empty" or "written", key, synced]
    encryptionKey,  \* what the environment says, and
    configured,     \* history: has said
    generated,      \* history: keys made so far, and
    adopted,        \* those a start found in a file nobody had synced
    startup,        \* [at, key, previous]
    backups,        \* the finished ones, oldest first
    part            \* one under way or cut short: "none", "begun" or "copied", and its content

secretVars == <<secrets, keyFile, encryptionKey, configured, generated, adopted, startup, backups, part>>

NoKey == 0
Sealed(key) == [key |-> key, text |-> "sealed"]
Plain == [key |-> NoKey, text |-> "plain"]
Nothing == [key |-> NoKey, text |-> "none"]
IsSealed(cell) == cell.text = "sealed"
NoPart == [is |-> "none", content |-> <<>>]
Down == [at |-> "down", key |-> NoKey, previous |-> NoKey]

SecretsInit ==
    /\ secrets = [c \in Cells |-> Plain]
    /\ keyFile = [is |-> "absent", key |-> NoKey, synced |-> FALSE]
    /\ encryptionKey = NoKey /\ configured = {} /\ generated = 0 /\ adopted = {}
    /\ startup = Down /\ backups = <<>> /\ part = NoPart
-----------------------------------------------------------------------------
\* setUpSecrets: ENCRYPTION_KEY, with the key file's to move over from; else
\* the key file's; an empty key file fails the start.
PickKey ==
    /\ startup.at = "down" /\ keyFile.is # "empty"
    /\ \/ /\ encryptionKey # NoKey
          /\ startup' = [at |-> "sealing", key |-> encryptionKey, previous |-> keyFile.key]
       \/ /\ encryptionKey = NoKey /\ keyFile.is = "written"
          /\ startup' = [at |-> "sealing", key |-> keyFile.key, previous |-> NoKey]
    /\ adopted' = IF keyFile.is = "written" /\ ~keyFile.synced THEN adopted \cup {keyFile.key} ELSE adopted
    /\ UNCHANGED <<secrets, keyFile, encryptionKey, configured, generated, backups, part>>

\* newSecretKey: only while nothing is sealed; CreateKeyFile never replaces one.
NewSecretKey ==
    /\ startup.at = "down" /\ encryptionKey = NoKey /\ keyFile.is = "absent"
    /\ \A c \in Cells : ~IsSealed(secrets[c])
    /\ generated < MaxGenerated /\ generated' = generated + 1
    /\ keyFile' = [is |-> "empty", key |-> NoKey, synced |-> FALSE]
    /\ startup' = [at |-> "writing", key |-> generated', previous |-> NoKey]
    /\ UNCHANGED <<secrets, encryptionKey, configured, adopted, backups, part>>

\* Mutant: the key is used before its file is on disk.
WriteKeyUnsynced ==
    /\ startup.at = "writing"
    /\ keyFile' = [is |-> "written", key |-> startup.key, synced |-> FALSE]
    /\ startup' = [startup EXCEPT !.at = "sealing"]
    /\ UNCHANGED <<secrets, encryptionKey, configured, generated, adopted, backups, part>>

WriteKey ==
    /\ startup.at = "writing"
    /\ keyFile' = [is |-> "written", key |-> startup.key, synced |-> FALSE]
    /\ startup' = [startup EXCEPT !.at = "syncing"]
    /\ UNCHANGED <<secrets, encryptionKey, configured, generated, adopted, backups, part>>

SyncKey ==
    /\ startup.at = "syncing"
    /\ keyFile' = [keyFile EXCEPT !.synced = TRUE]
    /\ startup' = [startup EXCEPT !.at = "sealing"]
    /\ UNCHANGED <<secrets, encryptionKey, configured, generated, adopted, backups, part>>

\* The write or the sync fails: the file is removed, and the start fails.
WriteKeyFails ==
    /\ startup.at \in {"writing", "syncing"}
    /\ keyFile' = [is |-> "absent", key |-> NoKey, synced |-> FALSE] /\ startup' = Down
    /\ UNCHANGED <<secrets, encryptionKey, configured, generated, adopted, backups, part>>

Opens(cell, key) == IsSealed(cell) /\ cell.key = key /\ key # NoKey

\* SealSecrets refuses to write unless every sealed value opens.
Unreadable == {c \in Cells : /\ IsSealed(secrets[c]) /\ ~Opens(secrets[c], startup.key)
                             /\ ~Opens(secrets[c], startup.previous)}

\* Mutant: what does not open is passed over.
SealReadable ==
    /\ startup.at = "sealing"
    /\ secrets' = [c \in Cells |-> IF secrets[c] = Nothing \/ c \in Unreadable THEN secrets[c] ELSE Sealed(startup.key)]
    /\ startup' = [startup EXCEPT !.at = "up"]
    /\ UNCHANGED <<keyFile, encryptionKey, configured, generated, adopted, backups, part>>

\* One transaction for all of them; then the key is installed and serves.
SealSecrets ==
    /\ startup.at = "sealing" /\ Unreadable = {}
    /\ secrets' = [c \in Cells |-> IF secrets[c] = Nothing THEN Nothing ELSE Sealed(startup.key)]
    /\ startup' = [startup EXCEPT !.at = "up"]
    /\ UNCHANGED <<keyFile, encryptionKey, configured, generated, adopted, backups, part>>

SealFails ==
    /\ startup.at = "sealing" /\ startup' = Down
    /\ UNCHANGED <<secrets, keyFile, encryptionKey, configured, generated, adopted, backups, part>>

\* sealSecret: a write while serving.
WriteSecret(c, cell) ==
    /\ startup.at = "up" /\ cell \in {Nothing, Sealed(startup.key)}
    /\ secrets' = [secrets EXCEPT ![c] = cell]
    /\ UNCHANGED <<keyFile, encryptionKey, configured, generated, adopted, startup, backups, part>>

\* The process stops, anywhere.
StopService ==
    /\ startup.at # "down" /\ startup' = Down
    /\ UNCHANGED <<secrets, keyFile, encryptionKey, configured, generated, adopted, backups, part>>

\* The power is cut: what was not synced may be gone, the file or its bytes.
PowerCut ==
    /\ startup' = Down
    /\ \/ UNCHANGED keyFile
       \/ ~keyFile.synced /\ keyFile' \in {[is |-> "absent", key |-> NoKey, synced |-> FALSE],
                                           [is |-> "empty", key |-> NoKey, synced |-> FALSE]}
    /\ UNCHANGED <<secrets, encryptionKey, configured, generated, adopted, backups, part>>

\* The operator: another ENCRYPTION_KEY or none, an empty key file removed, an
\* older build run that stores as it is given.
Configure(key) ==
    /\ startup.at = "down" /\ encryptionKey' = key /\ configured' = configured \cup ({key} \ {NoKey})
    /\ UNCHANGED <<secrets, keyFile, generated, adopted, startup, backups, part>>

RemoveEmptyKeyFile ==
    /\ startup.at = "down" /\ keyFile.is = "empty"
    /\ keyFile' = [is |-> "absent", key |-> NoKey, synced |-> FALSE]
    /\ UNCHANGED <<secrets, encryptionKey, configured, generated, adopted, startup, backups, part>>

StoredPlain(c) ==
    /\ startup.at = "down" /\ secrets' = [secrets EXCEPT ![c] = Plain]
    /\ UNCHANGED <<keyFile, encryptionKey, configured, generated, adopted, startup, backups, part>>
-----------------------------------------------------------------------------
\* takeBackup, by the service's loop or by the command beside it, up or not:
\* what a crash left is cleared, the copy is of one moment, it is renamed only
\* once whole, and older ones go only after that.
BackupBegins ==
    /\ part' = [is |-> "begun", content |-> <<>>]
    /\ UNCHANGED <<secrets, keyFile, encryptionKey, configured, generated, adopted, startup, backups>>

BackupCopies ==
    /\ part.is = "begun" /\ part' = [is |-> "copied", content |-> secrets]
    /\ UNCHANGED <<secrets, keyFile, encryptionKey, configured, generated, adopted, startup, backups>>

NewestBackups(bs) == IF Len(bs) > KeepBackups THEN Tail(bs) ELSE bs
BackupLands ==
    /\ part.is = "copied" /\ part' = NoPart /\ backups' = NewestBackups(Append(backups, part.content))
    /\ UNCHANGED <<secrets, keyFile, encryptionKey, configured, generated, adopted, startup>>

BackupFails ==
    /\ part.is # "none" /\ part' = NoPart
    /\ UNCHANGED <<secrets, keyFile, encryptionKey, configured, generated, adopted, startup, backups>>

Restore(i) ==
    /\ startup.at = "down" /\ secrets' = backups[i]
    /\ UNCHANGED <<keyFile, encryptionKey, configured, generated, adopted, startup, backups, part>>

SecretsNext ==
    \/ PickKey \/ NewSecretKey \/ WriteKey \/ SyncKey \/ WriteKeyFails \/ SealSecrets \/ SealFails
    \/ \E c \in Cells : StoredPlain(c) \/ \E cell \in {Nothing, Sealed(startup.key)} : WriteSecret(c, cell)
    \/ StopService \/ PowerCut \/ RemoveEmptyKeyFile
    \/ \E key \in EnvKeys \cup {NoKey} : Configure(key)
    \/ BackupBegins \/ BackupCopies \/ BackupLands \/ BackupFails
    \/ \E i \in DOMAIN backups : Restore(i)

SecretsSpec == SecretsInit /\ [][SecretsNext]_secretVars
-----------------------------------------------------------------------------
(* A key file says what it holds, and only finished backups are kept.      *)
SecretsTypeOK ==
    /\ keyFile.is \in {"absent", "empty", "written"} /\ (keyFile.is = "written" <=> keyFile.key # NoKey)
    /\ startup.at \in {"down", "writing", "syncing", "sealing", "up"}
    /\ Len(backups) <= KeepBackups /\ \A i \in DOMAIN backups : DOMAIN backups[i] = Cells
    /\ encryptionKey \in configured \cup {NoKey}

\* The keys there are, whatever fails next.
KeptKeys == configured \cup (IF keyFile.synced THEN {keyFile.key} ELSE {})

SealedUnder(held) ==
    \A cells \in {secrets} \cup {backups[i] : i \in DOMAIN backups} :
      \A c \in Cells : IsSealed(cells[c]) => cells[c].key \in held

(* No crash, power cut, change of key or restore strands a credential:     *)
(* what is sealed, in the database or in a backup, is sealed under a key   *)
(* that was configured or is safely in the key file, short of the one case *)
(* KeyOnDiskFirst is about; and a service that is up opens all it stores,  *)
(* and stores none of it readable                                          *)
(* (db/secret.go:118-124, app/secrets.go:16-21).                           *)
SecretsStayReadable ==
    /\ SealedUnder(KeptKeys \cup adopted)
    /\ startup.at = "up" => \A c \in Cells : secrets[c] = Nothing \/ Opens(secrets[c], startup.key)

(* A key is on disk before anything is sealed under it                     *)
(* (secret/keyfile.go:64-65). A start killed between the write and the     *)
(* sync leaves a file that the next start uses as it finds it, so it does  *)
(* not hold.                                                               *)
KeyOnDiskFirst == SealedUnder(KeptKeys)
=============================================================================

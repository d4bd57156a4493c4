-------------------------- MODULE RuntimeSettings ---------------------------
(***************************************************************************)
(* The settings operators edit: one row with a revision, the copy every    *)
(* request reads, and the console that saves against the revision it saw.  *)
(*   db/settings.go, handlers/admin.go, appstate/state.go, models/settings *)
(***************************************************************************)
EXTENDS Integers

CONSTANTS
    Editors,
    Retries,        \* values of a numeric setting, those out of range among them
    MaxRetries,
    ProxyURLs,      \* "" is none
    GoodURLs,       \* those with a scheme and a host the gateway can use
    MaxRevision,    \* bounds
    MaxBoots

ASSUME SettingsAssumption ==
    /\ 1 \in Retries /\ MaxRetries \in Nat \ {0} /\ "" \in ProxyURLs
    /\ GoodURLs \subseteq ProxyURLs \ {""}
    /\ MaxRevision \in Nat \ {0} /\ MaxBoots \in Nat

VARIABLES
    settingsRow,    \* [settings, revision] in the database
    runtime,        \* the same, as the process serves it
    editor,         \* each console: the form it shows and where its save stands
    boots

settingsVars == <<settingsRow, runtime, editor, boots>>

Settings == [retries : Retries, proxyEnabled : BOOLEAN, proxyURL : ProxyURLs]

\* DefaultRuntimeSettings
Defaults == [settings |-> [retries |-> 1, proxyEnabled |-> FALSE, proxyURL |-> ""], revision |-> 0]

\* Validate and validateProxyURL: a disabled proxy may be empty, not malformed.
ValidProxy(s) == IF s.proxyURL = "" THEN ~s.proxyEnabled ELSE s.proxyURL \in GoodURLs
Valid(s) == s.retries \in 0..MaxRetries /\ ValidProxy(s)

NoEdit == [at |-> "idle", form |-> Defaults, updated |-> Defaults, current |-> 0]

SettingsInit ==
    /\ settingsRow = [Defaults EXCEPT !.revision = 1]
    /\ runtime = settingsRow
    /\ editor = [e \in Editors |-> NoEdit]
    /\ boots = 0
-----------------------------------------------------------------------------
\* AdminGetRuntimeSettings: the form is filled from the process's copy.
ShowSettings(e) ==
    /\ editor[e].at = "idle"
    /\ editor' = [editor EXCEPT ![e].at = "editing", ![e].form = runtime]
    /\ UNCHANGED <<settingsRow, runtime, boots>>

\* Mutant: the update does not ask for the revision.
SaveAnyRevision(e, s) ==
    LET updated == [settings |-> s, revision |-> settingsRow.revision + 1]
    IN  /\ editor[e].at = "editing" /\ settingsRow.revision < MaxRevision /\ Valid(s)
        /\ settingsRow' = updated
        /\ editor' = [editor EXCEPT ![e].at = "saved", ![e].updated = updated]
        /\ UNCHANGED <<runtime, boots>>

\* UpdateRuntimeSettings: refused unless valid and the row is as the form saw.
UpdateRuntimeSettings(e, s) ==
    LET updated == [settings |-> s, revision |-> settingsRow.revision + 1]
    IN  /\ editor[e].at = "editing" /\ settingsRow.revision < MaxRevision
        /\ IF Valid(s) /\ editor[e].form.revision >= 1 /\ editor[e].form.revision = settingsRow.revision
           THEN /\ settingsRow' = updated
                /\ editor' = [editor EXCEPT ![e].at = "saved", ![e].updated = updated]
           ELSE editor' = [editor EXCEPT ![e] = NoEdit] /\ UNCHANGED settingsRow
        /\ UNCHANGED <<runtime, boots>>

\* The handler reads the copy it is about to replace...
GetRuntime(e) ==
    /\ editor[e].at = "saved"
    /\ editor' = [editor EXCEPT ![e].at = "compared", ![e].current = runtime.revision]
    /\ UNCHANGED <<settingsRow, runtime, boots>>

\* ... and sets its own, if that was newer.
SetRuntime(e) ==
    /\ editor[e].at = "compared"
    /\ runtime' = IF editor[e].updated.revision > editor[e].current THEN editor[e].updated ELSE runtime
    /\ editor' = [editor EXCEPT ![e] = NoEdit]
    /\ UNCHANGED <<settingsRow, boots>>

\* LoadRuntimeSettings: a row that cannot be used gives the defaults.
Loaded(row) == IF Valid(row.settings) THEN row ELSE Defaults

\* A restart, or one that cannot read the row.
RestartSettings ==
    /\ boots < MaxBoots /\ boots' = boots + 1
    /\ runtime' \in {Loaded(settingsRow), Defaults}
    /\ editor' = [e \in Editors |-> NoEdit]
    /\ UNCHANGED settingsRow

SettingsNext ==
    \/ \E e \in Editors : \/ ShowSettings(e) \/ GetRuntime(e) \/ SetRuntime(e)
                          \/ \E s \in Settings : UpdateRuntimeSettings(e, s)
    \/ RestartSettings

SettingsSpec == SettingsInit /\ [][SettingsNext]_settingsVars
-----------------------------------------------------------------------------
(* What the process serves is usable, and never newer than what is stored. *)
SettingsTypeOK ==
    /\ boots \in 0..MaxBoots
    /\ \A s \in {settingsRow, runtime} : Valid(s.settings) /\ s.revision \in 0..MaxRevision
    /\ settingsRow.revision >= 1 /\ runtime.revision <= settingsRow.revision
    /\ \A e \in Editors : /\ editor[e].at \in {"idle", "editing", "saved", "compared"}
                          /\ editor[e].updated.revision <= settingsRow.revision

(* A save that committed later is not rolled back by the copy an earlier   *)
(* one still holds: until the process restarts, what it serves only grows  *)
(* newer. handlers/admin.go:134-138 compares and sets in two steps; that   *)
(* no two saves are ever between them is due to the revision, which a form *)
(* has from what the process serves.                                       *)
NeverRolledBack == [][boots' = boots => runtime'.revision >= runtime.revision]_settingsVars
=============================================================================

----------------------------- MODULE LocalFiles -----------------------------
(***************************************************************************)
(* The command line patches a coding client's configuration: it reads the  *)
(* file, merges the provider it was asked for, shows the plan and, told    *)
(* to, publishes it, unless the file has changed since; other runs of it   *)
(* and the user's editor write the same file.                              *)
(*   ctl/integration.go, integration/, localfile/file.go                   *)
(***************************************************************************)
EXTENDS Integers, FiniteSets

CONSTANTS
    Runs,
    Provider,       \* run -> the provider it configures
    Setting,        \* run -> what it configures it as
    Replace,        \* run -> whether it may replace what is there
    Texts           \* what the user's own part of the file may read

\* No run is taken for none.
ASSUME FilesAssumption == "none" \notin Runs

Providers == {Provider[r] : r \in Runs}

VARIABLES
    config,         \* the file: [is, user, providers: provider -> setting, "" for none]
    fileLock,       \* the lock file: the run that made it, which may have died, or none
    plan,           \* run -> [at, seen, next]
    oldCopies,      \* the backups beside the file
    edits,          \* history: what the user last wrote,
    overtaken,      \* ... whether a run was past its comparison then, and
    applied         \* what the runs last reported as applied

fileVars == <<config, fileLock, plan, oldCopies, edits, overtaken, applied>>

NoRun == "none"
NoFile == [is |-> FALSE, user |-> "", providers |-> [p \in Providers |-> ""]]
NoPlan == [at |-> "idle", seen |-> NoFile, next |-> NoFile]

FilesInit ==
    /\ config = NoFile /\ fileLock = NoRun
    /\ plan = [r \in Runs |-> NoPlan]
    /\ oldCopies = {} /\ edits = "" /\ overtaken = FALSE
    /\ applied = [p \in Providers |-> ""]
-----------------------------------------------------------------------------
\* Merge patches the provider asked for, and nothing else.
Conflict(r, file) == file.providers[Provider[r]] \notin {"", Setting[r]} /\ ~Replace[r]
Merge(r, file) == [file EXCEPT !.is = TRUE, !.providers[Provider[r]] = Setting[r]]

\* runIntegration reads, merges and shows; a conflict ends it.
Plan(r) ==
    /\ plan[r].at = "idle" /\ ~Conflict(r, config)
    /\ plan' = [plan EXCEPT ![r] = [at |-> "planned", seen |-> config, next |-> Merge(r, config)]]
    /\ UNCHANGED <<config, fileLock, oldCopies, edits, overtaken, applied>>

\* Apply: the lock file is made, or is somebody's.
Lock(r) ==
    /\ plan[r].at = "planned"
    /\ IF fileLock = NoRun
       THEN fileLock' = r /\ plan' = [plan EXCEPT ![r].at = "locked"]
       ELSE plan' = [plan EXCEPT ![r] = NoPlan] /\ UNCHANGED fileLock
    /\ UNCHANGED <<config, oldCopies, edits, overtaken, applied>>

Ends(r) == fileLock' = NoRun /\ plan' = [plan EXCEPT ![r] = NoPlan]
Reports(r) == applied' = [applied EXCEPT ![Provider[r]] = Setting[r]]

\* Mutant: what was previewed is taken to be what is there.
CompareNothing(r) ==
    /\ plan[r].at = "locked"
    /\ IF plan[r].seen = plan[r].next THEN Ends(r) /\ Reports(r)
       ELSE plan' = [plan EXCEPT ![r].at = "compared"] /\ UNCHANGED <<fileLock, applied>>
    /\ UNCHANGED <<config, oldCopies, edits, overtaken>>

\* The file has changed since, or there is nothing to change, or it goes on.
Compare(r) ==
    /\ plan[r].at = "locked"
    /\ IF config # plan[r].seen THEN Ends(r) /\ UNCHANGED applied
       ELSE IF plan[r].seen = plan[r].next THEN Ends(r) /\ Reports(r)
       ELSE plan' = [plan EXCEPT ![r].at = "compared"] /\ UNCHANGED <<fileLock, applied>>
    /\ UNCHANGED <<config, oldCopies, edits, overtaken>>

\* The bytes that were there are kept, if there were any, and synced.
BackUp(r) ==
    /\ plan[r].at = "compared"
    /\ plan' = [plan EXCEPT ![r].at = "backed"]
    /\ oldCopies' = oldCopies \cup {f \in {plan[r].seen} : f.is}
    /\ UNCHANGED <<config, fileLock, edits, overtaken, applied>>

\* A new file is linked, which fails if one has come; an old one is replaced.
PublishFile(r) ==
    /\ plan[r].at = "backed"
    /\ plan' = [plan EXCEPT ![r].at = "published"]
    /\ IF ~plan[r].seen.is /\ config.is THEN UNCHANGED <<config, applied>>
       ELSE config' = plan[r].next /\ Reports(r)
    /\ UNCHANGED <<fileLock, oldCopies, edits, overtaken>>

Unlock(r) ==
    /\ plan[r].at = "published" /\ Ends(r)
    /\ UNCHANGED <<config, oldCopies, edits, overtaken, applied>>

\* A write fails, and the lock goes; or the run dies, and the lock stays until
\* somebody removes it.
ApplyFails(r) ==
    /\ plan[r].at \in {"compared", "backed"} /\ Ends(r)
    /\ UNCHANGED <<config, oldCopies, edits, overtaken, applied>>

RunDies(r) ==
    /\ plan[r].at # "idle" /\ plan' = [plan EXCEPT ![r] = NoPlan]
    /\ UNCHANGED <<config, fileLock, oldCopies, edits, overtaken, applied>>

RemoveLock ==
    /\ fileLock # NoRun /\ plan[fileLock].at \in {"idle", "planned"} /\ fileLock' = NoRun
    /\ UNCHANGED <<config, plan, oldCopies, edits, overtaken, applied>>

\* The user's editor knows of no lock.
EditFile(text) ==
    /\ config' = [config EXCEPT !.is = TRUE, !.user = text] /\ edits' = text
    /\ overtaken' = \E r \in Runs : plan[r].at \in {"compared", "backed"} /\ plan[r].seen.is
    /\ UNCHANGED <<fileLock, plan, oldCopies, applied>>

FilesNext ==
    \/ \E r \in Runs : \/ Plan(r) \/ Lock(r) \/ Compare(r) \/ BackUp(r) \/ PublishFile(r)
                       \/ Unlock(r) \/ ApplyFails(r) \/ RunDies(r)
    \/ RemoveLock \/ \E text \in Texts : EditFile(text)

FilesSpec == FilesInit /\ [][FilesNext]_fileVars
-----------------------------------------------------------------------------
(* Whoever is past the lock holds it, and publishes what it previewed.     *)
FilesTypeOK ==
    /\ fileLock \in Runs \cup {NoRun}
    /\ \A r \in Runs : /\ plan[r].at \in {"idle", "planned", "locked", "compared", "backed", "published"}
                       /\ plan[r].at \notin {"idle", "planned"} => fileLock = r

(* No run undoes what another reported as applied, nor an edit of the      *)
(* user's made before the run compared: only one saved between the         *)
(* comparison and the rename can be lost, which no lock of the tool's can  *)
(* prevent (localfile/file.go:121-176).                                    *)
EditsAreKept ==
    /\ \A p \in Providers : config.providers[p] = applied[p]
    /\ ~overtaken => config.user = edits
=============================================================================

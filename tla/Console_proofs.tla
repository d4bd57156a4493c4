--------------------------- MODULE Console_proofs ---------------------------
(***************************************************************************)
(* The doors and what is kept behind them, for any number of consoles,     *)
(* channels, groups, tokens, credentials, images and files.                *)
(***************************************************************************)
EXTENDS MCConsole, ResponseRoutes_proofs, FiniteSetTheorems, TLAPS

(* Every set of naturals that has an element has a least one.               *)
LEMMA LeastNatural ==
    ASSUME NEW S \in SUBSET Nat, S # {}
    PROVE  \E n \in S : \A m \in S : n <= m
<1> DEFINE Upto(n) == 1..n
           U == {Upto(n) : n \in S}
<1>1. U \subseteq FiniteSubsetsOf(Nat) /\ U # {}
  <2>1. ASSUME NEW n \in S PROVE Upto(n) \in SUBSET Nat /\ IsFiniteSet(Upto(n))
    <3>1. n \in Int /\ 1 \in Int /\ Upto(n) \subseteq Nat
      OBVIOUS
    <3> QED
      BY <3>1, FS_Interval
  <2> QED
    BY <2>1 DEF FiniteSubsetsOf
<1>2. IsWellFoundedOn(StrictSubsetOrdering(Nat), FiniteSubsetsOf(Nat))
  BY FS_StrictSubsetOrderingWellFounded
<1>3. PICK u \in U : \A v \in U : ~(<<v, u>> \in StrictSubsetOrdering(Nat))
  <2> HIDE DEF U
  <2> QED
    BY <1>1, <1>2, WFMin
<1>4. PICK n \in S : u = Upto(n)
  BY <1>3
<1>5. ASSUME NEW m \in S, m < n PROVE FALSE
  <2>1. Upto(m) \in U
    OBVIOUS
  <2>2. Upto(m) \subseteq Upto(n) /\ n \in Upto(n) /\ n \notin Upto(m) /\ n \in Nat /\ m \in Nat
    BY <1>5
  <2>3. <<Upto(m), Upto(n)>> \in StrictSubsetOrdering(Nat)
    BY <2>2 DEF StrictSubsetOrdering
  <2> QED
    BY <1>3, <1>4, <2>1, <2>3
<1>6. \A m \in S : m \in Int /\ n \in Int
  OBVIOUS
<1> QED
  BY <1>5, <1>6

(* Of a finite set that is not empty, some element has the greatest value.  *)
LEMMA Peak ==
    ASSUME NEW S, IsFiniteSet(S), S # {}, NEW f \in [S -> Int]
    PROVE  \E n \in S : \A m \in S : f[m] <= f[n]
<1> DEFINE Topped(T) == \E n \in T : \A m \in T : f[m] <= f[n]
           U == {T \in FiniteSubsetsOf(S) : T # {} /\ ~Topped(T)}
<1>1. CASE U = {}
  <2>1. S \in FiniteSubsetsOf(S)
    BY DEF FiniteSubsetsOf
  <2> QED
    BY <1>1, <2>1
<1>2. CASE U # {}
  <2>1. U \subseteq FiniteSubsetsOf(S)
    OBVIOUS
  <2>2. IsWellFoundedOn(StrictSubsetOrdering(S), FiniteSubsetsOf(S))
    BY FS_StrictSubsetOrderingWellFounded
  <2>3. PICK T \in U : \A V \in U : ~(<<V, T>> \in StrictSubsetOrdering(S))
    <3> HIDE DEF U
    <3> QED
      BY <1>2, <2>1, <2>2, WFMin
  <2>4. T \in SUBSET S /\ IsFiniteSet(T) /\ T # {} /\ ~Topped(T)
    BY <2>3 DEF FiniteSubsetsOf
  <2>5. PICK x \in T : TRUE
    BY <2>4
  <2> DEFINE V == T \ {x}
  <2>6. V \in SUBSET S /\ IsFiniteSet(V) /\ V # T
    BY <2>4, <2>5, FS_Subset
  <2>7. <<V, T>> \in StrictSubsetOrdering(S)
    BY <2>4, <2>6 DEF StrictSubsetOrdering
  <2>8. V = {} \/ Topped(V)
    BY <2>3, <2>6, <2>7 DEF FiniteSubsetsOf
  <2>9. CASE V = {}
    <3>1. T = {x} /\ f[x] \in Int
      BY <2>4, <2>5, <2>9
    <3> QED
      BY <2>4, <3>1
  <2>10. CASE Topped(V)
    <3>1. PICK y \in V : \A m \in V : f[m] <= f[y]
      BY <2>10
    <3>2. \A m \in T : m = x \/ m \in V
      OBVIOUS
    <3>3. f[x] \in Int /\ f[y] \in Int /\ y \in T /\ \A m \in V : f[m] \in Int
      BY <2>4, <2>5, <3>1
    <3>4. CASE f[x] <= f[y]
      <4>1. \A m \in T : f[m] <= f[y]
        BY <3>1, <3>2, <3>4
      <4> QED
        BY <2>4, <3>3, <4>1
    <3>5. CASE f[y] <= f[x]
      <4>1. \A m \in T : f[m] <= f[x]
        BY <3>1, <3>2, <3>3, <3>5
      <4> QED
        BY <2>4, <2>5, <4>1
    <3> QED
      BY <3>3, <3>4, <3>5
  <2> QED
    BY <2>8, <2>9, <2>10
<1> QED
    BY <1>1, <1>2

(* A finite set of naturals that has an element has a greatest one.         *)
LEMMA GreatestNatural ==
    ASSUME NEW S \in SUBSET Nat, IsFiniteSet(S), S # {}
    PROVE  \E n \in S : \A m \in S : m <= n
<1> DEFINE f == [n \in S |-> n]
<1>1. f \in [S -> Int] /\ \A n \in S : f[n] = n
  OBVIOUS
<1> HIDE DEF f
<1>2. PICK n \in S : \A m \in S : f[m] <= f[n]
  BY <1>1, Peak
<1>3. QED
  BY <1>1, <1>2

-----------------------------------------------------------------------------
(* The runtime settings.                                                   *)
Revised == [settings : Settings, revision : Nat]
EditorRecords == [at : {"idle", "editing", "saved", "compared"}, form : Revised, updated : Revised, current : Nat]

\* A console that has committed and not replaced the copy yet.
Pending(e) == editor[e].at \in {"saved", "compared"}

SettingsTypes ==
    /\ settingsRow \in Revised /\ runtime \in Revised
    /\ editor \in [Editors -> EditorRecords] /\ boots \in 0..MaxBoots

RevisionsInv ==
    /\ settingsRow.revision \in 1..MaxRevision
    /\ runtime.revision <= settingsRow.revision
    /\ Valid(settingsRow.settings) /\ Valid(runtime.settings)

\* A form is no newer than what the process serves, and who has committed is
\* alone and ahead of it.
EditorsInv ==
    /\ \A e \in Editors : editor[e].form.revision <= runtime.revision
    /\ \A e \in Editors : editor[e].updated.revision <= settingsRow.revision
    /\ \A e \in Editors : Pending(e) => /\ editor[e].updated = settingsRow
                                        /\ runtime.revision < settingsRow.revision
    /\ \A e, f \in Editors : Pending(e) /\ Pending(f) => e = f

SettingsInv == SettingsTypes /\ RevisionsInv /\ EditorsInv

LEMMA SettingsNumbers ==
    /\ MaxRetries \in Nat /\ MaxRetries >= 1
    /\ MaxRevision \in Nat /\ MaxRevision >= 1 /\ MaxBoots \in Nat
    /\ 1 \in 0..MaxRetries /\ 0 \in 0..MaxBoots /\ 1 \in 1..MaxRevision
<1>1. MaxRetries \in Nat \ {0} /\ MaxRevision \in Nat \ {0} /\ MaxBoots \in Nat
  BY SettingsAssumption
<1>2. QED
  BY <1>1

(* The defaults can be used.                                               *)
LEMMA DefaultsAreValid ==
    /\ Defaults \in Revised /\ Valid(Defaults.settings) /\ Defaults.revision = 0
    /\ NoEdit \in EditorRecords /\ NoEdit.at = "idle"
    /\ NoEdit.form.revision = 0 /\ NoEdit.updated.revision = 0
<1>1. Defaults.settings = [retries |-> 1, proxyEnabled |-> FALSE, proxyURL |-> ""] /\ Defaults.revision = 0
  BY DEF Defaults
<1>2. Defaults.settings \in Settings
  <2>1. 1 \in Retries /\ "" \in ProxyURLs
    BY SettingsAssumption
  <2>2. [retries |-> 1, proxyEnabled |-> FALSE, proxyURL |-> ""] \in Settings
    BY <2>1 DEF Settings
  <2>3. QED
    BY <1>1, <2>2
<1>2b. Valid(Defaults.settings)
  <2>1. Defaults.settings.retries = 1 /\ Defaults.settings.proxyURL = "" /\ ~Defaults.settings.proxyEnabled
    BY DEF Defaults
  <2>2. QED
    BY <2>1, SettingsNumbers DEF Valid, ValidProxy
<1>3. Defaults \in Revised
  BY <1>2 DEF Defaults, Revised
<1>4. QED
  BY <1>1, <1>2, <1>2b, <1>3 DEF NoEdit, EditorRecords

(* A process starts with the row it has.                                   *)
LEMMA SettingsStart == SettingsInit => SettingsInv
<1> SUFFICES ASSUME SettingsInit PROVE SettingsInv
    OBVIOUS
<1>1. /\ settingsRow \in Revised /\ settingsRow.revision = 1
      /\ settingsRow.settings = Defaults.settings /\ runtime = settingsRow
  BY DefaultsAreValid DEF SettingsInit, Revised
<1>2. SettingsTypes
  BY <1>1, SettingsNumbers, DefaultsAreValid DEF SettingsInit, SettingsTypes
<1>3. RevisionsInv
  BY <1>1, SettingsNumbers, DefaultsAreValid DEF RevisionsInv
<1>4. EditorsInv
  BY <1>1, DefaultsAreValid DEF SettingsInit, EditorsInv, Pending
<1>5. QED
  BY <1>2, <1>3, <1>4 DEF SettingsInv

(* A form shows what the process serves.                                   *)
LEMMA ShowKeeps ==
    ASSUME SettingsInv, NEW e \in Editors, ShowSettings(e)
    PROVE  SettingsInv' /\ runtime' = runtime
<1> USE DEF ShowSettings
<1>1. editor[e] \in EditorRecords /\ editor'[e] = [editor[e] EXCEPT !.at = "editing", !.form = runtime]
  BY DEF SettingsInv, SettingsTypes
<1>2. /\ editor'[e] \in EditorRecords /\ editor'[e].at = "editing" /\ editor'[e].form = runtime
      /\ editor'[e].updated = editor[e].updated
  BY <1>1 DEF SettingsInv, SettingsTypes, EditorRecords
<1>3. \A f \in Editors \ {e} : editor'[f] = editor[f]
  BY DEF SettingsInv, SettingsTypes
<1>4. SettingsTypes'
  <2>1. editor' \in [Editors -> EditorRecords]
    BY <1>2, <1>3 DEF SettingsInv, SettingsTypes
  <2>2. QED
    BY <2>1 DEF SettingsInv, SettingsTypes
<1>5. RevisionsInv'
  BY DEF SettingsInv, RevisionsInv
<1>6. EditorsInv'
  <2>1. runtime.revision \in Nat
    BY DEF SettingsInv, SettingsTypes, Revised
  <2>2. \A f \in Editors : editor'[f].form.revision <= runtime.revision
    <3>1. editor'[e].form.revision <= runtime.revision
      BY <1>2, <2>1
    <3>2. ASSUME NEW f \in Editors \ {e} PROVE editor'[f].form.revision <= runtime.revision
      BY <1>3 DEF SettingsInv, EditorsInv
    <3>3. QED
      BY <3>1, <3>2
  <2>3. \A f \in Editors : editor'[f].updated = editor[f].updated /\ (Pending(f)' => Pending(f))
    BY <1>2, <1>3 DEF Pending
  <2>4. QED
    BY <2>2, <2>3 DEF SettingsInv, EditorsInv
<1>7. QED
  BY <1>4, <1>5, <1>6 DEF SettingsInv

(* A save finds its form as new as the row, and so nobody between a commit *)
(* and the copy.                                                           *)
LEMMA UpdateKeeps ==
    ASSUME SettingsInv, NEW e \in Editors, NEW s \in Settings, UpdateRuntimeSettings(e, s)
    PROVE  SettingsInv' /\ runtime' = runtime
<1> DEFINE updated == [settings |-> s, revision |-> settingsRow.revision + 1]
<1>1. /\ editor[e] \in EditorRecords /\ settingsRow \in Revised /\ runtime \in Revised
      /\ settingsRow.revision \in Nat /\ runtime.revision \in Nat /\ MaxRevision \in Nat
  BY SettingsNumbers DEF SettingsInv, SettingsTypes, Revised
<1>2. runtime' = runtime /\ boots' = boots /\ settingsRow.revision < MaxRevision
  BY DEF UpdateRuntimeSettings
<1>3. CASE Valid(s) /\ editor[e].form.revision >= 1 /\ editor[e].form.revision = settingsRow.revision
  <2>1. settingsRow' = updated /\ editor' = [editor EXCEPT ![e].at = "saved", ![e].updated = updated]
    BY <1>3 DEF UpdateRuntimeSettings
  <2>2. updated \in Revised /\ updated.revision = settingsRow.revision + 1 /\ updated.settings = s
    BY <1>1 DEF Revised
  <2>3. runtime.revision = settingsRow.revision
    BY <1>1, <1>3 DEF SettingsInv, RevisionsInv, EditorsInv
  <2>4. \A f \in Editors : ~Pending(f)
    BY <1>1, <2>3 DEF SettingsInv, EditorsInv
  <2> HIDE DEF updated
  <2>5. editor'[e] = [editor[e] EXCEPT !.at = "saved", !.updated = updated]
    BY <2>1 DEF SettingsInv, SettingsTypes
  <2>6. /\ editor'[e] \in EditorRecords /\ editor'[e].form = editor[e].form
        /\ editor'[e].updated = updated
    BY <1>1, <2>2, <2>5 DEF EditorRecords
  <2>7. \A f \in Editors \ {e} : editor'[f] = editor[f]
    BY <2>1 DEF SettingsInv, SettingsTypes
  <2>8. SettingsTypes'
    <3>1. editor' \in [Editors -> EditorRecords]
      BY <2>1, <2>6, <2>7 DEF SettingsInv, SettingsTypes
    <3>2. QED
      BY <1>2, <2>1, <2>2, <3>1 DEF SettingsInv, SettingsTypes
  <2>9. RevisionsInv'
    BY <1>1, <1>2, <1>3, <2>1, <2>2, <2>3 DEF SettingsInv, RevisionsInv
  <2>10. EditorsInv'
    <3>1. \A f \in Editors : editor'[f].form = editor[f].form
      BY <2>6, <2>7
    <3>2. \A f \in Editors : editor'[f].updated.revision <= updated.revision
      <4>1. ASSUME NEW f \in Editors \ {e} PROVE editor'[f].updated.revision <= updated.revision
        <5>1. editor[f].updated.revision \in Nat /\ editor[f].updated.revision <= settingsRow.revision
          BY DEF SettingsInv, SettingsTypes, EditorsInv, EditorRecords, Revised
        <5>2. QED
          BY <1>1, <2>2, <2>7, <5>1
      <4>2. QED
        BY <1>1, <2>2, <2>6, <4>1
    <3>3. \A f \in Editors : Pending(f)' => f = e
      BY <2>4, <2>7 DEF Pending
    <3>4. runtime'.revision < settingsRow'.revision
      BY <1>1, <1>2, <2>1, <2>2, <2>3
    <3>5. QED
      BY <1>2, <2>1, <2>6, <3>1, <3>2, <3>3, <3>4 DEF SettingsInv, EditorsInv
  <2>11. QED
    BY <1>2, <2>8, <2>9, <2>10 DEF SettingsInv
<1>4. CASE ~(Valid(s) /\ editor[e].form.revision >= 1 /\ editor[e].form.revision = settingsRow.revision)
  <2>1. editor' = [editor EXCEPT ![e] = NoEdit] /\ settingsRow' = settingsRow
    BY <1>4 DEF UpdateRuntimeSettings
  <2>2. editor'[e] = NoEdit /\ (\A f \in Editors \ {e} : editor'[f] = editor[f])
    BY <2>1 DEF SettingsInv, SettingsTypes
  <2>3. SettingsTypes'
    BY <1>2, <2>1, DefaultsAreValid DEF SettingsInv, SettingsTypes
  <2>4. RevisionsInv'
    BY <1>2, <2>1 DEF SettingsInv, RevisionsInv
  <2>5. EditorsInv'
    BY <1>1, <1>2, <2>1, <2>2, DefaultsAreValid DEF SettingsInv, EditorsInv, Pending
  <2>6. QED
    BY <1>2, <2>3, <2>4, <2>5 DEF SettingsInv
<1>5. QED
  BY <1>3, <1>4

(* The handler reads the copy...                                           *)
LEMMA GetRuntimeKeeps ==
    ASSUME SettingsInv, NEW e \in Editors, GetRuntime(e)
    PROVE  SettingsInv' /\ runtime' = runtime
<1> USE DEF GetRuntime
<1>1. editor[e] \in EditorRecords /\ runtime.revision \in Nat
  BY DEF SettingsInv, SettingsTypes, Revised
<1>2. editor'[e] = [editor[e] EXCEPT !.at = "compared", !.current = runtime.revision]
  BY DEF SettingsInv, SettingsTypes
<1>3. /\ editor'[e].at = "compared" /\ editor'[e].form = editor[e].form
      /\ editor'[e].updated = editor[e].updated /\ editor'[e].current = runtime.revision
  BY <1>1, <1>2 DEF EditorRecords
<1>3b. editor'[e] \in EditorRecords
  BY <1>1, <1>2 DEF EditorRecords
<1>4. \A f \in Editors \ {e} : editor'[f] = editor[f]
  BY DEF SettingsInv, SettingsTypes
<1>5. SettingsTypes'
  <2>1. editor' \in [Editors -> EditorRecords]
    BY <1>3b, <1>4 DEF SettingsInv, SettingsTypes
  <2>2. QED
    BY <2>1 DEF SettingsInv, SettingsTypes
<1>6. \A f \in Editors : /\ (Pending(f)' <=> Pending(f)) /\ editor'[f].form = editor[f].form
                         /\ editor'[f].updated = editor[f].updated
  <2>1. editor[e].at = "saved"
    OBVIOUS
  <2>2. ASSUME NEW f \in Editors \ {e}
        PROVE  /\ (Pending(f)' <=> Pending(f)) /\ editor'[f].form = editor[f].form
               /\ editor'[f].updated = editor[f].updated
    BY <1>4 DEF Pending
  <2>3. Pending(e)' /\ Pending(e)
    BY <1>3, <2>1 DEF Pending
  <2>4. QED
    BY <1>3, <2>2, <2>3
<1>7. RevisionsInv' /\ EditorsInv'
  BY <1>6 DEF SettingsInv, RevisionsInv, EditorsInv
<1>8. QED
  BY <1>5, <1>7 DEF SettingsInv

(* ... and replaces it by what it has committed.                           *)
LEMMA SetRuntimeKeeps ==
    ASSUME SettingsInv, NEW e \in Editors, SetRuntime(e)
    PROVE  SettingsInv' /\ runtime'.revision >= runtime.revision
<1>1. /\ editor[e].updated = settingsRow /\ runtime.revision < settingsRow.revision
      /\ \A f \in Editors \ {e} : ~Pending(f)
  BY DEF SettingsInv, EditorsInv, Pending, SetRuntime
<1>2. /\ settingsRow \in Revised /\ runtime \in Revised
      /\ settingsRow.revision \in Nat /\ runtime.revision \in Nat
  BY DEF SettingsInv, SettingsTypes, Revised
<1>3. /\ runtime' \in {settingsRow, runtime} /\ settingsRow' = settingsRow /\ boots' = boots
      /\ editor' = [editor EXCEPT ![e] = NoEdit]
  BY <1>1 DEF SetRuntime
<1>4. runtime'.revision >= runtime.revision /\ runtime'.revision <= settingsRow.revision /\ runtime' \in Revised
  BY <1>1, <1>2, <1>3
<1>5. editor'[e] = NoEdit /\ (\A f \in Editors \ {e} : editor'[f] = editor[f])
  BY <1>3 DEF SettingsInv, SettingsTypes
<1>6. SettingsTypes'
  BY <1>2, <1>3, <1>4, DefaultsAreValid DEF SettingsInv, SettingsTypes
<1>7. RevisionsInv'
  BY <1>3, <1>4 DEF SettingsInv, RevisionsInv
<1>8. EditorsInv'
  <2>1. \A f \in Editors : ~Pending(f)'
    BY <1>1, <1>5, DefaultsAreValid DEF Pending
  <2>2. \A f \in Editors : editor'[f].form.revision <= runtime'.revision
    <3>1. ASSUME NEW f \in Editors \ {e} PROVE editor'[f].form.revision <= runtime'.revision
      <4>1. editor[f].form.revision \in Nat /\ editor[f].form.revision <= runtime.revision
        BY DEF SettingsInv, SettingsTypes, EditorsInv, EditorRecords, Revised
      <4>2. QED
        BY <1>2, <1>3, <1>4, <1>5, <4>1
    <3>2. QED
      BY <1>2, <1>3, <1>5, <3>1, DefaultsAreValid
  <2>3. \A f \in Editors : editor'[f].updated.revision <= settingsRow'.revision
    BY <1>2, <1>3, <1>5, DefaultsAreValid DEF SettingsInv, EditorsInv
  <2>4. QED
    BY <2>1, <2>2, <2>3 DEF EditorsInv
<1>9. QED
  BY <1>4, <1>6, <1>7, <1>8 DEF SettingsInv

(* A restart forgets the consoles, and counts as one.                      *)
LEMMA RestartSettingsKeeps ==
    ASSUME SettingsInv, RestartSettings
    PROVE  SettingsInv' /\ boots' # boots
<1>1. boots \in 0..MaxBoots /\ boots' = boots + 1 /\ boots < MaxBoots /\ MaxBoots \in Nat
  BY SettingsNumbers DEF SettingsInv, SettingsTypes, RestartSettings
<1>2. /\ settingsRow' = settingsRow /\ editor' = [e \in Editors |-> NoEdit]
      /\ runtime' \in {settingsRow, Defaults}
  BY DEF RestartSettings, Loaded
<1>3. settingsRow.revision \in Nat /\ settingsRow.revision >= 1
  BY DEF SettingsInv, SettingsTypes, RevisionsInv, Revised
<1>4. SettingsTypes'
  BY <1>1, <1>2, DefaultsAreValid DEF SettingsInv, SettingsTypes
<1>5. RevisionsInv'
  BY <1>2, <1>3, DefaultsAreValid DEF SettingsInv, RevisionsInv
<1>6. EditorsInv'
  <2>1. runtime'.revision \in Nat
    BY <1>2, <1>3, DefaultsAreValid
  <2>2. QED
    BY <1>2, <1>3, <2>1, DefaultsAreValid DEF EditorsInv, Pending
<1>7. QED
  BY <1>1, <1>4, <1>5, <1>6 DEF SettingsInv

LEMMA SettingsKeep ==
    ASSUME SettingsInv, [SettingsNext]_settingsVars
    PROVE  SettingsInv' /\ (boots' = boots => runtime'.revision >= runtime.revision)
<1> USE DEF SettingsNext
<1>1. runtime.revision \in Nat
  BY DEF SettingsInv, SettingsTypes, Revised
<1>2. CASE UNCHANGED settingsVars
  <2>1. SettingsInv'
    BY <1>2 DEF settingsVars, SettingsInv, SettingsTypes, RevisionsInv, EditorsInv, Pending
  <2>2. QED
    BY <1>1, <1>2, <2>1 DEF settingsVars
<1>3. CASE \E e \in Editors : ShowSettings(e)
  BY <1>1, <1>3, ShowKeeps
<1>4. CASE \E e \in Editors : GetRuntime(e)
  BY <1>1, <1>4, GetRuntimeKeeps
<1>5. CASE \E e \in Editors : SetRuntime(e)
  BY <1>5, SetRuntimeKeeps
<1>6. CASE \E e \in Editors, s \in Settings : UpdateRuntimeSettings(e, s)
  BY <1>1, <1>6, UpdateKeeps
<1>7. CASE RestartSettings
  BY <1>7, RestartSettingsKeeps
<1>8. QED
  BY <1>2, <1>3, <1>4, <1>5, <1>6, <1>7

(* The least and the greatest of a set of naturals.                        *)
LEMMA MinIs ==
    ASSUME NEW S \in SUBSET Nat, S # {}
    PROVE  Min(S) \in S /\ \A m \in S : Min(S) <= m
  BY LeastNatural DEF Min

LEMMA MaxIs ==
    ASSUME NEW S \in SUBSET Nat, IsFiniteSet(S), S # {}
    PROVE  Max(S) \in S /\ \A m \in S : m <= Max(S)
<1>1. PICK n \in S : \A m \in S : m <= n
  BY GreatestNatural
<1>2. \A m \in S : n >= m
  BY <1>1
<1>3. Max(S) \in S /\ \A m \in S : Max(S) >= m
  BY <1>2 DEF Max
<1>4. QED
  BY <1>3

\* The place of a number among those of a set.
Rank(S, k) == Cardinality({j \in S : j <= k})

(* The numbers of a finite set have the places from one to its size, each   *)
(* a place of its own.                                                     *)
LEMMA Ranks ==
    ASSUME NEW S \in SUBSET Int, IsFiniteSet(S)
    PROVE  /\ \A k \in S : Rank(S, k) \in 1..Cardinality(S)
           /\ \A k, l \in S : Rank(S, k) = Rank(S, l) => k = l
           /\ \A i \in 1..Cardinality(S) : \E k \in S : Rank(S, k) = i
<1>1. \A k \in S : IsFiniteSet({j \in S : j <= k}) /\ Rank(S, k) \in Nat /\ Rank(S, k) <= Cardinality(S)
  <2>1. ASSUME NEW k \in S
        PROVE  IsFiniteSet({j \in S : j <= k}) /\ Cardinality({j \in S : j <= k}) <= Cardinality(S)
    BY FS_Subset
  <2>2. QED
    BY <2>1, FS_CardinalityType DEF Rank
<1>2. Cardinality(S) \in Nat
  BY FS_CardinalityType
<1>3. ASSUME NEW k \in S PROVE Rank(S, k) # 0
  <2>1. k \in {j \in S : j <= k}
    OBVIOUS
  <2>2. QED
    BY <1>1, <2>1, FS_EmptySet DEF Rank
<1>4. \A k \in S : Rank(S, k) \in 1..Cardinality(S)
  <2>1. \A n, m \in Nat : n <= m /\ n # 0 => n \in 1..m
    OBVIOUS
  <2>2. QED
    BY <1>1, <1>2, <1>3, <2>1
<1>5. ASSUME NEW k \in S, NEW l \in S, k < l PROVE Rank(S, k) # Rank(S, l)
  <2>1. {j \in S : j <= k} \subseteq {j \in S : j <= l}
    <3>1. \A j \in S : j \in Int
      OBVIOUS
    <3>2. \A j \in S : j <= k => j <= l
      BY <1>5, <3>1
    <3>3. QED
      BY <3>2
  <2>2. l \in {j \in S : j <= l} /\ l \notin {j \in S : j <= k}
    BY <1>5
  <2>3. {j \in S : j <= k} # {j \in S : j <= l}
    BY <2>2
  <2>4. Cardinality({j \in S : j <= k}) = Cardinality({j \in S : j <= l})
           => {j \in S : j <= k} = {j \in S : j <= l}
    BY <1>1, <2>1, FS_Subset
  <2>5. QED
    BY <2>3, <2>4 DEF Rank
<1>6. \A k, l \in S : Rank(S, k) = Rank(S, l) => k = l
  <2>1. \A k, l \in S : k \in Int /\ l \in Int
    OBVIOUS
  <2>2. QED
    BY <1>5, <2>1
<1>7. \A i \in 1..Cardinality(S) : \E k \in S : Rank(S, k) = i
  <2> DEFINE f == [k \in S |-> Rank(S, k)]
             T == 1..Cardinality(S)
  <2>1. f \in Injection(S, T)
    <3>1. f \in [S -> T]
      BY <1>4
    <3>2. \A k, l \in S : f[k] = f[l] => k = l
      BY <1>6
    <3> HIDE DEF f, T
    <3>3. QED
      BY <3>1, <3>2 DEF Injection, IsInjective
  <2>2. IsFiniteSet(T) /\ Cardinality(T) = Cardinality(S)
    <3>1. 1 \in Int /\ Cardinality(S) \in Int
      BY <1>2
    <3>2. QED
      BY <1>2, <3>1, FS_Interval
  <2> HIDE DEF T
  <2>3. f \in Surjection(S, T)
    <3> HIDE DEF f
    <3> QED
      BY <2>1, <2>2, FS_Injection
  <2>4. \A i \in T : \E k \in S : f[k] = i
    BY <2>3 DEF Surjection
  <2>5. QED
    BY <2>4 DEF T
<1>8. QED
  BY <1>4, <1>6, <1>7
-----------------------------------------------------------------------------
(* Channels and their keys.                                                *)
ChannelRows == [name : Channels, mirror : KeyValues, enabled : BOOLEAN, archived : BOOLEAN, before : BOOLEAN]
KeyRows == [channel : Nat, value : KeyValues \ {""}, enabled : BOOLEAN]
ItemRecords == [edit : KeyWrites, archived : {"", "yes", "no"}, enabled : BOOLEAN]

RecordTables ==
    /\ lastIds \in [channel : Nat, key : Nat]
    /\ channels \in [DOMAIN channels -> ChannelRows] /\ DOMAIN channels \subseteq 1..lastIds.channel
    /\ keys \in [DOMAIN keys -> KeyRows] /\ DOMAIN keys \subseteq 1..lastIds.key
    /\ \A k \in DOMAIN keys : keys[k].channel \in DOMAIN channels
    /\ \A c, d \in DOMAIN channels : channels[c].name = channels[d].name => c = d

HandlerInv ==
    /\ handler.op \in {"none", "switch", "import", "down"}
    /\ handler.op = "switch" => handler.enabled \in BOOLEAN
    /\ handler.op = "import" => handler.item \in ItemRecords /\ handler.name \in Channels

MirrorsAgree == \A c \in DOMAIN channels : channels[c].mirror = MirrorOf(keys, c)

\* What an older build adds has no keys, and its mirror is all there is.
MirrorsInv == \A c \in DOMAIN channels : Up \/ KeysOf(c) # {} => channels[c].mirror = MirrorOf(keys, c)

RecordsInv == RecordTables /\ HandlerInv /\ MirrorsInv

\* What a write of channel c's keys may do to the table: its own rows.
OnlyOf(c, ks) ==
    /\ ks \in [DOMAIN ks -> KeyRows]
    /\ \E n \in Nat : DOMAIN ks \subseteq 1..(lastIds.key + n)
    /\ \A k \in DOMAIN ks : ks[k].channel = c \/ (k \in DOMAIN keys /\ ks[k] = keys[k])
    /\ \A k \in DOMAIN keys : keys[k].channel # c => k \in DOMAIN ks /\ ks[k] = keys[k]

(* Nothing is stored at first.                                             *)
LEMMA RecordsStart == RecordsInit => RecordsInv
<1> SUFFICES ASSUME RecordsInit PROVE RecordsInv
    OBVIOUS
<1>1. DOMAIN channels = {} /\ DOMAIN keys = {} /\ handler.op = "none"
  BY DEF RecordsInit, NoHandler
<1>2. lastIds \in [channel : Nat, key : Nat]
  BY DEF RecordsInit
<1>3. channels \in [DOMAIN channels -> ChannelRows] /\ keys \in [DOMAIN keys -> KeyRows]
  BY <1>1 DEF RecordsInit
<1>4. RecordTables
  BY <1>1, <1>2, <1>3 DEF RecordTables
<1>5. HandlerInv /\ MirrorsInv
  BY <1>1 DEF HandlerInv, MirrorsInv
<1>6. QED
  BY <1>4, <1>5 DEF RecordsInv

(* The mirror of a channel says nothing of the others' keys.               *)
LEMMA MirrorSame ==
    ASSUME NEW ks, NEW ls, NEW d,
           \A k \in DOMAIN ks : ks[k].channel = d => k \in DOMAIN ls /\ ls[k] = ks[k],
           \A k \in DOMAIN ls : ls[k].channel = d => k \in DOMAIN ks /\ ks[k] = ls[k],
           DOMAIN ks \subseteq Nat
    PROVE  MirrorOf(ks, d) = MirrorOf(ls, d)
<1> DEFINE E == {k \in DOMAIN ks : ks[k].channel = d /\ ks[k].enabled}
           F == {k \in DOMAIN ls : ls[k].channel = d /\ ls[k].enabled}
<1>1. E = F
  OBVIOUS
<1>2. E # {} => Min(E) \in E
  <2>1. E \in SUBSET Nat
    OBVIOUS
  <2> HIDE DEF E
  <2>2. QED
    BY <2>1, MinIs
<1>3. E # {} => ks[Min(E)] = ls[Min(F)]
  BY <1>1, <1>2
<1>4. MirrorOf(ks, d) = (IF E = {} THEN "" ELSE ks[Min(E)].value) /\ MirrorOf(ls, d) = (IF F = {} THEN "" ELSE ls[Min(F)].value)
  BY DEF MirrorOf
<1> HIDE DEF E, F
<1>5. CASE E = {}
  BY <1>1, <1>4, <1>5
<1>6. CASE E # {}
  BY <1>1, <1>3, <1>4, <1>6
<1>7. QED
  BY <1>5, <1>6

LEMMA MirrorType ==
    ASSUME NEW ks, NEW d, ks \in [DOMAIN ks -> KeyRows], DOMAIN ks \subseteq Nat
    PROVE  MirrorOf(ks, d) \in KeyValues
<1> DEFINE E == {k \in DOMAIN ks : ks[k].channel = d /\ ks[k].enabled}
<1>1. E # {} => Min(E) \in E
  <2>1. E \in SUBSET Nat
    OBVIOUS
  <2> HIDE DEF E
  <2>2. QED
    BY <2>1, MinIs
<1>2. E # {} => ks[Min(E)].value \in KeyValues
  BY <1>1 DEF KeyRows
<1>3. MirrorOf(ks, d) = IF E = {} THEN "" ELSE ks[Min(E)].value
  BY DEF MirrorOf
<1>4. "" \in KeyValues
  BY RecordsAssumption
<1> HIDE DEF E
<1>5. QED
  BY <1>2, <1>3, <1>4

(* A list of keys replaces the channel's, and touches no other's: no id it  *)
(* names is another channel's, and the ids it adds are new.                *)
LEMMA ReplacedIs ==
    ASSUME RecordTables, NEW c \in Nat, NEW listed \in Seq(ListedKeys), ~Refused(c, listed)
    PROVE  OnlyOf(c, Replaced(c, listed))
<1> DEFINE A == Added(listed)
           given == [k \in {listed[i].id : i \in DOMAIN listed} \cap DOMAIN keys |->
                       CHOOSE l \in {listed[i] : i \in DOMAIN listed} : l.id = k]
           added == [k \in {AddedId(listed, i) : i \in A} |->
                       listed[CHOOSE i \in A : AddedId(listed, i) = k]]
           ks == Replaced(c, listed)
<1>1. /\ lastIds.key \in Nat /\ DOMAIN keys \subseteq 1..lastIds.key
      /\ keys \in [DOMAIN keys -> KeyRows]
  BY DEF RecordTables
<1>2. Len(listed) \in Nat /\ DOMAIN listed = 1..Len(listed) /\ \A i \in DOMAIN listed : listed[i] \in ListedKeys
  OBVIOUS
<1>3. A \subseteq DOMAIN listed /\ \A i \in A : listed[i].id = 0 /\ listed[i].value # ""
  BY DEF Added
<1>4. A \in SUBSET Int /\ IsFiniteSet(A) /\ Cardinality(A) \in Nat
  <2>1. IsFiniteSet(1..Len(listed))
    <3>1. 1 \in Int /\ Len(listed) \in Int
      BY <1>2
    <3>2. QED
      BY <3>1, FS_Interval
  <2>2. IsFiniteSet(A)
    BY <1>2, <1>3, <2>1, FS_Subset
  <2> HIDE DEF A
  <2>3. A \in SUBSET Int
    <3>1. \A i \in DOMAIN listed : i \in Int
      BY <1>2
    <3>2. QED
      BY <1>3, <3>1
  <2>4. QED
    BY <2>2, <2>3, FS_CardinalityType
<1>5. \A i \in A : AddedId(listed, i) \in (lastIds.key + 1)..(lastIds.key + Cardinality(A))
  <2>1. \A i \in A : AddedId(listed, i) = lastIds.key + Rank(A, i) /\ Rank(A, i) \in 1..Cardinality(A)
    <3> HIDE DEF A
    <3>1. \A i \in A : Rank(A, i) \in 1..Cardinality(A)
      BY <1>4, Ranks
    <3>2. QED
      BY <3>1 DEF AddedId, Rank, A
  <2> HIDE DEF A
  <2>2. QED
    BY <1>1, <1>4, <2>1
<1>6. \A k \in DOMAIN added : k \notin DOMAIN keys /\ k \in 1..(lastIds.key + Cardinality(A))
  <2> HIDE DEF A
  <2>1. DOMAIN added = {AddedId(listed, i) : i \in A}
    OBVIOUS
  <2> HIDE DEF added
  <2>2. QED
    BY <1>1, <1>4, <1>5, <2>1
<1>7. \A k \in DOMAIN added : added[k] \in ListedKeys /\ added[k].value # ""
  <2>1. ASSUME NEW k \in DOMAIN added PROVE added[k] \in ListedKeys /\ added[k].value # ""
    <3> HIDE DEF A
    <3>1. \E i \in A : AddedId(listed, i) = k
      OBVIOUS
    <3>2. added[k] = listed[CHOOSE i \in A : AddedId(listed, i) = k]
      OBVIOUS
    <3> HIDE DEF added
    <3>3. \E i \in A : added[k] = listed[i]
      BY <3>1, <3>2
    <3>4. QED
      BY <1>2, <1>3, <3>3
  <2>2. QED
    BY <2>1
<1>8. \A k \in DOMAIN given : /\ k \in DOMAIN keys /\ k \in KeysOf(c)
                              /\ given[k] \in ListedKeys /\ given[k].id = k
  <2>1. ASSUME NEW k \in DOMAIN given
        PROVE  /\ k \in DOMAIN keys /\ k \in KeysOf(c)
               /\ given[k] \in ListedKeys /\ given[k].id = k
    <3>1. k \in DOMAIN keys /\ \E i \in DOMAIN listed : listed[i].id = k
      OBVIOUS
    <3>2. given[k] = CHOOSE l \in {listed[i] : i \in DOMAIN listed} : l.id = k
      OBVIOUS
    <3> HIDE DEF given
    <3>3. given[k] \in {listed[i] : i \in DOMAIN listed} /\ given[k].id = k
      BY <3>1, <3>2
    <3>4. k # 0
      BY <1>1, <3>1
    <3>5. k \in KeysOf(c)
      BY <3>1, <3>4 DEF Refused, Foreign
    <3>6. QED
      BY <1>2, <3>1, <3>3, <3>5
  <2>2. QED
    BY <2>1
<1>9. ks = [k \in (DOMAIN keys \ (KeysOf(c) \ DOMAIN given)) \cup DOMAIN added |->
              IF k \in DOMAIN added THEN [channel |-> c, value |-> added[k].value, enabled |-> added[k].enabled]
              ELSE IF k \in DOMAIN given
              THEN [keys[k] EXCEPT !.value = KeyValue(given[k]), !.enabled = given[k].enabled]
              ELSE keys[k]]
  BY DEF Replaced
<1> HIDE DEF given, added, A, ks
<1>10. DOMAIN ks = (DOMAIN keys \ (KeysOf(c) \ DOMAIN given)) \cup DOMAIN added
  BY <1>9
<1>11. ASSUME NEW k \in DOMAIN added PROVE k \in DOMAIN ks /\ ks[k] \in KeyRows /\ ks[k].channel = c
  <2>1. ks[k] = [channel |-> c, value |-> added[k].value, enabled |-> added[k].enabled]
    BY <1>9, <1>10, <1>11
  <2>2. added[k].value \in KeyValues \ {""} /\ added[k].enabled \in BOOLEAN
    BY <1>7, <1>11 DEF ListedKeys
  <2>3. k \in DOMAIN ks
    BY <1>10, <1>11
  <2>4. ks[k].channel = c
    BY <2>1
  <2>5. [channel |-> c, value |-> added[k].value, enabled |-> added[k].enabled] \in KeyRows
    BY <2>2 DEF KeyRows
  <2>6. QED
    BY <2>1, <2>3, <2>4, <2>5
<1>12. ASSUME NEW k \in DOMAIN given PROVE k \in DOMAIN ks /\ ks[k] \in KeyRows /\ ks[k].channel = c
  <2>1. k \notin DOMAIN added /\ k \in DOMAIN keys /\ keys[k] \in KeyRows /\ keys[k].channel = c
    BY <1>1, <1>6, <1>8, <1>12 DEF KeysOf
  <2>2. ks[k] = [keys[k] EXCEPT !.value = KeyValue(given[k]), !.enabled = given[k].enabled]
    BY <1>9, <1>10, <1>12, <2>1
  <2>3. KeyValue(given[k]) \in KeyValues \ {""} /\ given[k].enabled \in BOOLEAN
    BY <1>1, <1>8, <1>12, <2>1 DEF KeyValue, ListedKeys, KeyRows
  <2>4. QED
    BY <1>10, <1>12, <2>1, <2>2, <2>3 DEF KeyRows
<1>13. ASSUME NEW k \in DOMAIN ks, k \notin DOMAIN added, k \notin DOMAIN given
       PROVE  k \in DOMAIN keys /\ ks[k] = keys[k] /\ ks[k] \in KeyRows
  BY <1>1, <1>9, <1>10, <1>13
<1>14. \A k \in DOMAIN ks : ks[k] \in KeyRows /\ (ks[k].channel = c \/ (k \in DOMAIN keys /\ ks[k] = keys[k]))
  BY <1>11, <1>12, <1>13
<1>15. ASSUME NEW k \in DOMAIN keys, keys[k].channel # c PROVE k \in DOMAIN ks /\ ks[k] = keys[k]
  <2>1. k \notin KeysOf(c) /\ k \in DOMAIN ks
    BY <1>10, <1>15 DEF KeysOf
  <2>2. k \notin DOMAIN added /\ k \notin DOMAIN given
    BY <1>6, <1>8, <2>1
  <2>3. QED
    BY <1>13, <2>1, <2>2
<1>16. DOMAIN ks \subseteq 1..(lastIds.key + Cardinality(A))
  <2>1. ASSUME NEW k \in DOMAIN keys PROVE k \in 1..(lastIds.key + Cardinality(A))
    BY <1>1, <1>4, <2>1
  <2>2. QED
    BY <1>6, <1>10, <2>1
<1>17. ks \in [DOMAIN ks -> KeyRows]
  BY <1>9, <1>10, <1>14
<1>18. QED
  BY <1>4, <1>14, <1>15, <1>16, <1>17 DEF OnlyOf, ks

(* So does every other way to write them.                                  *)
LEMMA EditedIs ==
    ASSUME RecordTables, NEW c \in Nat, NEW edit \in KeyWrites, ~EditRefused(c, edit)
    PROVE  /\ OnlyOf(c, Edited(c, edit))
           /\ edit.kind = "keep" => Edited(c, edit) = keys
<1>1. /\ lastIds.key \in Nat /\ DOMAIN keys \subseteq 1..lastIds.key
      /\ keys \in [DOMAIN keys -> KeyRows]
  BY DEF RecordTables
<1>2. OnlyOf(c, keys)
  <2>1. DOMAIN keys \subseteq 1..(lastIds.key + 0) /\ 0 \in Nat
    BY <1>1
  <2>2. QED
    BY <1>1, <2>1 DEF OnlyOf
<1>3. CASE edit.kind = "keep"
  <2>1. Edited(c, edit) = keys
    BY <1>3 DEF Edited
  <2>2. QED
    BY <1>2, <2>1
<1>4. CASE edit.kind = "clear"
  <2>1. <<>> \in Seq(ListedKeys) /\ ~Refused(c, <<>>)
    BY DEF Refused, Foreign, Repeated
  <2>2. Edited(c, edit) = Replaced(c, <<>>)
    BY <1>4 DEF Edited
  <2>3. QED
    BY <1>4, <2>1, <2>2, ReplacedIs
<1>5. CASE edit.kind = "list"
  <2>1. edit.list \in Seq(ListedKeys) /\ ~Refused(c, edit.list)
    BY <1>5 DEF KeyWrites, EditRefused
  <2>2. Edited(c, edit) = Replaced(c, edit.list)
    BY <1>5 DEF Edited
  <2>3. QED
    BY <1>5, <2>1, <2>2, ReplacedIs
<1>6. CASE edit.kind = "legacy"
  <2>1. edit.value \in KeyValues
    BY <1>6 DEF KeyWrites
  <2>2. Edited(c, edit) = LegacySet(c, edit.value)
    BY <1>6 DEF Edited
  <2>3. CASE edit.value = ""
    BY <1>2, <1>6, <2>2, <2>3 DEF LegacySet
  <2>4. CASE edit.value # "" /\ KeysOf(c) = {}
    <3> DEFINE l == [id |-> 0, value |-> edit.value, enabled |-> TRUE]
    <3>1. l \in ListedKeys /\ l.id = 0
      BY <2>1 DEF ListedKeys
    <3> HIDE DEF l
    <3>2. <<l>> \in Seq(ListedKeys) /\ DOMAIN <<l>> = {1} /\ <<l>>[1] = l
      BY <3>1
    <3>3. ~Refused(c, <<l>>)
      BY <3>1, <3>2 DEF Refused, Foreign, Repeated
    <3>4. Edited(c, edit) = Replaced(c, <<l>>)
      BY <2>2, <2>4 DEF LegacySet, l
    <3>5. QED
      BY <1>6, <3>2, <3>3, <3>4, ReplacedIs
  <2>5. CASE edit.value # "" /\ KeysOf(c) # {}
    <3> DEFINE m == Min(KeysOf(c))
    <3>1. m \in KeysOf(c)
      <4>1. KeysOf(c) \in SUBSET Nat
        BY <1>1 DEF KeysOf
      <4>2. QED
        BY <2>5, <4>1, MinIs
    <3>2. Edited(c, edit) = [keys EXCEPT ![m].value = edit.value]
      BY <2>2, <2>5 DEF LegacySet
    <3> HIDE DEF m
    <3>3. m \in DOMAIN keys /\ keys[m].channel = c /\ keys[m] \in KeyRows
      BY <1>1, <3>1 DEF KeysOf
    <3> DEFINE ks == Edited(c, edit)
    <3>4. /\ DOMAIN ks = DOMAIN keys /\ ks[m] = [keys[m] EXCEPT !.value = edit.value]
          /\ \A k \in DOMAIN keys \ {m} : ks[k] = keys[k]
      BY <3>2, <3>3
    <3>5. ks[m] \in KeyRows /\ ks[m].channel = c
      BY <2>1, <2>5, <3>3, <3>4 DEF KeyRows
    <3>6. ks \in [DOMAIN ks -> KeyRows]
      <4>1. ks = [k \in DOMAIN keys |-> ks[k]]
        BY <3>2
      <4>2. \A k \in DOMAIN keys : ks[k] \in KeyRows
        BY <1>1, <3>4, <3>5
      <4> HIDE DEF ks
      <4>3. QED
        BY <3>4, <4>1, <4>2
    <3> HIDE DEF ks
    <3>7. DOMAIN ks \subseteq 1..(lastIds.key + 0) /\ 0 \in Nat
      BY <1>1, <3>4
    <3>8. OnlyOf(c, ks)
      BY <3>3, <3>4, <3>5, <3>6, <3>7 DEF OnlyOf
    <3>9. QED
      BY <1>6, <3>8 DEF ks
  <2>6. QED
    BY <2>3, <2>4, <2>5
<1>7. edit.kind \in {"keep", "clear", "list", "legacy"}
  BY DEF KeyWrites
<1>8. QED
  BY <1>3, <1>4, <1>5, <1>6, <1>7

(* Ids go on from the last one used.                                       *)
LEMMA LastKeyIdIs ==
    ASSUME RecordTables, NEW c, NEW ks, OnlyOf(c, ks)
    PROVE  /\ LastKeyId(ks) \in Nat /\ lastIds.key <= LastKeyId(ks)
           /\ DOMAIN ks \subseteq 1..LastKeyId(ks)
<1> DEFINE S == {lastIds.key} \cup DOMAIN ks
<1>1. lastIds.key \in Nat
  BY DEF RecordTables
<1>2. PICK n \in Nat : DOMAIN ks \subseteq 1..(lastIds.key + n)
  BY DEF OnlyOf
<1>3. S \in SUBSET Nat /\ S # {} /\ \A s \in S : s <= lastIds.key + n
  BY <1>1, <1>2
<1>4. IsFiniteSet(S)
  <2>1. lastIds.key + n \in Nat
    BY <1>1, <1>2
  <2> HIDE DEF S
  <2>2. QED
    BY <1>3, <2>1, FS_BoundedSetOfNaturals
<1>5. Max(S) \in S /\ \A s \in S : s <= Max(S)
  <2> HIDE DEF S
  <2>1. QED
    BY <1>3, <1>4, MaxIs
<1>6. LastKeyId(ks) = Max(S)
  BY DEF LastKeyId
<1>7. Max(S) \in Nat
  BY <1>3, <1>5
<1>8. \A s \in S : s <= Max(S)
  BY <1>5
<1>9. \A k \in DOMAIN ks : k \in Nat /\ k >= 1 /\ k <= Max(S)
  BY <1>1, <1>2, <1>8
<1> HIDE DEF S
<1>10. lastIds.key <= Max(S)
  BY <1>8 DEF S
<1>11. QED
  BY <1>6, <1>7, <1>9, <1>10

(* Archiving leaves a channel its name and its mirror.                     *)
LEMMA ArchiveIs ==
    ASSUME NEW r \in ChannelRows
    PROVE  /\ Archive(r) \in ChannelRows /\ Archive(r).name = r.name /\ Archive(r).mirror = r.mirror
           /\ Unarchive(r) \in ChannelRows /\ Unarchive(r).name = r.name /\ Unarchive(r).mirror = r.mirror
<1>1. /\ [r EXCEPT !.archived = TRUE, !.enabled = FALSE, !.before = r.enabled] \in ChannelRows
      /\ [r EXCEPT !.archived = FALSE, !.enabled = r.before, !.before = FALSE] \in ChannelRows
  BY DEF ChannelRows
<1>2. Archive(r) \in ChannelRows /\ Unarchive(r) \in ChannelRows
  BY <1>1 DEF Archive, Unarchive
<1>3. Archive(r).name = r.name /\ Archive(r).mirror = r.mirror
  BY DEF Archive, ChannelRows
<1>4. Unarchive(r).name = r.name /\ Unarchive(r).mirror = r.mirror
  BY DEF Unarchive, ChannelRows
<1>5. QED
  BY <1>2, <1>3, <1>4

(* One channel's row and keys are written, and the mirror with them.       *)
LEMMA RowWritten ==
    ASSUME RecordTables, MirrorsAgree,
           NEW c \in Nat, NEW r \in ChannelRows, NEW ks, OnlyOf(c, ks),
           keys' = ks, r.mirror = MirrorOf(ks, c),
           DOMAIN channels' = DOMAIN channels \cup {c}, channels' \in [DOMAIN channels' -> ChannelRows],
           channels'[c] = r, \A d \in DOMAIN channels \ {c} : channels'[d] = channels[d],
           lastIds' \in [channel : Nat, key : Nat], DOMAIN channels' \subseteq 1..lastIds'.channel,
           lastIds'.key = LastKeyId(ks),
           \A d \in DOMAIN channels \ {c} : channels[d].name # r.name
    PROVE  RecordTables' /\ MirrorsAgree'
<1>1. DOMAIN ks \subseteq 1..lastIds'.key /\ ks \in [DOMAIN ks -> KeyRows]
  BY LastKeyIdIs DEF OnlyOf
<1>2. \A k \in DOMAIN ks : ks[k].channel \in DOMAIN channels'
  BY DEF OnlyOf, RecordTables
<1>3. \A d, e \in DOMAIN channels' : channels'[d].name = channels'[e].name => d = e
  BY DEF RecordTables
<1>4. RecordTables'
  BY <1>1, <1>2, <1>3 DEF RecordTables
<1>5. ASSUME NEW d \in DOMAIN channels \ {c} PROVE MirrorOf(ks, d) = MirrorOf(keys, d)
  <2>1. /\ \A k \in DOMAIN ks : ks[k].channel = d => k \in DOMAIN keys /\ keys[k] = ks[k]
        /\ \A k \in DOMAIN keys : keys[k].channel = d => k \in DOMAIN ks /\ ks[k] = keys[k]
    BY <1>5 DEF OnlyOf
  <2>2. DOMAIN ks \subseteq Nat
    BY <1>1
  <2>3. QED
    BY <2>1, <2>2, MirrorSame
<1>6. ASSUME NEW d \in DOMAIN channels' PROVE channels'[d].mirror = MirrorOf(ks, d)
  BY <1>5, <1>6 DEF MirrorsAgree
<1>7. MirrorsAgree'
  BY <1>6 DEF MirrorsAgree
<1>8. QED
  BY <1>4, <1>7

(* A channel is saved.                                                     *)
LEMMA WriteKeeps ==
    ASSUME RecordTables, MirrorsAgree, NEW c, NEW edit \in KeyWrites, NEW archived, NEW enabled \in BOOLEAN,
           Write(c, edit, archived, enabled)
    PROVE  RecordTables' /\ MirrorsAgree'
<1> DEFINE old == channels[c]
           shown == IF archived = "no" THEN Unarchive(old) ELSE old
           mirror == IF edit.kind = "keep" THEN shown.mirror ELSE MirrorOf(Edited(c, edit), c)
           saved == [shown EXCEPT !.enabled = ~shown.archived /\ enabled, !.mirror = mirror]
           r == IF archived = "yes" THEN Archive(saved) ELSE saved
           ks == Edited(c, edit)
<1>1. c \in DOMAIN channels /\ c \in Nat /\ old \in ChannelRows /\ ~EditRefused(c, edit)
  BY DEF Write, RecordTables
<1>2. shown \in ChannelRows /\ shown.name = old.name /\ shown.mirror = old.mirror
  BY <1>1, ArchiveIs
<1>3. OnlyOf(c, ks) /\ (edit.kind = "keep" => ks = keys)
  BY <1>1, EditedIs
<1>4. mirror = MirrorOf(ks, c)
  BY <1>1, <1>2, <1>3 DEF MirrorsAgree
<1>5. mirror \in KeyValues
  <2>1. ks \in [DOMAIN ks -> KeyRows] /\ DOMAIN ks \subseteq Nat
    BY <1>3, LastKeyIdIs DEF OnlyOf
  <2> HIDE DEF ks, mirror
  <2>2. QED
    BY <1>4, <2>1, MirrorType
<1>6. keys' = ks /\ lastIds' = [lastIds EXCEPT !.key = LastKeyId(ks)]
  BY DEF Write
<1>7. channels' = [channels EXCEPT ![c] = r]
  <2>1. saved = [shown EXCEPT !.enabled = ~shown.archived /\ enabled,
                              !.mirror = IF edit.kind = "keep" THEN @ ELSE MirrorOf(Edited(c, edit), c)]
    OBVIOUS
  <2>2. QED
    BY <2>1 DEF Write
<1> HIDE DEF mirror, shown, ks
<1>8. saved \in ChannelRows /\ saved.name = old.name /\ saved.mirror = mirror
  BY <1>2, <1>5 DEF ChannelRows
<1> HIDE DEF saved
<1>9. r \in ChannelRows /\ r.name = old.name /\ r.mirror = mirror
  BY <1>8, ArchiveIs
<1> HIDE DEF r
<1>10. /\ DOMAIN channels' = DOMAIN channels \cup {c} /\ channels' \in [DOMAIN channels' -> ChannelRows]
       /\ channels'[c] = r /\ \A d \in DOMAIN channels \ {c} : channels'[d] = channels[d]
  BY <1>1, <1>7, <1>9 DEF RecordTables
<1>11. LastKeyId(ks) \in Nat
  BY <1>3, LastKeyIdIs
<1>12. /\ lastIds' \in [channel : Nat, key : Nat] /\ lastIds'.channel = lastIds.channel
       /\ lastIds'.key = LastKeyId(ks)
  BY <1>6, <1>11 DEF RecordTables
<1>13. DOMAIN channels' \subseteq 1..lastIds'.channel
  BY <1>1, <1>10, <1>12 DEF RecordTables
<1>14. \A d \in DOMAIN channels \ {c} : channels[d].name # r.name
  BY <1>1, <1>9 DEF RecordTables
<1>15. QED
  BY <1>1, <1>3, <1>4, <1>6, <1>9, <1>10, <1>12, <1>13, <1>14, RowWritten

(* A channel is added.                                                     *)
LEMMA InsertKeeps ==
    ASSUME RecordTables, MirrorsAgree, NEW n \in Channels, NEW edit \in KeyWrites, NEW archived,
           NEW enabled \in BOOLEAN, Insert(n, edit, archived, enabled)
    PROVE  RecordTables' /\ MirrorsAgree'
<1> DEFINE c == lastIds.channel + 1
           ks == Edited(c, edit)
           new == [name |-> n, mirror |-> MirrorOf(ks, c),
                   enabled |-> enabled, archived |-> FALSE, before |-> FALSE]
           r == IF archived = "yes" THEN Archive(new) ELSE new
<1>1. lastIds.channel \in Nat /\ c \in Nat /\ c \notin DOMAIN channels /\ ~EditRefused(c, edit)
  BY DEF Insert, RecordTables
<1>2. OnlyOf(c, ks)
  BY <1>1, EditedIs
<1>3. MirrorOf(ks, c) \in KeyValues
  <2>1. ks \in [DOMAIN ks -> KeyRows] /\ DOMAIN ks \subseteq Nat
    BY <1>2, LastKeyIdIs DEF OnlyOf
  <2> HIDE DEF ks, c
  <2>2. QED
    BY <2>1, MirrorType
<1>4. keys' = ks /\ lastIds' = [channel |-> c, key |-> LastKeyId(ks)] /\ Named(n) = {}
  BY DEF Insert
<1>5. channels' = [d \in DOMAIN channels \cup {c} |-> IF d \in DOMAIN channels THEN channels[d] ELSE r]
  BY DEF Insert
<1> HIDE DEF ks
<1>6. new \in ChannelRows /\ new.name = n /\ new.mirror = MirrorOf(ks, c)
  BY <1>3 DEF ChannelRows
<1> HIDE DEF new
<1>7. r \in ChannelRows /\ r.name = n /\ r.mirror = MirrorOf(ks, c)
  BY <1>6, ArchiveIs
<1> HIDE DEF r
<1>8. /\ DOMAIN channels' = DOMAIN channels \cup {c} /\ channels'[c] = r
      /\ \A d \in DOMAIN channels \ {c} : channels'[d] = channels[d]
  BY <1>1, <1>5
<1>9. channels' \in [DOMAIN channels' -> ChannelRows]
  BY <1>1, <1>5, <1>7 DEF RecordTables
<1>10. LastKeyId(ks) \in Nat
  BY <1>2, LastKeyIdIs
<1>11. /\ lastIds' \in [channel : Nat, key : Nat] /\ lastIds'.channel = c /\ lastIds'.key = LastKeyId(ks)
  BY <1>1, <1>4, <1>10
<1>12. DOMAIN channels' \subseteq 1..lastIds'.channel
  BY <1>1, <1>8, <1>11 DEF RecordTables
<1>13. \A d \in DOMAIN channels \ {c} : channels[d].name # r.name
  BY <1>4, <1>7 DEF Named
<1> HIDE DEF c
<1>14. QED
  BY <1>1, <1>2, <1>4, <1>7, <1>8, <1>9, <1>11, <1>12, <1>13, RowWritten

(* While the process is up every mirror is in step.                        *)
LEMMA UpAgrees == RecordsInv /\ Up => MirrorsAgree
  BY DEF RecordsInv, MirrorsInv, MirrorsAgree

LEMMA AgreeingKeeps ==
    ASSUME RecordTables', MirrorsAgree', HandlerInv'
    PROVE  RecordsInv'
  BY DEF RecordsInv, MirrorsInv, MirrorsAgree

(* Writes by name or id, while the process is up.                          *)
LEMMA HandlersWrite ==
    ASSUME RecordsInv, NEW edit \in KeyEdits, NEW s \in Switches,
           \/ \E c \in DOMAIN channels : UpdateUpstream(c, edit, s[1], s[2])
           \/ \E n \in Channels : CreateUpstream(n, edit, s[1], s[2])
    PROVE  RecordsInv'
<1>1. edit \in KeyWrites /\ s[2] \in BOOLEAN
  BY RecordsAssumption
<1>2. RecordTables /\ MirrorsAgree /\ handler' = handler
  BY UpAgrees DEF RecordsInv, UpdateUpstream, CreateUpstream
<1>3. RecordTables' /\ MirrorsAgree'
  <2>1. ASSUME NEW c \in DOMAIN channels, UpdateUpstream(c, edit, s[1], s[2]) PROVE RecordTables' /\ MirrorsAgree'
    <3>1. Write(c, edit, s[1], s[2])
      BY <2>1 DEF UpdateUpstream
    <3>2. QED
      BY <1>1, <1>2, <3>1, WriteKeeps
  <2>2. ASSUME NEW n \in Channels, CreateUpstream(n, edit, s[1], s[2]) PROVE RecordTables' /\ MirrorsAgree'
    <3>1. Insert(n, edit, s[1], s[2])
      BY <2>2 DEF CreateUpstream
    <3>2. QED
      BY <1>1, <1>2, <3>1, InsertKeeps
  <2>3. QED
    BY <2>1, <2>2
<1>4. HandlerInv'
  BY <1>2 DEF RecordsInv, HandlerInv
<1>5. QED
  BY <1>3, <1>4, AgreeingKeeps

(* A channel's own flags change, whatever its keys.                        *)
LEMMA FlagsChange ==
    ASSUME RecordTables, MirrorsAgree, keys' = keys, lastIds' = lastIds,
           DOMAIN channels' = DOMAIN channels, channels' \in [DOMAIN channels' -> ChannelRows],
           \A c \in DOMAIN channels : channels'[c].name = channels[c].name /\ channels'[c].mirror = channels[c].mirror
    PROVE  RecordTables' /\ MirrorsAgree'
<1>1. RecordTables'
  BY DEF RecordTables
<1>2. MirrorsAgree'
  BY DEF MirrorsAgree
<1>3. QED
  BY <1>1, <1>2

LEMMA ArchivedKeeps ==
    ASSUME RecordsInv, NEW c, NEW on, SetUpstreamArchived(c, on)
    PROVE  RecordsInv'
<1> DEFINE r == IF on THEN Archive(channels[c]) ELSE Unarchive(channels[c])
<1>1. /\ c \in DOMAIN channels /\ channels[c] \in ChannelRows /\ keys' = keys /\ lastIds' = lastIds
      /\ handler' = handler /\ RecordTables /\ MirrorsAgree /\ channels \in [DOMAIN channels -> ChannelRows]
  BY UpAgrees DEF SetUpstreamArchived, RecordsInv, RecordTables
<1>2. r \in ChannelRows /\ r.name = channels[c].name /\ r.mirror = channels[c].mirror
  BY <1>1, ArchiveIs
<1>3. channels' = [channels EXCEPT ![c] = r]
  BY DEF SetUpstreamArchived
<1> HIDE DEF r
<1>4. DOMAIN channels' = DOMAIN channels /\ channels' \in [DOMAIN channels' -> ChannelRows]
  BY <1>1, <1>2, <1>3
<1>5. \A d \in DOMAIN channels : channels'[d].name = channels[d].name /\ channels'[d].mirror = channels[d].mirror
  BY <1>1, <1>2, <1>3
<1>6. HandlerInv'
  BY <1>1 DEF RecordsInv, HandlerInv
<1>7. QED
  BY <1>1, <1>4, <1>5, <1>6, FlagsChange, AgreeingKeeps

LEMMA SwitchKeeps ==
    ASSUME RecordsInv, SetUpstreamEnabled
    PROVE  RecordsInv'
<1>1. /\ handler.enabled \in BOOLEAN /\ keys' = keys /\ lastIds' = lastIds /\ handler' = NoHandler
      /\ RecordTables /\ MirrorsAgree /\ channels \in [DOMAIN channels -> ChannelRows]
  BY UpAgrees DEF SetUpstreamEnabled, RecordsInv, HandlerInv, RecordTables, Up
<1>2. channels' = [c \in DOMAIN channels |->
         IF c = handler.channel THEN [channels[c] EXCEPT !.enabled = handler.enabled] ELSE channels[c]]
  BY DEF SetUpstreamEnabled
<1>3. ASSUME NEW c \in DOMAIN channels
      PROVE  /\ channels'[c] \in ChannelRows
             /\ channels'[c].name = channels[c].name /\ channels'[c].mirror = channels[c].mirror
  <2>1. channels[c] \in ChannelRows
    BY <1>1
  <2>2. [channels[c] EXCEPT !.enabled = handler.enabled] \in ChannelRows
    BY <1>1, <2>1 DEF ChannelRows
  <2>3. /\ [channels[c] EXCEPT !.enabled = handler.enabled].name = channels[c].name
        /\ [channels[c] EXCEPT !.enabled = handler.enabled].mirror = channels[c].mirror
    BY <2>1 DEF ChannelRows
  <2>4. channels'[c] \in {channels[c], [channels[c] EXCEPT !.enabled = handler.enabled]}
    BY <1>2
  <2>5. QED
    BY <2>1, <2>2, <2>3, <2>4
<1>4. DOMAIN channels' = DOMAIN channels /\ channels' \in [DOMAIN channels' -> ChannelRows]
  BY <1>2, <1>3
<1>5. HandlerInv'
  BY <1>1 DEF HandlerInv, NoHandler
<1>6. QED
  BY <1>1, <1>3, <1>4, <1>5, FlagsChange, AgreeingKeeps

(* A channel goes with its keys.                                           *)
LEMMA DeleteUpstreamKeeps ==
    ASSUME RecordsInv, NEW c, DeleteUpstream(c)
    PROVE  RecordsInv'
<1>1. /\ RecordTables /\ MirrorsAgree /\ handler' = handler /\ lastIds' = lastIds /\ c \in DOMAIN channels
      /\ channels' = [d \in DOMAIN channels \ {c} |-> channels[d]]
      /\ keys' = [k \in DOMAIN keys \ KeysOf(c) |-> keys[k]]
  BY UpAgrees DEF DeleteUpstream, RecordsInv
<1>2. /\ DOMAIN channels' = DOMAIN channels \ {c} /\ \A d \in DOMAIN channels' : channels'[d] = channels[d]
      /\ DOMAIN keys' = DOMAIN keys \ KeysOf(c) /\ \A k \in DOMAIN keys' : keys'[k] = keys[k]
  BY <1>1
<1>3. \A k \in DOMAIN keys : k \in DOMAIN keys' <=> keys[k].channel # c
  BY <1>2 DEF KeysOf
<1>4. channels' \in [DOMAIN channels' -> ChannelRows] /\ keys' \in [DOMAIN keys' -> KeyRows]
  BY <1>1, <1>2 DEF RecordTables
<1>5. RecordTables'
  BY <1>1, <1>2, <1>3, <1>4 DEF RecordTables
<1>6. ASSUME NEW d \in DOMAIN channels' PROVE MirrorOf(keys', d) = MirrorOf(keys, d)
  <2>1. d # c /\ DOMAIN keys' \subseteq Nat
    BY <1>1, <1>2, <1>6 DEF RecordTables
  <2>2. \A k \in DOMAIN keys' : keys'[k].channel = d => k \in DOMAIN keys /\ keys[k] = keys'[k]
    BY <1>2
  <2>3. \A k \in DOMAIN keys : keys[k].channel = d => k \in DOMAIN keys' /\ keys'[k] = keys[k]
    BY <1>2, <1>3, <2>1
  <2>4. QED
    BY <2>1, <2>2, <2>3, MirrorSame
<1>7. MirrorsAgree'
  BY <1>1, <1>2, <1>6 DEF MirrorsAgree
<1>8. HandlerInv'
  BY <1>1 DEF RecordsInv, HandlerInv
<1>9. QED
  BY <1>5, <1>7, <1>8, AgreeingKeeps

(* What an export says of a channel is an item an import takes.            *)
LEMMA DocumentIs ==
    ASSUME RecordTables, NEW c \in DOMAIN channels
    PROVE  Document(c) \in ItemRecords
<1> DEFINE K == KeysOf(c)
           nth(i) == CHOOSE k \in K : Cardinality({j \in K : j <= k}) = i
           item(i) == [id |-> 0, value |-> keys[nth(i)].value, enabled |-> keys[nth(i)].enabled]
           listed == [i \in 1..Cardinality(K) |-> item(i)]
           edit == IF K = {} THEN [kind |-> "keep"] ELSE [kind |-> "list", list |-> listed]
<1>1. K \subseteq DOMAIN keys /\ DOMAIN keys \subseteq 1..lastIds.key /\ lastIds.key \in Nat
  BY DEF RecordTables, KeysOf
<1>2. K \in SUBSET Int /\ IsFiniteSet(K) /\ Cardinality(K) \in Nat
  <2>1. K \in SUBSET Nat /\ \A k \in K : k <= lastIds.key
    BY <1>1
  <2> HIDE DEF K
  <2>2. IsFiniteSet(K)
    BY <1>1, <2>1, FS_BoundedSetOfNaturals
  <2>3. QED
    BY <2>1, <2>2, FS_CardinalityType
<1>3. ASSUME NEW i \in 1..Cardinality(K) PROVE item(i) \in ListedKeys
  <2> HIDE DEF K
  <2>1. \E k \in K : Cardinality({j \in K : j <= k}) = i
    BY <1>2, Ranks DEF Rank
  <2>2. nth(i) \in K
    BY <2>1
  <2> HIDE DEF nth
  <2>3. keys[nth(i)] \in KeyRows
    BY <1>1, <2>2 DEF RecordTables
  <2>4. keys[nth(i)].value \in KeyValues /\ keys[nth(i)].enabled \in BOOLEAN
    BY <2>3 DEF KeyRows
  <2>5. item(i).id = 0 /\ item(i).value = keys[nth(i)].value /\ item(i).enabled = keys[nth(i)].enabled
    OBVIOUS
  <2>6. QED
    BY <2>4 DEF ListedKeys
<1>4. listed \in Seq(ListedKeys)
  <2> HIDE DEF item, K
  <2>1. QED
    BY <1>2, <1>3
<1>5. edit \in KeyWrites
  <2> HIDE DEF listed, K
  <2>1. [kind |-> "keep"] \in KeyWrites /\ [kind |-> "list", list |-> listed] \in KeyWrites
    BY <1>4 DEF KeyWrites
  <2>2. QED
    BY <2>1
<1>6. channels[c] \in ChannelRows
  BY DEF RecordTables
<1>7. Document(c) = [edit |-> edit, archived |-> IF channels[c].archived THEN "yes" ELSE "no",
                     enabled |-> IF channels[c].archived THEN channels[c].before ELSE channels[c].enabled]
  BY DEF Document
<1> HIDE DEF edit
<1>8. (IF channels[c].archived THEN channels[c].before ELSE channels[c].enabled) \in BOOLEAN
  BY <1>6 DEF ChannelRows
<1>9. QED
  BY <1>5, <1>7, <1>8 DEF ItemRecords

(* Looking writes nothing.                                                 *)
LEMMA LooksKeep ==
    ASSUME RecordsInv,
           \/ \E c \in DOMAIN channels, on \in BOOLEAN : LookToSwitch(c, on)
           \/ \E n \in Channels, item \in Items, mode \in {"skip", "overwrite"} : LookToImport(n, item, mode)
    PROVE  RecordsInv'
<1>1. /\ Up /\ channels' = channels /\ keys' = keys /\ lastIds' = lastIds
  BY DEF LookToSwitch, LookToImport, Up
<1>2. RecordTables' /\ MirrorsAgree'
  BY <1>1, UpAgrees DEF RecordsInv, RecordTables, MirrorsAgree
<1>3. HandlerInv'
  <2>1. ASSUME NEW c \in DOMAIN channels, NEW on \in BOOLEAN, LookToSwitch(c, on) PROVE HandlerInv'
    <3>1. handler' = [op |-> "switch", channel |-> c, enabled |-> on]
      BY <2>1 DEF LookToSwitch
    <3>2. handler'.op = "switch" /\ handler'.enabled = on
      BY <3>1
    <3>3. QED
      BY <2>1, <3>2 DEF HandlerInv
  <2>2. ASSUME NEW n \in Channels, NEW item \in Items, NEW mode, LookToImport(n, item, mode) PROVE HandlerInv'
    <3>1. handler' = [op |-> "import", name |-> n, found |-> Named(n), item |-> item]
      BY <2>2 DEF LookToImport
    <3>2. item \in ItemRecords
      BY <2>2, DocumentIs DEF Items, RecordsInv
    <3>3. handler'.op = "import" /\ handler'.item = item /\ handler'.name = n
      BY <3>1
    <3>4. QED
      BY <2>2, <3>2, <3>3 DEF HandlerInv
  <2>3. QED
    BY <2>1, <2>2
<1>4. QED
  BY <1>2, <1>3, AgreeingKeeps

LEMMA ImportItemKeeps ==
    ASSUME RecordsInv, ImportItem
    PROVE  RecordsInv'
<1>1. /\ handler.op = "import" /\ handler' = NoHandler
      /\ handler.item \in ItemRecords /\ handler.name \in Channels
      /\ RecordTables /\ MirrorsAgree
  BY UpAgrees DEF ImportItem, RecordsInv, HandlerInv, Up
<1>2. handler.item.edit \in KeyWrites /\ handler.item.enabled \in BOOLEAN
  BY <1>1 DEF ItemRecords
<1>3. \/ \E c \in handler.found : Write(c, handler.item.edit, handler.item.archived, handler.item.enabled)
      \/ Insert(handler.name, handler.item.edit, handler.item.archived, handler.item.enabled)
      \/ UNCHANGED <<channels, keys, lastIds>>
  BY DEF ImportItem
<1>4. RecordTables' /\ MirrorsAgree'
  <2>1. CASE \E c \in handler.found : Write(c, handler.item.edit, handler.item.archived, handler.item.enabled)
    BY <1>1, <1>2, <2>1, WriteKeeps
  <2>2. CASE Insert(handler.name, handler.item.edit, handler.item.archived, handler.item.enabled)
    BY <1>1, <1>2, <2>2, InsertKeeps
  <2>3. CASE UNCHANGED <<channels, keys, lastIds>>
    BY <1>1, <2>3 DEF RecordTables, MirrorsAgree
  <2>4. QED
    BY <1>3, <2>1, <2>2, <2>3
<1>5. HandlerInv'
  BY <1>1 DEF HandlerInv, NoHandler
<1>6. QED
  BY <1>4, <1>5, AgreeingKeeps

(* A rollback: an older build adds channels without keys...                *)
LEMMA StopKeeps ==
    ASSUME RecordsInv, StopForRollback
    PROVE  RecordsInv'
<1>1. handler'.op = "down" /\ channels' = channels /\ keys' = keys /\ lastIds' = lastIds
  BY DEF StopForRollback
<1>2. RecordTables' /\ MirrorsAgree'
  BY <1>1, UpAgrees DEF StopForRollback, RecordsInv, RecordTables, MirrorsAgree
<1>3. HandlerInv'
  BY <1>1 DEF HandlerInv
<1>4. QED
  BY <1>2, <1>3, AgreeingKeeps

LEMMA OlderBuildKeeps ==
    ASSUME RecordsInv, NEW n \in Channels, NEW value \in KeyValues, OlderBuildAdds(n, value)
    PROVE  RecordsInv'
<1> DEFINE c == lastIds.channel + 1
           new == [name |-> n, mirror |-> value, enabled |-> TRUE, archived |-> FALSE, before |-> FALSE]
<1>1. /\ RecordTables /\ HandlerInv /\ MirrorsInv /\ handler' = handler /\ handler.op = "down" /\ Named(n) = {}
      /\ channels' = [d \in DOMAIN channels \cup {c} |-> IF d \in DOMAIN channels THEN channels[d] ELSE new]
      /\ lastIds' = [lastIds EXCEPT !.channel = c] /\ keys' = keys
  BY DEF OlderBuildAdds, RecordsInv
<1>2. lastIds.channel \in Nat /\ c \in Nat /\ c \notin DOMAIN channels
  BY <1>1 DEF RecordTables
<1>3. new \in ChannelRows /\ new.name = n
  BY DEF ChannelRows
<1> HIDE DEF new
<1>4. /\ DOMAIN channels' = DOMAIN channels \cup {c} /\ channels'[c] = new
      /\ \A d \in DOMAIN channels : channels'[d] = channels[d]
  BY <1>1, <1>2
<1>5. channels' \in [DOMAIN channels' -> ChannelRows]
  BY <1>1, <1>3 DEF RecordTables
<1>6. lastIds' \in [channel : Nat, key : Nat] /\ lastIds'.channel = c /\ lastIds'.key = lastIds.key
  BY <1>1, <1>2 DEF RecordTables
<1>7. DOMAIN channels' \subseteq 1..lastIds'.channel
  BY <1>1, <1>2, <1>4, <1>6 DEF RecordTables
<1>8. \A d, e \in DOMAIN channels' : channels'[d].name = channels'[e].name => d = e
  BY <1>1, <1>3, <1>4 DEF RecordTables, Named
<1>9. RecordTables'
  BY <1>1, <1>4, <1>5, <1>6, <1>7, <1>8 DEF RecordTables
<1>10. HandlerInv'
  BY <1>1 DEF HandlerInv
<1>11. MirrorsInv'
  <2>1. ~Up'
    BY <1>1 DEF Up
  <2>2. \A k \in DOMAIN keys : keys[k].channel # c
    BY <1>1, <1>2 DEF RecordTables
  <2>3. \A d \in DOMAIN channels' : KeysOf(d)' # {} => d \in DOMAIN channels /\ KeysOf(d) # {}
    BY <1>1, <1>4, <2>2 DEF KeysOf
  <2>4. QED
    BY <1>1, <1>4, <2>1, <2>3 DEF MirrorsInv
<1>12. QED
  BY <1>9, <1>10, <1>11 DEF RecordsInv

(* ... and the next start makes its mirror its first key.                  *)
LEMMA MigrateKeeps ==
    ASSUME RecordsInv, MigrateUpstreamKeys
    PROVE  RecordsInv'
<1> DEFINE bare == {c \in DOMAIN channels : channels[c].mirror # "" /\ KeysOf(c) = {}}
           id(c) == lastIds.key + Cardinality({d \in bare : d <= c})
           of(k) == CHOOSE d \in bare : id(d) = k
           added == {id(c) : c \in bare}
           n == Cardinality(bare)
<1>1. /\ RecordTables /\ MirrorsInv /\ handler' = NoHandler /\ channels' = channels
      /\ lastIds' = [lastIds EXCEPT !.key = lastIds.key + n]
      /\ keys' = [k \in DOMAIN keys \cup added |->
            IF k \in DOMAIN keys THEN keys[k] ELSE [channel |-> of(k), value |-> channels[of(k)].mirror, enabled |-> TRUE]]
  BY DEF MigrateUpstreamKeys, RecordsInv
<1>2. /\ lastIds.key \in Nat /\ lastIds.channel \in Nat /\ DOMAIN channels \subseteq 1..lastIds.channel
      /\ DOMAIN keys \subseteq 1..lastIds.key /\ keys \in [DOMAIN keys -> KeyRows]
      /\ channels \in [DOMAIN channels -> ChannelRows]
  BY <1>1 DEF RecordTables
<1>3. bare \in SUBSET DOMAIN channels /\ \A c \in bare : channels[c].mirror # "" /\ KeysOf(c) = {}
  OBVIOUS
<1>4. \A c \in DOMAIN channels \ bare : channels[c].mirror = "" \/ KeysOf(c) # {}
  OBVIOUS
<1> HIDE DEF bare
<1>5. bare \in SUBSET Int /\ IsFiniteSet(bare) /\ n \in Nat
  <2>1. bare \in SUBSET Nat /\ \A c \in bare : c <= lastIds.channel
    <3>1. \A c \in DOMAIN channels : c \in Nat /\ c <= lastIds.channel
      BY <1>2
    <3>2. \A c \in bare : c \in DOMAIN channels
      BY <1>3
    <3>3. QED
      BY <3>1, <3>2
  <2>2. IsFiniteSet(bare)
    BY <1>2, <2>1, FS_BoundedSetOfNaturals
  <2>3. QED
    BY <2>1, <2>2, FS_CardinalityType
<1>6. \A c \in bare : id(c) = lastIds.key + Rank(bare, c) /\ Rank(bare, c) \in 1..n
  BY <1>5, Ranks DEF Rank
<1>7. \A c, d \in bare : id(c) = id(d) => c = d
  <2>1. \A c, d \in bare : Rank(bare, c) = Rank(bare, d) => c = d
    BY <1>5, Ranks
  <2> HIDE DEF id
  <2>2. QED
    BY <1>2, <1>5, <1>6, <2>1
<1> HIDE DEF id, n
<1>8. \A c \in bare : id(c) \in (lastIds.key + 1)..(lastIds.key + n) /\ of(id(c)) = c
  <2>1. \A c \in bare : id(c) \in (lastIds.key + 1)..(lastIds.key + n)
    BY <1>2, <1>5, <1>6
  <2>2. QED
    BY <1>7, <2>1
<1>9. \A k \in added : of(k) \in bare /\ k \notin DOMAIN keys /\ k \in 1..(lastIds.key + n)
  <2> HIDE DEF of
  <2>1. \A k \in added : \E c \in bare : k = id(c)
    OBVIOUS
  <2> HIDE DEF added
  <2>2. QED
    BY <1>2, <1>5, <1>8, <2>1
<1>10. \A c \in bare : id(c) \in added
  OBVIOUS
<1> HIDE DEF of, added
<1>11. /\ DOMAIN keys' = DOMAIN keys \cup added
       /\ \A k \in DOMAIN keys : keys'[k] = keys[k]
       /\ \A k \in added : keys'[k] = [channel |-> of(k), value |-> channels[of(k)].mirror, enabled |-> TRUE]
  BY <1>1, <1>9
<1>12. \A k \in added : /\ keys'[k] \in KeyRows /\ keys'[k].channel = of(k) /\ keys'[k].enabled
                        /\ keys'[k].value = channels[of(k)].mirror
  <2>1. ASSUME NEW k \in added PROVE keys'[k] \in KeyRows
    <3>1. of(k) \in DOMAIN channels /\ channels[of(k)].mirror # "" /\ channels[of(k)] \in ChannelRows
      BY <1>2, <1>3, <1>9
    <3>2. of(k) \in Nat
      <4>1. \A c \in DOMAIN channels : c \in Nat
        BY <1>2
      <4>2. QED
        BY <3>1, <4>1
    <3>3. channels[of(k)].mirror \in KeyValues \ {""}
      BY <3>1 DEF ChannelRows
    <3>4. [channel |-> of(k), value |-> channels[of(k)].mirror, enabled |-> TRUE] \in KeyRows
      BY <3>2, <3>3 DEF KeyRows
    <3>5. QED
      BY <1>11, <3>4
  <2>2. QED
    BY <1>11, <2>1
<1>13. RecordTables'
  <2>1. lastIds' \in [channel : Nat, key : Nat] /\ lastIds'.channel = lastIds.channel /\ lastIds'.key = lastIds.key + n
    BY <1>1, <1>2, <1>5 DEF RecordTables
  <2>2. DOMAIN keys' \subseteq 1..lastIds'.key
    <3>1. \A k \in DOMAIN keys : k \in 1..(lastIds.key + n)
      BY <1>2, <1>5
    <3>2. QED
      BY <1>9, <1>11, <2>1, <3>1
  <2>3. keys' \in [DOMAIN keys' -> KeyRows]
    <3>1. \A k \in DOMAIN keys' : keys'[k] \in KeyRows
      BY <1>2, <1>11, <1>12
    <3>2. keys' = [k \in DOMAIN keys' |-> keys'[k]]
      BY <1>1
    <3>3. QED
      BY <3>1, <3>2
  <2>4. \A k \in DOMAIN keys' : keys'[k].channel \in DOMAIN channels
    BY <1>1, <1>3, <1>9, <1>11, <1>12 DEF RecordTables
  <2>5. QED
    BY <1>1, <2>1, <2>2, <2>3, <2>4 DEF RecordTables
<1>14. ASSUME NEW c \in DOMAIN channels PROVE channels[c].mirror = MirrorOf(keys', c)
  <2>1. CASE c \in bare
    <3> DEFINE E == {k \in DOMAIN keys' : keys'[k].channel = c /\ keys'[k].enabled}
    <3>1. id(c) \in E
      BY <1>8, <1>10, <1>11, <1>12, <2>1
    <3>2. E \subseteq added
      BY <1>3, <1>11, <2>1 DEF KeysOf
    <3>3. E \in SUBSET Nat
      BY <1>9, <3>2
    <3>4. MirrorOf(keys', c) = IF E = {} THEN "" ELSE keys'[Min(E)].value
      BY DEF MirrorOf
    <3>5. \A k \in E : keys'[k].channel = c
      OBVIOUS
    <3> HIDE DEF E
    <3>6. Min(E) \in E
      BY <3>1, <3>3, MinIs
    <3>7. keys'[Min(E)].value = channels[c].mirror
      BY <1>12, <3>2, <3>5, <3>6
    <3>8. QED
      BY <3>1, <3>4, <3>7
  <2>2. CASE c \notin bare
    <3>1. \A k \in DOMAIN keys' : keys'[k].channel = c => k \in DOMAIN keys /\ keys[k] = keys'[k]
      BY <1>9, <1>11, <1>12, <2>2
    <3>2. \A k \in DOMAIN keys : keys[k].channel = c => k \in DOMAIN keys' /\ keys'[k] = keys[k]
      BY <1>11
    <3>3. DOMAIN keys' \subseteq Nat
      BY <1>2, <1>9, <1>11
    <3>4. MirrorOf(keys', c) = MirrorOf(keys, c)
      BY <3>1, <3>2, <3>3, MirrorSame
    <3>5. CASE KeysOf(c) # {}
      BY <1>1, <3>4, <3>5 DEF MirrorsInv
    <3>6. CASE KeysOf(c) = {}
      <4>1. channels[c].mirror = ""
        BY <1>4, <2>2, <3>6
      <4>2. {k \in DOMAIN keys : keys[k].channel = c /\ keys[k].enabled} = {}
        BY <3>6 DEF KeysOf
      <4>3. QED
        BY <3>4, <4>1, <4>2 DEF MirrorOf
    <3>7. QED
      BY <3>5, <3>6
  <2>3. QED
    BY <2>1, <2>2
<1>15. MirrorsAgree'
  BY <1>1, <1>14 DEF MirrorsAgree
<1>16. HandlerInv'
  BY <1>1 DEF HandlerInv, NoHandler
<1>17. QED
  BY <1>13, <1>15, <1>16, AgreeingKeeps

LEMMA RecordsKeep ==
    ASSUME RecordsInv, [RecordsNext]_recordVars
    PROVE  RecordsInv'
<1>1. CASE UNCHANGED recordVars
  BY <1>1 DEF recordVars, RecordsInv, RecordTables, HandlerInv, MirrorsInv, Up, KeysOf
<1>2. ASSUME NEW n \in Channels, NEW e \in KeyEdits, e.kind = "legacy", OlderBuildAdds(n, e.value)
      PROVE  RecordsInv'
  <2>1. e \in KeyWrites
    BY RecordsAssumption
  <2>2. e.value \in KeyValues
    BY <1>2, <2>1 DEF KeyWrites
  <2>3. QED
    BY <1>2, <2>2, OlderBuildKeeps
<1>3. QED
  BY <1>1, <1>2, HandlersWrite, DeleteUpstreamKeeps, ArchivedKeeps, LooksKeep, SwitchKeeps, ImportItemKeeps,
     StopKeeps, MigrateKeeps DEF RecordsNext
-----------------------------------------------------------------------------
(* Groups, memberships and tokens.                                         *)
Prints == [of : TokenValues \cup {""}, digest : BOOLEAN]
TokenRows == [token : Prints, hash : Prints, plain : TokenValues \cup {""}, group : Nat]

\* A row as this build writes and migrates it, and one from an older build.
Digested(row) ==
    /\ row.token = Digest(row.token.of) /\ row.hash = row.token /\ row.token.of \in TokenValues
    /\ row.plain \in {"", row.token.of} /\ row.group \in DOMAIN groups
Legacy(row) ==
    /\ row.hash = None /\ row.token.of \in TokenValues /\ row.plain = "" /\ row.group = 0

GroupTables ==
    /\ lastGroup \in Nat /\ DOMAIN groups \subseteq 1..lastGroup
    /\ DefaultGroup \in DOMAIN groups /\ groups[DefaultGroup] = "default"
    /\ \A g, h \in DOMAIN groups : groups[g] = groups[h] => g = h
    /\ importing.ids \subseteq 1..lastGroup

MembershipInv == \A c \in DOMAIN membership : membership[c] # {} /\ membership[c] \subseteq DOMAIN groups

TokensInv ==
    /\ started \in BOOLEAN /\ tokens \in [DOMAIN tokens -> TokenRows]
    /\ \A t \in DOMAIN tokens : Digested(tokens[t]) \/ (~started /\ Legacy(tokens[t]))
    /\ \A t, u \in DOMAIN tokens : tokens[t].token.of = tokens[u].token.of => t = u

GroupsInv == GroupTables /\ MembershipInv /\ TokensInv

LEMMA GroupsStart == GroupsInit => GroupsInv
<1> SUFFICES ASSUME GroupsInit PROVE GroupsInv
    OBVIOUS
<1>0. membership = <<>> /\ tokens = <<>> /\ importing = NoImport /\ started = TRUE /\ lastGroup = DefaultGroup
  BY DEF GroupsInit
<1>0a. importing.ids = {}
  BY <1>0 DEF NoImport
<1>0b. lastGroup = 1
  BY <1>0 DEF DefaultGroup
<1>0c. DOMAIN membership = {}
  BY <1>0
<1>0d. DOMAIN tokens = {}
  BY <1>0
<1>1. DOMAIN membership = {} /\ DOMAIN tokens = {} /\ started /\ importing.ids = {} /\ lastGroup = 1
  BY <1>0, <1>0a, <1>0b, <1>0c, <1>0d
<1>1b. started \in BOOLEAN
  BY DEF GroupsInit
<1>2. DOMAIN groups = {DefaultGroup} /\ groups[DefaultGroup] = "default"
  BY DEF GroupsInit
<1>3. GroupTables
  BY <1>1, <1>2 DEF GroupTables, DefaultGroup
<1>4. tokens \in [DOMAIN tokens -> TokenRows]
  BY <1>1 DEF GroupsInit
<1>5. MembershipInv /\ TokensInv
  BY <1>1, <1>1b, <1>4 DEF MembershipInv, TokensInv
<1>6. QED
  BY <1>3, <1>5 DEF GroupsInv

(* A digest is no plaintext, and another value has another digest.         *)
LEMMA DigestIs ==
    /\ \A v : Digest(v) # None /\ Digest(v).of = v
    /\ \A v, w : Digest(v) = Digest(w) => v = w
    /\ \A v \in TokenValues : Digest(v) \in Prints /\ Plaintext(v) \in Prints /\ v # ""
    /\ None \in Prints /\ \A v : Plaintext(v).of = v
<1>1. \A v : Digest(v) # None /\ Digest(v).of = v /\ Plaintext(v).of = v
  <2>1. \A v : Digest(v).digest /\ Digest(v).of = v /\ Plaintext(v).of = v /\ ~Plaintext(v).digest
    BY DEF Digest, Plaintext
  <2>2. QED
    BY <2>1 DEF None
<1>2. \A v \in TokenValues : Digest(v) \in Prints /\ Plaintext(v) \in Prints
  BY DEF Digest, Plaintext, Prints
<1>3. None \in Prints
  BY DEF None, Plaintext, Prints
<1>4. "" \notin TokenValues
  BY TokenGroupsAssumption
<1>5. \A v, w : Digest(v) = Digest(w) => v = w
  <2> HIDE DEF Digest
  <2>1. QED
    BY <1>1
<1>6. QED
  BY <1>1, <1>2, <1>3, <1>4, <1>5

(* Rows stay good as groups come.                                          *)
LEMMA MoreGroups ==
    ASSUME GroupsInv, DOMAIN groups \subseteq DOMAIN groups',
           membership' = membership, tokens' = tokens, started' = started
    PROVE  MembershipInv' /\ TokensInv'
<1>1. \A t \in DOMAIN tokens : Digested(tokens[t]) => Digested(tokens[t])'
  BY DEF Digested
<1>2. \A t \in DOMAIN tokens : Legacy(tokens[t]) => Legacy(tokens[t])'
  BY DEF Legacy
<1>3. TokensInv'
  BY <1>1, <1>2 DEF GroupsInv, TokensInv
<1>4. MembershipInv'
  BY DEF GroupsInv, MembershipInv
<1>5. QED
  BY <1>3, <1>4

LEMMA CreateGroupKeeps ==
    ASSUME GroupsInv, NEW n, CreateGroup(n)
    PROVE  GroupsInv'
<1>1. /\ lastGroup \in Nat /\ lastGroup' = lastGroup + 1
      /\ DOMAIN groups \subseteq 1..lastGroup /\ DefaultGroup \in DOMAIN groups
      /\ groups' = [g \in DOMAIN groups \cup {lastGroup'} |-> IF g = lastGroup' THEN n ELSE groups[g]]
      /\ importing' = importing /\ importing.ids \subseteq 1..lastGroup
  BY DEF CreateGroup, GroupsInv, GroupTables
<1>2. lastGroup' \notin DOMAIN groups /\ \A g \in DOMAIN groups : groups[g] # n
  BY <1>1 DEF CreateGroup
<1>3. /\ DOMAIN groups' = DOMAIN groups \cup {lastGroup'} /\ groups'[lastGroup'] = n
      /\ \A g \in DOMAIN groups : groups'[g] = groups[g]
  BY <1>1, <1>2
<1>4. GroupTables'
  <2>1. DOMAIN groups' \subseteq 1..lastGroup' /\ importing'.ids \subseteq 1..lastGroup'
    BY <1>1, <1>3
  <2>2. \A g, h \in DOMAIN groups' : groups'[g] = groups'[h] => g = h
    BY <1>2, <1>3 DEF GroupsInv, GroupTables
  <2>3. QED
    BY <1>1, <1>3, <2>1, <2>2 DEF GroupsInv, GroupTables, DefaultGroup
<1>5. MembershipInv' /\ TokensInv'
  BY <1>3, MoreGroups DEF CreateGroup
<1>6. QED
  BY <1>4, <1>5 DEF GroupsInv

LEMMA UpdateGroupKeeps ==
    ASSUME GroupsInv, NEW g, NEW n, UpdateGroup(g, n)
    PROVE  GroupsInv'
<1>1. /\ DOMAIN groups' = DOMAIN groups /\ groups'[g] = n /\ g \in DOMAIN groups \ {DefaultGroup}
      /\ \A h \in DOMAIN groups \ {g} : groups'[h] = groups[h] /\ groups[h] # n
  BY DEF UpdateGroup
<1>2. GroupTables'
  BY <1>1 DEF UpdateGroup, GroupsInv, GroupTables, DefaultGroup
<1>3. MembershipInv' /\ TokensInv'
  BY <1>1, MoreGroups DEF UpdateGroup
<1>4. QED
  BY <1>2, <1>3 DEF GroupsInv

(* A group that goes leaves neither a channel nor a token behind.          *)
LEMMA DeleteGroupKeeps ==
    ASSUME GroupsInv, NEW g, DeleteGroup(g)
    PROVE  GroupsInv'
<1>1. /\ g # DefaultGroup /\ DefaultGroup \in DOMAIN groups
      /\ groups' = [h \in DOMAIN groups \ {g} |-> groups[h]]
      /\ membership' = [c \in DOMAIN membership |-> MovedOff(membership[c], g)]
      /\ tokens' = [t \in DOMAIN tokens |->
            IF tokens[t].group = g THEN [tokens[t] EXCEPT !.group = DefaultGroup] ELSE tokens[t]]
      /\ lastGroup' = lastGroup /\ importing' = importing /\ started' = started
  BY DEF DeleteGroup, GroupsInv, GroupTables
<1>2. /\ DOMAIN groups' = DOMAIN groups \ {g} /\ DefaultGroup \in DOMAIN groups'
      /\ \A h \in DOMAIN groups' : groups'[h] = groups[h]
  BY <1>1
<1>3. GroupTables'
  BY <1>1, <1>2 DEF GroupsInv, GroupTables, DefaultGroup
<1>4. MembershipInv'
  <2>1. ASSUME NEW c \in DOMAIN membership
        PROVE  MovedOff(membership[c], g) # {} /\ MovedOff(membership[c], g) \subseteq DOMAIN groups'
    <3>1. membership[c] # {} /\ membership[c] \subseteq DOMAIN groups
      BY DEF GroupsInv, MembershipInv
    <3>2. QED
      BY <1>2, <3>1 DEF MovedOff
  <2>2. QED
    BY <1>1, <2>1 DEF MembershipInv
<1>5. TokensInv'
  <2>1. ASSUME NEW t \in DOMAIN tokens
        PROVE  /\ tokens'[t] \in TokenRows /\ tokens'[t].token = tokens[t].token
               /\ (Digested(tokens[t]) => Digested(tokens[t])') /\ (Legacy(tokens[t]) => Legacy(tokens[t])')
    <3>1. tokens[t] \in TokenRows
      BY DEF GroupsInv, TokensInv
    <3>2. CASE tokens[t].group = g
      <4>1. tokens'[t] = [tokens[t] EXCEPT !.group = DefaultGroup]
        BY <1>1, <3>2
      <4>2. /\ tokens'[t].token = tokens[t].token /\ tokens'[t].hash = tokens[t].hash
            /\ tokens'[t].plain = tokens[t].plain /\ tokens'[t].group = DefaultGroup
        BY <3>1, <4>1 DEF TokenRows
      <4>2b. tokens'[t] \in TokenRows
        <5>1. DefaultGroup \in Nat
          BY DEF DefaultGroup
        <5>2. QED
          BY <3>1, <4>1, <5>1 DEF TokenRows
      <4>3. ~Legacy(tokens[t])
        <5>1. g # 0
          BY DEF DeleteGroup, GroupsInv, GroupTables
        <5>2. QED
          BY <3>2, <5>1 DEF Legacy
      <4>4. QED
        BY <1>2, <4>2, <4>2b, <4>3 DEF Digested
    <3>3. CASE tokens[t].group # g
      <4>1. tokens'[t] = tokens[t]
        BY <1>1, <3>3
      <4>2. QED
        BY <1>2, <3>1, <3>3, <4>1 DEF Digested, Legacy
    <3>4. QED
      BY <3>2, <3>3
  <2>2. DOMAIN tokens' = DOMAIN tokens /\ tokens' \in [DOMAIN tokens' -> TokenRows]
    BY <1>1, <2>1
  <2>3. QED
    BY <1>1, <2>1, <2>2 DEF GroupsInv, TokensInv
<1>6. QED
  BY <1>3, <1>4, <1>5 DEF GroupsInv

(* A channel's memberships are written whole, from groups that are there.  *)
LEMMA ReplacedMembership ==
    ASSUME GroupsInv, NEW c, NEW ids, ReplaceUpstreamGroups(c, ids), groups' = groups
    PROVE  MembershipInv'
<1>1. Selected(ids) # {} /\ Selected(ids) \subseteq DOMAIN groups
  BY DEF ReplaceUpstreamGroups, Selected
<1>2. membership' = [d \in DOMAIN membership \cup {c} |-> IF d = c THEN Selected(ids) ELSE membership[d]]
  BY DEF ReplaceUpstreamGroups
<1>3. QED
  BY <1>1, <1>2 DEF GroupsInv, MembershipInv

\* Steps that leave the tokens and the groups alone.
LEMMA TokensStay ==
    ASSUME GroupsInv, tokens' = tokens, groups' = groups, started' = started
    PROVE  TokensInv'
  BY DEF GroupsInv, TokensInv, Digested, Legacy

LEMMA ChannelStepsKeep ==
    ASSUME GroupsInv, NEW c, NEW ids, SaveChannel(c, ids) \/ DeleteChannel(c) \/ ImportChannel
    PROVE  GroupsInv'
<1>1. groups' = groups /\ tokens' = tokens /\ started' = started /\ lastGroup' = lastGroup
  BY DEF SaveChannel, DeleteChannel, ImportChannel
<1>2. TokensInv'
  BY <1>1, TokensStay
<1>3. MembershipInv'
  <2>1. CASE SaveChannel(c, ids)
    BY <1>1, <2>1, ReplacedMembership DEF SaveChannel
  <2>2. CASE DeleteChannel(c)
    <3>1. membership' = [d \in DOMAIN membership \ {c} |-> membership[d]]
      BY <2>2 DEF DeleteChannel
    <3>2. QED
      BY <1>1, <3>1 DEF GroupsInv, MembershipInv
  <2>3. CASE ImportChannel
    <3>1. ReplaceUpstreamGroups(importing.channel, importing.ids) \/ membership' = membership
      BY <2>3 DEF ImportChannel
    <3>2. CASE ReplaceUpstreamGroups(importing.channel, importing.ids)
      BY <1>1, <3>2, ReplacedMembership
    <3>3. CASE membership' = membership
      BY <1>1, <3>3 DEF GroupsInv, MembershipInv
    <3>4. QED
      BY <3>1, <3>2, <3>3
  <2>4. QED
    BY <2>1, <2>2, <2>3
<1>4. importing'.ids \subseteq 1..lastGroup
  <2>1. importing' = importing \/ importing' = NoImport
    BY DEF SaveChannel, DeleteChannel, ImportChannel
  <2>2. NoImport.ids = {}
    BY DEF NoImport
  <2>3. QED
    BY <2>1, <2>2 DEF GroupsInv, GroupTables
<1>5. GroupTables'
  BY <1>1, <1>4 DEF GroupsInv, GroupTables
<1>6. QED
  BY <1>2, <1>3, <1>5 DEF GroupsInv

(* An import makes the group that is missing, under an id of its own.      *)
LEMMA LookUpKeeps ==
    ASSUME GroupsInv, NEW c, NEW names \in SUBSET GroupNames, LookUpGroups(c, names)
    PROVE  GroupsInv'
<1> DEFINE missing == names \ {groups[g] : g \in DOMAIN groups}
           n == Cardinality(missing)
<1>1. n \in Nat /\ n <= 1 /\ (n = 0 => missing = {}) /\ (n = 1 => \E x : missing = {x})
  <2>1. missing \subseteq GroupNames
    OBVIOUS
  <2>2. n <= 1
    BY DEF LookUpGroups
  <2> HIDE DEF missing
  <2>3. IsFiniteSet(missing)
    BY <2>1, FS_Subset, TokenGroupsAssumption
  <2>4. QED
    BY <2>2, <2>3, FS_CardinalityType, FS_EmptySet, FS_Singleton
<1>2. /\ groups' = [g \in DOMAIN groups \cup (lastGroup + 1)..(lastGroup + n) |->
                     IF g \in DOMAIN groups THEN groups[g] ELSE CHOOSE x \in missing : g = lastGroup + 1]
      /\ lastGroup' = lastGroup + n
      /\ membership' = membership /\ tokens' = tokens /\ started' = started
  BY DEF LookUpGroups
<1>3. /\ lastGroup \in Nat /\ DOMAIN groups \subseteq 1..lastGroup
      /\ DefaultGroup \in DOMAIN groups
  BY DEF GroupsInv, GroupTables
<1>4. \A x \in missing : \A g \in DOMAIN groups : groups[g] # x
  OBVIOUS
<1>5. importing'.ids \subseteq DOMAIN groups' \/ importing'.ids \subseteq DOMAIN groups
  <2>1. importing'.ids = IF names # {} THEN {g \in DOMAIN groups' : groups'[g] \in names}
                         ELSE IF c \in DOMAIN membership THEN membership[c] ELSE {}
    BY DEF LookUpGroups
  <2>2. QED
    BY <2>1 DEF GroupsInv, MembershipInv
<1> HIDE DEF missing, n
<1>6. /\ DOMAIN groups' = DOMAIN groups \cup (lastGroup + 1)..(lastGroup + n)
      /\ \A g \in DOMAIN groups : groups'[g] = groups[g]
  BY <1>2
<1>7. \A g \in DOMAIN groups' \ DOMAIN groups : g = lastGroup + 1 /\ n = 1 /\ groups'[g] \in missing
  <2>1. ASSUME NEW g \in DOMAIN groups' \ DOMAIN groups PROVE g = lastGroup + 1 /\ n = 1 /\ groups'[g] \in missing
    <3>1. g \in (lastGroup + 1)..(lastGroup + n)
      BY <1>6
    <3>2. g = lastGroup + 1 /\ n = 1
      BY <1>1, <1>3, <3>1
    <3>3. groups'[g] = CHOOSE x \in missing : g = lastGroup + 1
      BY <1>2, <1>6, <3>2
    <3>4. \E x \in missing : g = lastGroup + 1
      BY <1>1, <3>2
    <3>5. QED
      BY <3>2, <3>3, <3>4
  <2>2. QED
    BY <2>1
<1>8. \A g, h \in DOMAIN groups' : groups'[g] = groups'[h] => g = h
  BY <1>4, <1>6, <1>7 DEF GroupsInv, GroupTables
<1>9. lastGroup' \in Nat /\ DOMAIN groups' \subseteq 1..lastGroup' /\ DOMAIN groups \subseteq 1..lastGroup'
  <2>1. \A g \in DOMAIN groups : g \in 1..lastGroup'
    BY <1>1, <1>2, <1>3
  <2>2. \A g \in (lastGroup + 1)..(lastGroup + n) : g \in 1..lastGroup'
    BY <1>1, <1>2, <1>3
  <2>3. QED
    BY <1>1, <1>2, <1>3, <1>6, <2>1, <2>2
<1>10. GroupTables'
  BY <1>3, <1>5, <1>6, <1>8, <1>9 DEF GroupsInv, GroupTables, DefaultGroup
<1>11. MembershipInv' /\ TokensInv'
  BY <1>2, <1>6, MoreGroups
<1>12. QED
  BY <1>10, <1>11 DEF GroupsInv

(* A row is written for a value no other row answers to.                   *)
LEMMA RowIsDigested ==
    ASSUME GroupsInv, NEW value \in TokenValues, NEW g \in Nat, Resolved(g) \in DOMAIN groups
    PROVE  Row(value, g) \in TokenRows /\ Digested(Row(value, g)) /\ Row(value, g).token.of = value
<1>1. /\ Row(value, g).token = Digest(value) /\ Row(value, g).hash = Digest(value)
      /\ Row(value, g).plain = value /\ Row(value, g).group = Resolved(g)
  BY DEF Row
<1>2. Digest(value).of = value /\ Digest(value) \in Prints
  BY DigestIs
<1>3. Resolved(g) \in Nat
  BY DEF Resolved, DefaultGroup
<1>4. Row(value, g) \in TokenRows
  BY <1>2, <1>3 DEF Row, TokenRows
<1>5. QED
  BY <1>1, <1>2, <1>4 DEF Digested

LEMMA NotTaken ==
    ASSUME GroupsInv, started, NEW t, NEW value, ~Taken(t, value)
    PROVE  \A u \in DOMAIN tokens \ {t} : tokens[u].token.of # value
<1>1. ASSUME NEW u \in DOMAIN tokens \ {t}, tokens[u].token.of = value PROVE FALSE
  <2>1. Digested(tokens[u])
    BY DEF GroupsInv, TokensInv
  <2>2. tokens[u].hash = Digest(value)
    BY <1>1, <2>1 DEF Digested
  <2>3. QED
    BY <2>2 DEF Taken
<1>2. QED
  BY <1>1

\* What a write of the tokens leaves alone.
RestStays == UNCHANGED <<groups, lastGroup, membership, importing, started>>

(* One row is written, the others stay, and no two answer to one value.    *)
LEMMA RowStored ==
    ASSUME GroupsInv, NEW t, NEW row \in TokenRows, Digested(row) \/ (~started /\ Legacy(row)),
           DOMAIN tokens' = DOMAIN tokens \cup {t}, tokens' \in [DOMAIN tokens' -> TokenRows], tokens'[t] = row,
           \A u \in DOMAIN tokens \ {t} : tokens'[u] = tokens[u] /\ tokens[u].token.of # row.token.of,
           RestStays
    PROVE  GroupsInv'
<1>0. /\ groups' = groups /\ lastGroup' = lastGroup /\ membership' = membership /\ importing' = importing
      /\ started' = started
  BY DEF RestStays
<1>1. GroupTables' /\ MembershipInv'
  BY <1>0 DEF GroupsInv, GroupTables, MembershipInv
<1>3. \A u \in DOMAIN tokens' : u = t \/ (u \in DOMAIN tokens /\ tokens'[u] = tokens[u])
  OBVIOUS
<1>4. \A u \in DOMAIN tokens' : Digested(tokens'[u]) \/ (~started /\ Legacy(tokens'[u]))
  BY <1>3 DEF GroupsInv, TokensInv
<1>5. \A u, w \in DOMAIN tokens' : tokens'[u].token.of = tokens'[w].token.of => u = w
  BY <1>3 DEF GroupsInv, TokensInv
<1>6. TokensInv'
  <2>1. ASSUME NEW u \in DOMAIN tokens' PROVE Digested(tokens[u])' \/ (~started' /\ Legacy(tokens[u])')
    <3>1. CASE Digested(tokens'[u])
      BY <1>0, <3>1 DEF Digested
    <3>2. CASE ~started /\ Legacy(tokens'[u])
      BY <1>0, <3>2 DEF Legacy
    <3>3. QED
      BY <1>4, <3>1, <3>2
  <2>2. started' \in BOOLEAN
    BY <1>0 DEF GroupsInv, TokensInv
  <2>3. QED
    BY <1>5, <2>1, <2>2 DEF TokensInv
<1>7. QED
  BY <1>1, <1>6 DEF GroupsInv

LEMMA CreateTokenKeeps ==
    ASSUME GroupsInv, NEW t, NEW value \in TokenValues, NEW g \in Nat, CreateToken(t, value, g)
    PROVE  GroupsInv'
<1>1. /\ started /\ Resolved(g) \in DOMAIN groups /\ ~Taken(t, value)
      /\ tokens' = [u \in DOMAIN tokens \cup {t} |-> IF u = t THEN Row(value, g) ELSE tokens[u]]
      /\ RestStays
  BY DEF CreateToken, RestStays
<1>2. Row(value, g) \in TokenRows /\ Digested(Row(value, g)) /\ Row(value, g).token.of = value
  BY <1>1, RowIsDigested
<1>3. \A u \in DOMAIN tokens \ {t} : tokens[u].token.of # value
  BY <1>1, NotTaken
<1>4. /\ DOMAIN tokens' = DOMAIN tokens \cup {t} /\ tokens'[t] = Row(value, g)
      /\ \A u \in DOMAIN tokens \ {t} : tokens'[u] = tokens[u]
  BY <1>1
<1>5. tokens' \in [DOMAIN tokens' -> TokenRows]
  BY <1>1, <1>2 DEF GroupsInv, TokensInv
<1> DEFINE row == Row(value, g)
<1>6. row \in TokenRows /\ Digested(row) /\ row.token.of = value /\ tokens'[t] = row
  BY <1>2, <1>4
<1> HIDE DEF row
<1>7. \A u \in DOMAIN tokens \ {t} : tokens'[u] = tokens[u] /\ tokens[u].token.of # row.token.of
  BY <1>3, <1>4, <1>6
<1>8. DOMAIN tokens' = DOMAIN tokens \cup {t} /\ RestStays
  BY <1>1, <1>4
<1>9. QED
  BY <1>5, <1>6, <1>7, <1>8, RowStored

LEMMA UpdateTokenKeeps ==
    ASSUME GroupsInv, NEW t, NEW requested \in TokenValues \cup {""}, NEW g \in Nat, UpdateToken(t, requested, g)
    PROVE  GroupsInv'
<1>1. /\ started /\ t \in DOMAIN tokens /\ Resolved(g) \in DOMAIN groups
      /\ RestStays
      /\ tokens \in [DOMAIN tokens -> TokenRows]
  BY DEF UpdateToken, RestStays, GroupsInv, TokensInv
<1>2. CASE requested \in {"", tokens[t].plain}
  <2> DEFINE row == [tokens[t] EXCEPT !.group = Resolved(g)]
  <2>1. tokens' = [tokens EXCEPT ![t].group = Resolved(g)]
    BY <1>2 DEF UpdateToken
  <2>2. tokens[t] \in TokenRows /\ Digested(tokens[t])
    BY <1>1 DEF GroupsInv, TokensInv
  <2>3. row.token = tokens[t].token /\ row.hash = tokens[t].hash /\ row.plain = tokens[t].plain /\ row.group = Resolved(g)
    BY <2>2 DEF TokenRows
  <2>4. row \in TokenRows
    <3>1. Resolved(g) \in Nat
      BY DEF Resolved, DefaultGroup
    <3>2. QED
      BY <2>2, <3>1 DEF TokenRows
  <2>5. tokens'[t] = row /\ DOMAIN tokens' = DOMAIN tokens /\ \A u \in DOMAIN tokens \ {t} : tokens'[u] = tokens[u]
    BY <1>1, <2>1
  <2> HIDE DEF row
  <2>6. Digested(row)
    BY <1>1, <2>2, <2>3 DEF Digested
  <2>7. tokens' \in [DOMAIN tokens' -> TokenRows]
    <3>1. tokens' = [u \in DOMAIN tokens |-> tokens'[u]]
      BY <2>1
    <3>2. \A u \in DOMAIN tokens : tokens'[u] \in TokenRows
      BY <1>1, <2>4, <2>5
    <3>3. QED
      BY <2>5, <3>1, <3>2
  <2>8. \A u \in DOMAIN tokens \ {t} : tokens[u].token.of # row.token.of
    BY <1>1, <2>3 DEF GroupsInv, TokensInv
  <2>9. DOMAIN tokens' = DOMAIN tokens \cup {t}
    BY <1>1, <2>5
  <2>10. QED
    <3>1. tokens'[t] = row
      BY <2>5
    <3>2. \A u \in DOMAIN tokens \ {t} : tokens'[u] = tokens[u] /\ tokens[u].token.of # row.token.of
      BY <2>5, <2>8
    <3>3. RestStays
      BY <1>1
    <3>4. QED
      BY <2>4, <2>6, <2>7, <2>9, <3>1, <3>2, <3>3, RowStored
<1>3. CASE requested \notin {"", tokens[t].plain}
  <2>1. ~Taken(t, requested) /\ tokens' = [tokens EXCEPT ![t] = Row(requested, g)] /\ requested \in TokenValues
    BY <1>3 DEF UpdateToken
  <2>2. Row(requested, g) \in TokenRows /\ Digested(Row(requested, g)) /\ Row(requested, g).token.of = requested
    BY <1>1, <2>1, RowIsDigested
  <2>3. \A u \in DOMAIN tokens \ {t} : tokens[u].token.of # requested
    BY <1>1, <2>1, NotTaken
  <2>4. /\ DOMAIN tokens' = DOMAIN tokens \cup {t} /\ tokens'[t] = Row(requested, g)
        /\ \A u \in DOMAIN tokens \ {t} : tokens'[u] = tokens[u]
        /\ tokens' \in [DOMAIN tokens' -> TokenRows]
    BY <1>1, <2>1, <2>2
  <2> DEFINE row == Row(requested, g)
  <2>5. row \in TokenRows /\ Digested(row) /\ row.token.of = requested /\ tokens'[t] = row
    BY <2>2, <2>4
  <2> HIDE DEF row
  <2>6. DOMAIN tokens' = DOMAIN tokens \cup {t}
    BY <2>4
  <2>7. QED
    BY <1>1, <2>3, <2>4, <2>5, <2>6, RowStored
<1>4. QED
  BY <1>2, <1>3

LEMMA LegacyTokenKeeps ==
    ASSUME GroupsInv, NEW t, NEW value \in TokenValues, LegacyToken(t, value)
    PROVE  GroupsInv'
<1> DEFINE row == [token |-> Plaintext(value), hash |-> None, plain |-> "", group |-> 0]
<1>1. /\ ~started /\ t \notin DOMAIN tokens /\ \A u \in DOMAIN tokens : tokens[u].token.of # value
      /\ tokens' = [u \in DOMAIN tokens \cup {t} |-> IF u = t THEN row ELSE tokens[u]]
      /\ RestStays
  BY DEF LegacyToken, RestStays
<1>2. Plaintext(value) \in Prints /\ Plaintext(value).of = value /\ None \in Prints
  BY DigestIs
<1>3. row \in TokenRows /\ Legacy(row) /\ row.token.of = value
  BY <1>2 DEF TokenRows, Legacy
<1> HIDE DEF row
<1>4. /\ DOMAIN tokens' = DOMAIN tokens \cup {t} /\ tokens'[t] = row
      /\ \A u \in DOMAIN tokens \ {t} : tokens'[u] = tokens[u]
  BY <1>1
<1>5. tokens' \in [DOMAIN tokens' -> TokenRows]
  BY <1>1, <1>3 DEF GroupsInv, TokensInv
<1>6. QED
  BY <1>1, <1>3, <1>4, <1>5, RowStored

LEMMA DeleteTokenKeeps ==
    ASSUME GroupsInv, NEW t, DeleteToken(t)
    PROVE  GroupsInv'
<1>1. /\ tokens' = [u \in DOMAIN tokens \ {t} |-> tokens[u]]
      /\ UNCHANGED <<groups, lastGroup, membership, importing, started>>
  BY DEF DeleteToken
<1>2. GroupTables' /\ MembershipInv'
  BY <1>1 DEF GroupsInv, GroupTables, MembershipInv
<1>3. TokensInv'
  BY <1>1 DEF GroupsInv, TokensInv, Digested, Legacy
<1>4. QED
  BY <1>2, <1>3 DEF GroupsInv

LEMMA StopTokensKeeps ==
    ASSUME GroupsInv, StopTokens
    PROVE  GroupsInv'
<1>1. /\ UNCHANGED <<groups, lastGroup, membership, tokens>> /\ importing'.ids = {} /\ ~started' /\ started' \in BOOLEAN
  BY DEF StopTokens, NoImport
<1>2. GroupTables' /\ MembershipInv'
  BY <1>1 DEF GroupsInv, GroupTables, MembershipInv
<1>3. TokensInv'
  BY <1>1 DEF GroupsInv, TokensInv, Digested, Legacy
<1>4. QED
  BY <1>2, <1>3 DEF GroupsInv

(* An upgrade digests what was kept readable, and finds every token a home. *)
LEMMA MigrateTokensKeeps ==
    ASSUME GroupsInv, MigrateTokens
    PROVE  GroupsInv'
<1> DEFINE hash(row) == IF row.hash = None THEN Digest(row.token.of) ELSE row.hash
           after(row) == [row EXCEPT !.token = hash(row), !.hash = hash(row), !.group = Resolved(row.group)]
<1>1. /\ tokens' = [t \in DOMAIN tokens |-> after(tokens[t])] /\ started' = TRUE
      /\ UNCHANGED <<groups, lastGroup, membership, importing>>
  BY DEF MigrateTokens
<1>2. ASSUME NEW t \in DOMAIN tokens
      PROVE  /\ after(tokens[t]) \in TokenRows /\ Digested(after(tokens[t]))
             /\ after(tokens[t]).token.of = tokens[t].token.of
  <2> DEFINE row == tokens[t]
             new == after(row)
  <2>0. \A g \in DOMAIN groups : g > 0
    BY DEF GroupsInv, GroupTables
  <2>1. row \in TokenRows /\ (Digested(row) \/ Legacy(row))
    BY DEF GroupsInv, TokensInv
  <2> HIDE DEF row
  <2>2. hash(row) = Digest(row.token.of) /\ row.token.of \in TokenValues /\ row.plain \in {"", row.token.of}
    <3>1. CASE Digested(row)
      <4>1. row.hash # None
        BY <3>1, DigestIs DEF Digested
      <4>2. QED
        BY <3>1, <4>1 DEF Digested
    <3>2. CASE Legacy(row)
      BY <3>2 DEF Legacy
    <3>3. QED
      BY <2>1, <3>1, <3>2
  <2>3. Resolved(row.group) \in DOMAIN groups
    <3>1. CASE Digested(row)
      <4>1. row.group \in DOMAIN groups
        BY <3>1 DEF Digested
      <4>2. row.group > 0
        BY <2>0, <4>1
      <4>3. QED
        BY <4>1, <4>2 DEF Resolved
    <3>2. CASE Legacy(row)
      <4>1. row.group = 0
        BY <3>2 DEF Legacy
      <4>2. Resolved(row.group) = DefaultGroup
        BY <4>1 DEF Resolved
      <4>3. QED
        BY <4>2 DEF GroupsInv, GroupTables
    <3>3. QED
      BY <2>1, <3>1, <3>2
  <2>4. Resolved(row.group) \in Nat
    <3>1. row.group \in Nat
      BY <2>1 DEF TokenRows
    <3>2. QED
      BY <3>1 DEF Resolved, DefaultGroup
  <2>5. Digest(row.token.of) \in Prints /\ Digest(row.token.of).of = row.token.of
    BY <2>2, DigestIs
  <2>6. new = [row EXCEPT !.token = Digest(row.token.of), !.hash = Digest(row.token.of), !.group = Resolved(row.group)]
    BY <2>2
  <2> HIDE DEF new
  <2>7. /\ new.token = Digest(row.token.of) /\ new.hash = Digest(row.token.of) /\ new.plain = row.plain
        /\ new.group = Resolved(row.group)
    BY <2>1, <2>6 DEF TokenRows
  <2>8. new \in TokenRows
    BY <2>1, <2>4, <2>5, <2>6 DEF TokenRows
  <2>9. Digested(new) /\ new.token.of = row.token.of
    BY <2>2, <2>3, <2>5, <2>7 DEF Digested
  <2>10. QED
    BY <2>8, <2>9 DEF new, row
<1> HIDE DEF after
<1>3. DOMAIN tokens' = DOMAIN tokens /\ \A t \in DOMAIN tokens : tokens'[t] = after(tokens[t])
  BY <1>1
<1>4. tokens' \in [DOMAIN tokens' -> TokenRows]
  BY <1>1, <1>2
<1>5. \A t \in DOMAIN tokens' : Digested(tokens[t])' /\ tokens'[t].token.of = tokens[t].token.of
  <2>1. \A t \in DOMAIN tokens : Digested(tokens'[t]) /\ tokens'[t].token.of = tokens[t].token.of
    BY <1>2, <1>3
  <2>2. QED
    BY <1>1, <1>3, <2>1 DEF Digested
<1>6. TokensInv'
  BY <1>1, <1>3, <1>4, <1>5 DEF GroupsInv, TokensInv
<1>7. GroupTables' /\ MembershipInv'
  BY <1>1 DEF GroupsInv, GroupTables, MembershipInv
<1>8. QED
  BY <1>6, <1>7 DEF GroupsInv

LEMMA GroupsKeep ==
    ASSUME GroupsInv, [GroupsNext]_groupVars
    PROVE  GroupsInv'
<1>1. CASE UNCHANGED groupVars
  BY <1>1 DEF groupVars, GroupsInv, GroupTables, MembershipInv, TokensInv, Digested, Legacy
<1>0. \A g \in 0..MaxGroup : g \in Nat
  <2>1. MaxGroup \in Nat
    BY TokenGroupsAssumption
  <2>2. QED
    BY <2>1
<1>2. ASSUME NEW t \in TokenIds, NEW v \in TokenValues, NEW g \in 0..MaxGroup, CreateToken(t, v, g) PROVE GroupsInv'
  <2>1. g \in Nat
    BY <1>0
  <2>2. QED
    BY <1>2, <2>1, CreateTokenKeeps
<1>3. ASSUME NEW t \in TokenIds, NEW v \in TokenValues \cup {""}, NEW g \in 0..MaxGroup, UpdateToken(t, v, g)
      PROVE  GroupsInv'
  <2>1. g \in Nat
    BY <1>0
  <2>2. QED
    BY <1>3, <2>1, UpdateTokenKeeps
<1>4. QED
  BY <1>1, <1>2, <1>3, CreateGroupKeeps, UpdateGroupKeeps, DeleteGroupKeeps, ChannelStepsKeep, LookUpKeeps,
     DeleteTokenKeeps, LegacyTokenKeeps, StopTokensKeeps, MigrateTokensKeeps DEF GroupsNext

(* So nothing that is stored dangles.                                      *)
LEMMA GroupsHold == GroupsInv => NothingDangling
<1> SUFFICES ASSUME GroupsInv PROVE NothingDangling
    OBVIOUS
<1>1. \A c \in DOMAIN membership : membership[c] # {} /\ membership[c] \subseteq DOMAIN groups
  BY DEF GroupsInv, MembershipInv
<1>2. ASSUME started, NEW t \in DOMAIN tokens
      PROVE  /\ tokens[t].group \in DOMAIN groups /\ tokens[t].token = tokens[t].hash
             /\ tokens[t].plain # "" => tokens[t].hash = Digest(tokens[t].plain)
             /\ \A u \in DOMAIN tokens \ {t} : tokens[u].hash # tokens[t].hash
  <2>1. \A u \in DOMAIN tokens : Digested(tokens[u])
    BY <1>2 DEF GroupsInv, TokensInv
  <2>2. \A u \in DOMAIN tokens : tokens[u].hash.of = tokens[u].token.of
    BY <2>1 DEF Digested
  <2>3. \A u \in DOMAIN tokens \ {t} : tokens[u].hash # tokens[t].hash
    BY <1>2, <2>2 DEF GroupsInv, TokensInv
  <2>4. QED
    BY <1>2, <2>1, <2>3 DEF Digested
<1>3. QED
  BY <1>1, <1>2 DEF NothingDangling
-----------------------------------------------------------------------------
(* Sealed credentials. The key in use is always one that outlives the      *)
(* process: configured, synced in the key file, or found there.            *)
CellRecords == [key : Nat, text : {"none", "plain", "sealed"}]
KeyFiles == [is : {"absent", "empty", "written"}, key : Nat, synced : BOOLEAN]
Startups == [at : {"down", "writing", "syncing", "sealing", "up"}, key : Nat, previous : Nat]

SecretTypes ==
    /\ secrets \in [Cells -> CellRecords] /\ keyFile \in KeyFiles /\ startup \in Startups
    /\ encryptionKey \in configured \cup {NoKey} /\ configured \subseteq EnvKeys
    /\ generated \in Nat /\ backups \in Seq([Cells -> CellRecords]) /\ Len(backups) <= KeepBackups
    /\ part.is \in {"none", "begun", "copied"} /\ (part.is = "copied" => part.content \in [Cells -> CellRecords])

KeyFileInv ==
    /\ keyFile.is = "written" <=> keyFile.key # NoKey
    /\ keyFile.synced => keyFile.is = "written"

StartupInv ==
    /\ startup.at = "writing" => keyFile.is = "empty"
    /\ startup.at = "syncing" => keyFile.is = "written" /\ ~keyFile.synced /\ keyFile.key = startup.key
    /\ startup.at \in {"writing", "syncing", "sealing", "up"} => startup.key # NoKey
    /\ startup.at \in {"sealing", "up"} => startup.key \in KeptKeys \cup adopted
    /\ startup.at = "up" => \A c \in Cells : secrets[c] = Nothing \/ Opens(secrets[c], startup.key)

\* What is stored is sealed under keys of a set.
Under(cells, held) == \A c \in Cells : IsSealed(cells[c]) => cells[c].key \in held
Held == KeptKeys \cup adopted

SealingInv ==
    /\ Under(secrets, Held) /\ \A i \in DOMAIN backups : Under(backups[i], Held)
    /\ part.is = "copied" => Under(part.content, Held)

SecretsInv == SecretTypes /\ KeyFileInv /\ StartupInv /\ SealingInv

LEMMA CellsAre ==
    /\ Nothing \in CellRecords /\ Plain \in CellRecords /\ ~IsSealed(Nothing) /\ ~IsSealed(Plain)
    /\ \A key \in Nat : /\ Sealed(key) \in CellRecords /\ IsSealed(Sealed(key)) /\ Sealed(key).key = key
                        /\ (key # NoKey => Opens(Sealed(key), key))
    /\ Down \in Startups /\ Down.at = "down"
<1>1. Nothing \in CellRecords /\ Plain \in CellRecords /\ ~IsSealed(Nothing) /\ ~IsSealed(Plain)
  BY DEF Nothing, Plain, CellRecords, IsSealed, NoKey
<1>2. Down \in Startups /\ Down.at = "down"
  BY DEF Down, Startups, NoKey
<1>3. ASSUME NEW key \in Nat
      PROVE  /\ Sealed(key) \in CellRecords /\ IsSealed(Sealed(key)) /\ Sealed(key).key = key
             /\ (key # NoKey => Opens(Sealed(key), key))
  <2>1. Sealed(key).key = key /\ Sealed(key).text = "sealed" /\ Sealed(key) \in CellRecords
    BY DEF Sealed, CellRecords
  <2>2. QED
    BY <2>1 DEF IsSealed, Opens
<1>4. QED
  BY <1>1, <1>2, <1>3

LEMMA SecretsStart == SecretsInit => SecretsInv
<1> SUFFICES ASSUME SecretsInit PROVE SecretsInv
    OBVIOUS
<1>1. /\ secrets = [c \in Cells |-> Plain] /\ keyFile = [is |-> "absent", key |-> NoKey, synced |-> FALSE]
      /\ encryptionKey = NoKey /\ configured = {} /\ generated = 0 /\ startup = Down /\ backups = <<>> /\ part = NoPart
  BY DEF SecretsInit
<1>2. keyFile \in KeyFiles /\ keyFile.is = "absent" /\ keyFile.key = NoKey /\ ~keyFile.synced
  BY <1>1 DEF KeyFiles, NoKey
<1>3. part.is = "none"
  BY <1>1 DEF NoPart
<1>4. secrets \in [Cells -> CellRecords]
  BY <1>1, CellsAre
<1>5. backups \in Seq([Cells -> CellRecords]) /\ Len(backups) = 0 /\ DOMAIN backups = {}
  BY <1>1
<1>6. KeepBackups \in Nat
  BY SecretsAssumption
<1>7. Len(backups) <= KeepBackups
  BY <1>5, <1>6
<1>8. SecretTypes
  BY <1>1, <1>2, <1>3, <1>4, <1>5, <1>7, CellsAre DEF SecretTypes
<1>9. KeyFileInv
  BY <1>2 DEF KeyFileInv
<1>10. StartupInv
  BY <1>1, CellsAre DEF StartupInv
<1>11. SealingInv
  BY <1>1, <1>3, <1>5, CellsAre DEF SealingInv, Under
<1>12. QED
  BY <1>8, <1>9, <1>10, <1>11 DEF SecretsInv

\* What was sealed stays sealed under a held key as more keys are held.
LEMMA HeldGrows ==
    ASSUME SecretsInv, Held \subseteq Held', secrets' = secrets, backups' = backups, part' = part
    PROVE  SealingInv'
  BY DEF SecretsInv, SealingInv, Under

(* A start that goes on, fails or dies, and what it does to the key file.  *)
LEMMA StartGoesOn ==
    ASSUME SecretsInv, startup' \in Startups, keyFile' \in KeyFiles, KeyFileInv', StartupInv', Held \subseteq Held',
           generated' \in Nat,
           UNCHANGED <<secrets, encryptionKey, configured, backups, part>>
    PROVE  SecretsInv'
<1>1. secrets' = secrets /\ encryptionKey' = encryptionKey /\ configured' = configured /\ backups' = backups
      /\ part' = part
  OBVIOUS
<1>2. SecretTypes'
  BY <1>1 DEF SecretsInv, SecretTypes
<1>3. SealingInv'
  BY <1>1, HeldGrows
<1>4. QED
  BY <1>2, <1>3 DEF SecretsInv

\* A service that is down asks nothing of its startup.
LEMMA DownIsFine ==
    ASSUME startup' = Down
    PROVE  startup' \in Startups /\ StartupInv'
  BY CellsAre DEF StartupInv

LEMMA PickKeyKeeps ==
    ASSUME SecretsInv, PickKey
    PROVE  SecretsInv'
<1>1. /\ keyFile' = keyFile /\ generated' = generated /\ configured' = configured
      /\ UNCHANGED <<secrets, encryptionKey, configured, backups, part>>
      /\ adopted' = IF keyFile.is = "written" /\ ~keyFile.synced THEN adopted \cup {keyFile.key} ELSE adopted
  BY DEF PickKey
<1>2. Held \subseteq Held'
  BY <1>1 DEF Held, KeptKeys
<1>3. keyFile \in KeyFiles /\ keyFile.key \in Nat /\ KeyFileInv /\ encryptionKey \in configured \cup {NoKey}
      /\ generated \in Nat /\ configured \subseteq EnvKeys
  BY DEF SecretsInv, SecretTypes, KeyFiles
<1>4. EnvKeys \subseteq Nat /\ NoKey \in Nat
  BY SecretsAssumption DEF NoKey
<1>5. startup' \in Startups /\ startup'.at = "sealing" /\ startup'.key # NoKey /\ startup'.key \in Held'
  <2>1. CASE encryptionKey # NoKey /\ startup' = [at |-> "sealing", key |-> encryptionKey, previous |-> keyFile.key]
    <3>1. encryptionKey \in Nat /\ encryptionKey \in configured
      BY <1>3, <1>4, <2>1
    <3>2. startup' \in Startups
      BY <1>3, <2>1, <3>1 DEF Startups
    <3>3. startup'.at = "sealing" /\ startup'.key = encryptionKey
      BY <2>1
    <3>4. QED
      BY <1>1, <2>1, <3>1, <3>2, <3>3 DEF Held, KeptKeys
  <2>2. CASE keyFile.is = "written" /\ startup' = [at |-> "sealing", key |-> keyFile.key, previous |-> NoKey]
    <3>1. startup' \in Startups
      BY <1>3, <1>4, <2>2 DEF Startups
    <3>2. startup'.at = "sealing" /\ startup'.key = keyFile.key
      BY <2>2
    <3>3. keyFile.key \in Held'
      BY <1>1, <2>2 DEF Held, KeptKeys
    <3>4. QED
      BY <1>3, <2>2, <3>1, <3>2, <3>3 DEF KeyFileInv
  <2>3. QED
    BY <2>1, <2>2 DEF PickKey
<1>6. KeyFileInv' /\ keyFile' \in KeyFiles /\ generated' \in Nat
  BY <1>1, <1>3 DEF KeyFileInv
<1>7. StartupInv'
  BY <1>5 DEF StartupInv, Held
<1>8. QED
  BY <1>1, <1>2, <1>5, <1>6, <1>7, StartGoesOn

LEMMA NewSecretKeyKeeps ==
    ASSUME SecretsInv, NewSecretKey
    PROVE  SecretsInv'
<1>1. /\ keyFile' = [is |-> "empty", key |-> NoKey, synced |-> FALSE] /\ generated' = generated + 1
      /\ startup' = [at |-> "writing", key |-> generated', previous |-> NoKey] /\ adopted' = adopted
      /\ configured' = configured /\ keyFile.is = "absent"
      /\ UNCHANGED <<secrets, encryptionKey, configured, backups, part>>
  BY DEF NewSecretKey
<1>2. generated \in Nat /\ KeyFileInv /\ NoKey = 0
  BY DEF SecretsInv, SecretTypes, NoKey
<1>3. generated' \in Nat /\ generated' # NoKey
  BY <1>1, <1>2
<1>4. keyFile' \in KeyFiles /\ keyFile'.is = "empty" /\ keyFile'.key = NoKey /\ ~keyFile'.synced
  BY <1>1, <1>2 DEF KeyFiles
<1>5. startup' \in Startups /\ startup'.at = "writing" /\ startup'.key = generated'
  BY <1>1, <1>2, <1>3 DEF Startups
<1>6. Held \subseteq Held'
  BY <1>1, <1>2 DEF Held, KeptKeys, KeyFileInv
<1>7. KeyFileInv' /\ StartupInv'
  BY <1>3, <1>4, <1>5 DEF KeyFileInv, StartupInv
<1>8. QED
  BY <1>1, <1>3, <1>4, <1>5, <1>6, <1>7, StartGoesOn

LEMMA WriteKeyKeeps ==
    ASSUME SecretsInv, WriteKey
    PROVE  SecretsInv'
<1>1. /\ startup.at = "writing" /\ keyFile' = [is |-> "written", key |-> startup.key, synced |-> FALSE]
      /\ startup' = [startup EXCEPT !.at = "syncing"] /\ adopted' = adopted /\ configured' = configured
      /\ generated' = generated /\ UNCHANGED <<secrets, encryptionKey, configured, backups, part>>
  BY DEF WriteKey
<1>2. startup \in Startups /\ startup.key \in Nat /\ startup.key # NoKey /\ ~keyFile.synced /\ generated \in Nat
  BY <1>1 DEF SecretsInv, SecretTypes, Startups, StartupInv, KeyFileInv
<1>3. keyFile' \in KeyFiles /\ keyFile'.is = "written" /\ keyFile'.key = startup.key /\ ~keyFile'.synced
  BY <1>1, <1>2 DEF KeyFiles
<1>4. startup' \in Startups /\ startup'.at = "syncing" /\ startup'.key = startup.key
  BY <1>1, <1>2 DEF Startups
<1>5. Held \subseteq Held'
  BY <1>1, <1>2 DEF Held, KeptKeys
<1>6. KeyFileInv' /\ StartupInv'
  BY <1>2, <1>3, <1>4 DEF KeyFileInv, StartupInv
<1>7. QED
  BY <1>1, <1>2, <1>3, <1>4, <1>5, <1>6, StartGoesOn

LEMMA SyncKeyKeeps ==
    ASSUME SecretsInv, SyncKey
    PROVE  SecretsInv'
<1>1. /\ startup.at = "syncing" /\ keyFile' = [keyFile EXCEPT !.synced = TRUE]
      /\ startup' = [startup EXCEPT !.at = "sealing"] /\ adopted' = adopted /\ configured' = configured
      /\ generated' = generated /\ UNCHANGED <<secrets, encryptionKey, configured, backups, part>>
  BY DEF SyncKey
<1>2. /\ startup \in Startups /\ startup.key # NoKey /\ keyFile \in KeyFiles /\ generated \in Nat
      /\ keyFile.is = "written" /\ ~keyFile.synced /\ keyFile.key = startup.key
  BY <1>1 DEF SecretsInv, SecretTypes, StartupInv
<1>3. keyFile' \in KeyFiles /\ keyFile'.is = "written" /\ keyFile'.key = startup.key /\ keyFile'.synced
  BY <1>1, <1>2 DEF KeyFiles
<1>4. startup' \in Startups /\ startup'.at = "sealing" /\ startup'.key = startup.key
  BY <1>1, <1>2 DEF Startups
<1>5. Held \subseteq Held' /\ startup.key \in KeptKeys'
  BY <1>1, <1>2, <1>3 DEF Held, KeptKeys
<1>6. KeyFileInv' /\ StartupInv'
  BY <1>2, <1>3, <1>4, <1>5 DEF KeyFileInv, StartupInv
<1>7. QED
  BY <1>1, <1>2, <1>3, <1>4, <1>5, <1>6, StartGoesOn

(* What becomes of the file while its key is not synced takes no key away. *)
LEMMA KeyFileGoes ==
    ASSUME SecretsInv, startup' = Down, adopted' = adopted,
           UNCHANGED <<secrets, encryptionKey, configured, generated, backups, part>>,
           \/ keyFile' = keyFile
           \/ /\ ~keyFile.synced /\ keyFile' \in {[is |-> "absent", key |-> NoKey, synced |-> FALSE],
                                                 [is |-> "empty", key |-> NoKey, synced |-> FALSE]}
    PROVE  SecretsInv'
<1>1. keyFile \in KeyFiles /\ KeyFileInv /\ generated' \in Nat /\ configured' = configured
      /\ UNCHANGED <<secrets, encryptionKey, configured, backups, part>>
  BY DEF SecretsInv, SecretTypes
<1>2. keyFile' \in KeyFiles /\ KeyFileInv'
  <2>1. CASE keyFile' = keyFile
    BY <1>1, <2>1 DEF KeyFileInv
  <2>2. CASE keyFile' \in {[is |-> "absent", key |-> NoKey, synced |-> FALSE],
                          [is |-> "empty", key |-> NoKey, synced |-> FALSE]}
    <3>1. NoKey \in Nat
      BY DEF NoKey
    <3>2. keyFile' \in KeyFiles
      <4>1. [is |-> "absent", key |-> NoKey, synced |-> FALSE] \in KeyFiles
        BY <3>1 DEF KeyFiles
      <4>2. [is |-> "empty", key |-> NoKey, synced |-> FALSE] \in KeyFiles
        BY <3>1 DEF KeyFiles
      <4>3. QED
        BY <2>2, <4>1, <4>2
    <3>3. keyFile'.is \in {"absent", "empty"} /\ keyFile'.key = NoKey /\ ~keyFile'.synced
      BY <2>2
    <3>4. QED
      BY <3>2, <3>3 DEF KeyFileInv
  <2>3. QED
    BY <2>1, <2>2
<1>3. Held \subseteq Held'
  BY <1>1 DEF Held, KeptKeys
<1>4. QED
  BY <1>1, <1>2, <1>3, DownIsFine, StartGoesOn

(* A seal leaves every credential under the one key, if it leaves it.      *)
LEMMA SealSecretsKeeps ==
    ASSUME SecretsInv, SealSecrets
    PROVE  SecretsInv'
<1>1. /\ startup.at = "sealing" /\ startup' = [startup EXCEPT !.at = "up"]
      /\ secrets' = [c \in Cells |-> IF secrets[c] = Nothing THEN Nothing ELSE Sealed(startup.key)]
      /\ keyFile' = keyFile /\ encryptionKey' = encryptionKey /\ configured' = configured
      /\ generated' = generated /\ adopted' = adopted /\ backups' = backups /\ part' = part
  BY DEF SealSecrets
<1>2. startup \in Startups /\ startup.key \in Nat /\ startup.key # NoKey /\ startup.key \in Held
  BY <1>1 DEF SecretsInv, SecretTypes, Startups, StartupInv, Held
<1>3. startup' \in Startups /\ startup'.at = "up" /\ startup'.key = startup.key
  BY <1>1, <1>2 DEF Startups
<1>4. secrets' \in [Cells -> CellRecords]
  BY <1>1, <1>2, CellsAre
<1>5. Held' = Held
  BY <1>1 DEF Held, KeptKeys
<1>6. \A c \in Cells : secrets'[c] = Nothing \/ secrets'[c] = Sealed(startup.key)
  BY <1>1
<1>7. StartupInv'
  <2>1. \A c \in Cells : secrets'[c] = Nothing \/ Opens(secrets'[c], startup'.key)
    BY <1>2, <1>3, <1>6, CellsAre
  <2>2. QED
    BY <1>2, <1>3, <1>5, <2>1 DEF StartupInv, Held
<1>8. SealingInv'
  <2>1. Under(secrets', Held')
    BY <1>2, <1>5, <1>6, CellsAre DEF Under
  <2>2. QED
    BY <1>1, <1>5, <2>1 DEF SecretsInv, SealingInv
<1>9. SecretTypes' /\ KeyFileInv'
  BY <1>1, <1>3, <1>4 DEF SecretsInv, SecretTypes, KeyFileInv
<1>10. QED
  BY <1>7, <1>8, <1>9 DEF SecretsInv

(* One credential is written, under the key in use or as it is given.      *)
LEMMA CellKeeps ==
    ASSUME SecretsInv, NEW c \in Cells, NEW cell \in CellRecords, secrets' = [secrets EXCEPT ![c] = cell],
           IsSealed(cell) => cell.key \in Held,
           startup.at = "up" => cell = Nothing \/ Opens(cell, startup.key),
           UNCHANGED <<keyFile, encryptionKey, configured, generated, adopted, startup, backups, part>>
    PROVE  SecretsInv'
<1>1. /\ keyFile' = keyFile /\ encryptionKey' = encryptionKey /\ configured' = configured
      /\ generated' = generated /\ adopted' = adopted /\ backups' = backups /\ part' = part /\ startup' = startup
  OBVIOUS
<1>2. secrets \in [Cells -> CellRecords]
  BY DEF SecretsInv, SecretTypes
<1>3. secrets' \in [Cells -> CellRecords] /\ secrets'[c] = cell /\ \A d \in Cells \ {c} : secrets'[d] = secrets[d]
  BY <1>2
<1>4. Held' = Held /\ KeptKeys' = KeptKeys
  BY <1>1 DEF Held, KeptKeys
<1>5. SecretTypes' /\ KeyFileInv'
  BY <1>1, <1>3 DEF SecretsInv, SecretTypes, KeyFileInv
<1>6. StartupInv'
  BY <1>1, <1>3, <1>4 DEF SecretsInv, StartupInv
<1>7. SealingInv'
  BY <1>1, <1>3, <1>4 DEF SecretsInv, SealingInv, Under
<1>8. QED
  BY <1>5, <1>6, <1>7 DEF SecretsInv

LEMMA CellsWritten ==
    ASSUME SecretsInv, NEW c \in Cells,
           StoredPlain(c) \/ (\E cell \in {Nothing, Sealed(startup.key)} : WriteSecret(c, cell))
    PROVE  SecretsInv'
<1>1. CASE StoredPlain(c)
  <2>1. /\ startup.at = "down" /\ secrets' = [secrets EXCEPT ![c] = Plain]
        /\ UNCHANGED <<keyFile, encryptionKey, configured, generated, adopted, startup, backups, part>>
    BY <1>1 DEF StoredPlain
  <2>2. QED
    BY <2>1, CellsAre, CellKeeps
<1>2. ASSUME NEW cell \in {Nothing, Sealed(startup.key)}, WriteSecret(c, cell) PROVE SecretsInv'
  <2>1. /\ startup.at = "up" /\ secrets' = [secrets EXCEPT ![c] = cell]
        /\ UNCHANGED <<keyFile, encryptionKey, configured, generated, adopted, startup, backups, part>>
    BY <1>2 DEF WriteSecret
  <2>2. startup.key \in Nat /\ startup.key # NoKey /\ startup.key \in Held
    BY <2>1 DEF SecretsInv, SecretTypes, Startups, StartupInv, Held
  <2>3. cell \in CellRecords /\ (IsSealed(cell) => cell.key \in Held) /\ (cell = Nothing \/ Opens(cell, startup.key))
    BY <2>2, CellsAre
  <2>4. QED
    BY <2>1, <2>3, CellKeeps
<1>3. QED
  BY <1>1, <1>2

LEMMA ConfigureKeeps ==
    ASSUME SecretsInv, NEW key \in EnvKeys \cup {NoKey}, Configure(key)
    PROVE  SecretsInv'
<1>1. /\ startup.at = "down" /\ encryptionKey' = key /\ configured' = configured \cup ({key} \ {NoKey})
      /\ secrets' = secrets /\ keyFile' = keyFile /\ generated' = generated /\ adopted' = adopted
      /\ startup' = startup /\ backups' = backups /\ part' = part
  BY DEF Configure
<1>2. SecretTypes'
  BY <1>1 DEF SecretsInv, SecretTypes
<1>3. KeyFileInv' /\ StartupInv'
  BY <1>1 DEF SecretsInv, KeyFileInv, StartupInv
<1>4. Held \subseteq Held'
  BY <1>1 DEF Held, KeptKeys
<1>5. QED
  BY <1>1, <1>2, <1>3, <1>4, HeldGrows DEF SecretsInv

(* Backups copy what is stored, and restores bring it back.                *)
LEMMA BackupSteps ==
    ASSUME SecretsInv, BackupBegins \/ BackupCopies \/ BackupLands \/ BackupFails
    PROVE  SecretsInv'
<1>1. /\ secrets' = secrets /\ keyFile' = keyFile /\ encryptionKey' = encryptionKey /\ configured' = configured
      /\ generated' = generated /\ adopted' = adopted /\ startup' = startup
  BY DEF BackupBegins, BackupCopies, BackupLands, BackupFails
<1>2. Held' = Held /\ KeptKeys' = KeptKeys
  BY <1>1 DEF Held, KeptKeys
<1>3. KeyFileInv' /\ StartupInv'
  BY <1>1, <1>2 DEF SecretsInv, KeyFileInv, StartupInv
<1>4. /\ part'.is \in {"none", "begun", "copied"}
      /\ part'.is = "copied" => part'.content \in [Cells -> CellRecords] /\ Under(part'.content, Held)
  <2>1. CASE BackupCopies
    BY <2>1 DEF BackupCopies, SecretsInv, SecretTypes, SealingInv
  <2>2. CASE BackupBegins \/ BackupLands \/ BackupFails
    BY <2>2 DEF BackupBegins, BackupLands, BackupFails, NoPart
  <2>3. QED
    BY <2>1, <2>2
<1>5. /\ backups' \in Seq([Cells -> CellRecords]) /\ Len(backups') <= KeepBackups
      /\ \A i \in DOMAIN backups' : Under(backups'[i], Held)
  <2>1. CASE BackupLands
    <3> DEFINE more == Append(backups, part.content)
    <3>1. backups' = IF Len(more) > KeepBackups THEN Tail(more) ELSE more
      BY <2>1 DEF BackupLands, NewestBackups
    <3>2. /\ backups \in Seq([Cells -> CellRecords]) /\ part.content \in [Cells -> CellRecords]
          /\ Len(backups) <= KeepBackups /\ Under(part.content, Held) /\ \A i \in DOMAIN backups : Under(backups[i], Held)
      BY <2>1 DEF BackupLands, SecretsInv, SecretTypes, SealingInv
    <3>3. /\ more \in Seq([Cells -> CellRecords]) /\ Len(more) = Len(backups) + 1
          /\ \A i \in 1..Len(more) : more[i] = IF i <= Len(backups) THEN backups[i] ELSE part.content
      BY <3>2
    <3>4. KeepBackups \in Nat /\ Len(backups) \in Nat /\ DOMAIN backups = 1..Len(backups) /\ DOMAIN more = 1..Len(more)
      BY <3>2, <3>3, SecretsAssumption
    <3> HIDE DEF more
    <3>5. \A i \in 1..Len(more) : Under(more[i], Held)
      BY <3>2, <3>3, <3>4
    <3>6. CASE Len(more) > KeepBackups
      <4>1. backups' = Tail(more) /\ Len(more) # 0
        BY <3>1, <3>4, <3>6, <3>3
      <4>2. /\ Tail(more) \in Seq([Cells -> CellRecords]) /\ Len(Tail(more)) = Len(more) - 1
            /\ \A i \in 1..Len(Tail(more)) : Tail(more)[i] = more[i + 1]
            /\ DOMAIN Tail(more) = 1..Len(Tail(more))
        BY <3>3, <4>1
      <4>3. Len(backups') <= KeepBackups
        BY <3>2, <3>3, <3>4, <4>1, <4>2
      <4>4. \A i \in 1..Len(Tail(more)) : i + 1 \in 1..Len(more)
        BY <3>3, <3>4, <4>2
      <4>5. \A i \in DOMAIN backups' : Under(backups'[i], Held)
        BY <3>5, <4>1, <4>2, <4>4
      <4>6. QED
        BY <4>1, <4>2, <4>3, <4>5
    <3>7. CASE ~(Len(more) > KeepBackups)
      BY <3>1, <3>3, <3>4, <3>5, <3>7
    <3>8. QED
      BY <3>6, <3>7
  <2>2. CASE BackupBegins \/ BackupCopies \/ BackupFails
    BY <2>2 DEF BackupBegins, BackupCopies, BackupFails, SecretsInv, SecretTypes, SealingInv
  <2>3. QED
    BY <2>1, <2>2
<1>6. SecretTypes'
  BY <1>1, <1>4, <1>5 DEF SecretsInv, SecretTypes
<1>7. SealingInv'
  BY <1>1, <1>2, <1>4, <1>5 DEF SecretsInv, SealingInv
<1>8. QED
  BY <1>3, <1>6, <1>7 DEF SecretsInv

LEMMA RestoreKeeps ==
    ASSUME SecretsInv, NEW i \in DOMAIN backups, Restore(i)
    PROVE  SecretsInv'
<1>1. /\ startup.at = "down" /\ secrets' = backups[i]
      /\ keyFile' = keyFile /\ encryptionKey' = encryptionKey /\ configured' = configured
      /\ generated' = generated /\ adopted' = adopted /\ startup' = startup /\ backups' = backups /\ part' = part
  BY DEF Restore
<1>2. backups[i] \in [Cells -> CellRecords] /\ Under(backups[i], Held)
  BY DEF SecretsInv, SecretTypes, SealingInv
<1>3. Held' = Held /\ KeptKeys' = KeptKeys
  BY <1>1 DEF Held, KeptKeys
<1>4. SecretTypes' /\ KeyFileInv'
  BY <1>1, <1>2 DEF SecretsInv, SecretTypes, KeyFileInv
<1>5. StartupInv'
  BY <1>1 DEF SecretsInv, StartupInv
<1>6. SealingInv'
  BY <1>1, <1>2, <1>3 DEF SecretsInv, SealingInv
<1>7. QED
  BY <1>4, <1>5, <1>6 DEF SecretsInv

LEMMA SecretsKeep ==
    ASSUME SecretsInv, [SecretsNext]_secretVars
    PROVE  SecretsInv'
<1>1. CASE UNCHANGED secretVars
  <2>1. /\ secrets' = secrets /\ keyFile' = keyFile /\ encryptionKey' = encryptionKey /\ configured' = configured
        /\ generated' = generated /\ adopted' = adopted /\ startup' = startup /\ backups' = backups /\ part' = part
    BY <1>1 DEF secretVars
  <2>2. Held' = Held /\ KeptKeys' = KeptKeys
    BY <2>1 DEF Held, KeptKeys
  <2>3. QED
    BY <2>1, <2>2 DEF SecretsInv, SecretTypes, KeyFileInv, StartupInv, SealingInv
<1>2. ASSUME SealFails \/ StopService PROVE SecretsInv'
  <2>1. /\ startup' = Down /\ adopted' = adopted /\ keyFile' = keyFile
        /\ UNCHANGED <<secrets, encryptionKey, configured, generated, backups, part>>
    BY <1>2 DEF SealFails, StopService
  <2>2. QED
    BY <2>1, KeyFileGoes
<1>3. ASSUME WriteKeyFails PROVE SecretsInv'
  <2>1. /\ startup.at \in {"writing", "syncing"} /\ startup' = Down /\ adopted' = adopted
        /\ keyFile' = [is |-> "absent", key |-> NoKey, synced |-> FALSE]
        /\ UNCHANGED <<secrets, encryptionKey, configured, generated, backups, part>>
    BY <1>3 DEF WriteKeyFails
  <2>2. ~keyFile.synced
    BY <2>1 DEF SecretsInv, StartupInv, KeyFileInv
  <2>3. QED
    BY <2>1, <2>2, KeyFileGoes
<1>4. ASSUME PowerCut PROVE SecretsInv'
  <2>1. /\ startup' = Down /\ adopted' = adopted
        /\ UNCHANGED <<secrets, encryptionKey, configured, generated, backups, part>>
        /\ \/ keyFile' = keyFile
           \/ /\ ~keyFile.synced /\ keyFile' \in {[is |-> "absent", key |-> NoKey, synced |-> FALSE],
                                                 [is |-> "empty", key |-> NoKey, synced |-> FALSE]}
    BY <1>4 DEF PowerCut
  <2>2. QED
    BY <2>1, KeyFileGoes
<1>5. ASSUME RemoveEmptyKeyFile PROVE SecretsInv'
  <2>1. /\ startup.at = "down" /\ startup' = startup /\ adopted' = adopted /\ keyFile.is = "empty"
        /\ keyFile' = [is |-> "absent", key |-> NoKey, synced |-> FALSE] /\ generated' = generated
        /\ configured' = configured /\ UNCHANGED <<secrets, encryptionKey, configured, backups, part>>
    BY <1>5 DEF RemoveEmptyKeyFile
  <2>2. ~keyFile.synced /\ startup \in Startups /\ generated \in Nat
    BY <2>1 DEF SecretsInv, SecretTypes, KeyFileInv
  <2>3. keyFile' \in KeyFiles /\ KeyFileInv' /\ StartupInv'
    BY <2>1 DEF KeyFiles, KeyFileInv, StartupInv, NoKey
  <2>4. Held \subseteq Held'
    BY <2>1, <2>2 DEF Held, KeptKeys
  <2>5. QED
    BY <2>1, <2>2, <2>3, <2>4, StartGoesOn
<1>6. QED
  BY <1>1, <1>2, <1>3, <1>4, <1>5, PickKeyKeeps, NewSecretKeyKeeps, WriteKeyKeeps, SyncKeyKeeps, SealSecretsKeeps,
     CellsWritten, ConfigureKeeps, BackupSteps, RestoreKeeps DEF SecretsNext

LEMMA SecretsHold == SecretsInv => SecretsStayReadable
<1> SUFFICES ASSUME SecretsInv PROVE SecretsStayReadable
    OBVIOUS
<1>1. ASSUME NEW cells \in {secrets} \cup {backups[i] : i \in DOMAIN backups}
      PROVE  \A c \in Cells : IsSealed(cells[c]) => cells[c].key \in Held
  BY DEF SecretsInv, SealingInv, Under
<1>2. SealedUnder(KeptKeys \cup adopted)
  BY <1>1 DEF SealedUnder, Held
<1>3. QED
  BY <1>2 DEF SecretsStayReadable, SecretsInv, StartupInv
-----------------------------------------------------------------------------
(* Saved images. A file is temporary while its saver holds the lock, and   *)
(* the cleanup starts with the oldest.                                     *)
ImageFiles == [name : Nat, size : Nat, whole : BOOLEAN, temporary : BOOLEAN]
SaverRecords == [name : Nat, size : Nat]

ImageTables ==
    /\ drawn \in Nat /\ images \subseteq ImageFiles /\ saver \in [Savers -> SaverRecords]
    /\ \A f \in images : f.name \in 1..drawn
    /\ \A f, g \in images : f.name = g.name => f = g
    /\ evicted \subseteq 1..drawn

SavingInv ==
    /\ imageLock \in Savers \cup {"free", "cleanup"}
    /\ \A w \in Savers : saver[w].name # 0 <=> imageLock = w
    /\ \A w \in Savers : imageLock = w =>
         /\ \A f \in FileOf(w) : f.temporary
         /\ \E f \in images : f.name = saver[w].name

ImagesInv == ImageTables /\ SavingInv /\ ImagesAreWhole

LEMMA ImagesStart == ImagesInit => ImagesInv
<1> SUFFICES ASSUME ImagesInit PROVE ImagesInv
    OBVIOUS
<1>1. images = {} /\ drawn = 0 /\ imageLock = "free" /\ saver = [w \in Savers |-> NoImage] /\ marked = {} /\ evicted = {}
  BY DEF ImagesInit
<1>2. "free" \notin Savers
  BY ImagesAssumption
<1>3. NoImage \in SaverRecords /\ NoImage.name = 0
  BY DEF NoImage, SaverRecords
<1>4. saver \in [Savers -> SaverRecords] /\ \A w \in Savers : saver[w].name = 0
  BY <1>1, <1>3
<1>5. ImageTables
  BY <1>1, <1>4 DEF ImageTables
<1>6. SavingInv
  BY <1>1, <1>2, <1>4 DEF SavingInv
<1>7. ImagesAreWhole
  BY <1>1 DEF ImagesAreWhole, Served
<1>8. QED
  BY <1>5, <1>6, <1>7 DEF ImagesInv

LEMMA SaveKeeps ==
    ASSUME ImagesInv, NEW w \in Savers, NEW size \in Nat, Save(w, size)
    PROVE  ImagesInv'
<1> DEFINE new == [name |-> drawn + 1, size |-> 0, whole |-> FALSE, temporary |-> TRUE]
           record == [name |-> drawn + 1, size |-> size]
<1>1. /\ imageLock = "free" /\ drawn' = drawn + 1 /\ imageLock' = w /\ drawn \in Nat
      /\ images' = images \cup {new} /\ saver' = [saver EXCEPT ![w] = record]
      /\ marked' = marked /\ evicted' = evicted
  BY DEF Save, NewFile, ImagesInv, ImageTables
<1>2. new \in ImageFiles /\ record \in SaverRecords
  BY <1>1 DEF ImageFiles, SaverRecords
<1>3. new.name = drawn + 1 /\ new.temporary /\ ~new.whole /\ record.name = drawn + 1
  OBVIOUS
<1> HIDE DEF new, record
<1>4. \A f \in images : f.name \in 1..drawn /\ f.name # new.name /\ f.name \in 1..drawn'
  BY <1>1, <1>3 DEF ImagesInv, ImageTables
<1>5. ImageTables'
  <2>1. images' \subseteq ImageFiles
    BY <1>1, <1>2 DEF ImagesInv, ImageTables
  <2>2. saver' \in [Savers -> SaverRecords]
    BY <1>1, <1>2 DEF ImagesInv, ImageTables
  <2>3. \A f \in images' : f.name \in 1..drawn'
    BY <1>1, <1>3, <1>4
  <2>4. \A f, g \in images' : f.name = g.name => f = g
    BY <1>1, <1>4 DEF ImagesInv, ImageTables
  <2>5. evicted' \subseteq 1..drawn'
    BY <1>1 DEF ImagesInv, ImageTables
  <2>6. QED
    BY <1>1, <2>1, <2>2, <2>3, <2>4, <2>5 DEF ImageTables
<1>6. saver'[w] = record /\ \A v \in Savers \ {w} : saver'[v] = saver[v]
  BY <1>1 DEF ImagesInv, ImageTables
<1>7. SavingInv'
  <2>1. \A v \in Savers : saver'[v].name # 0 <=> imageLock' = v
    <3>1. w \notin {"free", "cleanup"} /\ "free" \notin Savers
      BY ImagesAssumption
    <3>2. saver'[w].name # 0
      BY <1>1, <1>3, <1>6
    <3>3. \A v \in Savers \ {w} : saver'[v].name = 0
      BY <1>1, <1>6, <3>1 DEF ImagesInv, SavingInv
    <3>4. QED
      BY <1>1, <3>2, <3>3
  <2>2. \A f \in images' : f.name = saver'[w].name => f = new
    BY <1>1, <1>3, <1>4, <1>6
  <2>3. new \in images' /\ new.name = saver'[w].name
    BY <1>1, <1>3, <1>6
  <2>4. QED
    BY <1>1, <1>3, <2>1, <2>2, <2>3 DEF SavingInv, FileOf
<1>8. ImagesAreWhole'
  <2>1. Served' = Served
    BY <1>1, <1>3 DEF Served
  <2>2. \A name \in evicted', f \in images' : name < f.name
    <3>1. \A name \in evicted : name < new.name
      BY <1>1, <1>3 DEF ImagesInv, ImageTables
    <3>2. QED
      BY <1>1, <3>1 DEF ImagesInv, ImagesAreWhole
  <2>3. QED
    BY <1>1, <2>1, <2>2 DEF ImagesInv, ImagesAreWhole
<1>9. QED
  BY <1>5, <1>7, <1>8 DEF ImagesInv

(* The files of a saver's image are one, and temporary until renamed.      *)
LEMMA SaversFile ==
    ASSUME ImagesInv, NEW w \in Savers, imageLock = w
    PROVE  \E f \in images : FileOf(w) = {f} /\ f.name = saver[w].name /\ f.temporary /\ f \in ImageFiles
<1>1. PICK f \in images : f.name = saver[w].name
  BY DEF ImagesInv, SavingInv
<1>2. FileOf(w) = {f}
  BY <1>1 DEF FileOf, ImagesInv, ImageTables
<1>3. f.temporary /\ f \in ImageFiles
  BY <1>2 DEF ImagesInv, SavingInv, ImageTables
<1>4. QED
  BY <1>1, <1>2, <1>3

\* One file takes another's place under its name.
LEMMA FileReplaced ==
    ASSUME ImageTables, NEW f \in images, NEW g \in ImageFiles, g.name = f.name,
           images' = (images \ {f}) \cup {g}, drawn' = drawn, saver' \in [Savers -> SaverRecords], evicted' = evicted
    PROVE  ImageTables'
<1>1. images' \subseteq ImageFiles
  BY DEF ImageTables
<1>2. \A h \in images' : h.name \in 1..drawn'
  BY DEF ImageTables
<1>3. \A h, k \in images' : h.name = k.name => h = k
  BY DEF ImageTables
<1>4. QED
  BY <1>1, <1>2, <1>3 DEF ImageTables

LEMMA WriteImageKeeps ==
    ASSUME ImagesInv, NEW w \in Savers, WriteImage(w)
    PROVE  ImagesInv'
<1>1. PICK f \in images : FileOf(w) = {f} /\ f.name = saver[w].name /\ f.temporary /\ f \in ImageFiles
  BY SaversFile DEF WriteImage
<1> DEFINE g == [f EXCEPT !.size = saver[w].size, !.whole = TRUE]
<1>2. saver[w].size \in Nat
  BY DEF ImagesInv, ImageTables, SaverRecords
<1>3. g.name = f.name /\ g.temporary /\ g.whole
  BY <1>1 DEF ImageFiles
<1>4. g \in ImageFiles
  BY <1>1, <1>2 DEF ImageFiles
<1>5. /\ images' = (images \ {f}) \cup {g} /\ imageLock' = w /\ imageLock = w
      /\ drawn' = drawn /\ saver' = saver /\ marked' = marked /\ evicted' = evicted
  <2>1. {[h EXCEPT !.size = saver[w].size, !.whole = TRUE] : h \in FileOf(w)} = {g}
    BY <1>1
  <2>2. QED
    BY <1>1, <2>1 DEF WriteImage
<1> HIDE DEF g
<1>6. ImageTables'
  BY <1>1, <1>3, <1>4, <1>5, FileReplaced DEF ImagesInv, ImageTables
<1>7. SavingInv'
  <2>1. \A h \in images' : h.name = saver'[w].name => h = g
    BY <1>1, <1>5 DEF FileOf
  <2>2. QED
    BY <1>1, <1>3, <1>5, <2>1 DEF ImagesInv, SavingInv, FileOf
<1>8. ImagesAreWhole'
  <2>1. Served' = Served
    BY <1>1, <1>3, <1>5 DEF Served
  <2>2. QED
    BY <1>1, <1>3, <1>5, <2>1 DEF ImagesInv, ImagesAreWhole
<1>9. QED
  BY <1>6, <1>7, <1>8 DEF ImagesInv

\* The lock is let go, and nobody is writing.
LEMMA LockFreed ==
    ASSUME ImagesInv, imageLock' = "free", \A w \in Savers : saver'[w].name = 0
    PROVE  SavingInv'
  BY ImagesAssumption DEF SavingInv

LEMMA SaverLeaves ==
    ASSUME ImagesInv, NEW w \in Savers, imageLock = w, saver' = [saver EXCEPT ![w] = NoImage]
    PROVE  saver' \in [Savers -> SaverRecords] /\ \A v \in Savers : saver'[v].name = 0
<1>1. NoImage \in SaverRecords /\ NoImage.name = 0
  BY DEF NoImage, SaverRecords
<1>2. saver \in [Savers -> SaverRecords]
  BY DEF ImagesInv, ImageTables
<1>3. \A v \in Savers \ {w} : saver[v].name = 0
  BY DEF ImagesInv, SavingInv
<1>4. QED
  BY <1>1, <1>2, <1>3

LEMMA RenameKeeps ==
    ASSUME ImagesInv, NEW w \in Savers, RenameImage(w)
    PROVE  ImagesInv'
<1>1. PICK f \in images : FileOf(w) = {f} /\ f.name = saver[w].name /\ f.temporary /\ f \in ImageFiles
  BY SaversFile DEF RenameImage
<1> DEFINE g == [f EXCEPT !.temporary = FALSE]
<1>2. g.name = f.name /\ ~g.temporary /\ g.whole
  BY <1>1 DEF ImageFiles, RenameImage
<1>3. g \in ImageFiles
  BY <1>1 DEF ImageFiles
<1>4. /\ images' = (images \ {f}) \cup {g} /\ imageLock' = "free" /\ imageLock = w
      /\ saver' = [saver EXCEPT ![w] = NoImage]
      /\ drawn' = drawn /\ marked' = marked \cup {f.name} /\ evicted' = evicted
  <2>1. {[h EXCEPT !.temporary = FALSE] : h \in FileOf(w)} = {g}
    BY <1>1
  <2>2. QED
    BY <1>1, <2>1 DEF RenameImage
<1> HIDE DEF g
<1>5. saver' \in [Savers -> SaverRecords] /\ \A v \in Savers : saver'[v].name = 0
  BY <1>4, SaverLeaves
<1>6. ImageTables'
  BY <1>1, <1>2, <1>3, <1>4, <1>5, FileReplaced DEF ImagesInv
<1>7. SavingInv'
  BY <1>4, <1>5, LockFreed
<1>8. ImagesAreWhole'
  <2>1. Served' = Served \cup {g}
    BY <1>1, <1>2, <1>4 DEF Served
  <2>2. \A h \in Served' : h.whole
    BY <1>2, <2>1 DEF ImagesInv, ImagesAreWhole
  <2>3. marked' \subseteq {h.name : h \in Served'} \cup evicted'
    BY <1>2, <1>4, <2>1 DEF ImagesInv, ImagesAreWhole
  <2>4. \A name \in evicted', h \in images' : name < h.name
    BY <1>2, <1>4 DEF ImagesInv, ImagesAreWhole
  <2>5. QED
    BY <2>2, <2>3, <2>4 DEF ImagesAreWhole
<1>9. QED
  BY <1>6, <1>7, <1>8 DEF ImagesInv

\* Files go, none of them served.
LEMMA FilesGone ==
    ASSUME ImagesInv, images' \subseteq images, Served' = Served, drawn' = drawn, marked' = marked, evicted' = evicted,
           saver' \in [Savers -> SaverRecords]
    PROVE  ImageTables' /\ ImagesAreWhole'
  BY DEF ImagesInv, ImageTables, ImagesAreWhole

LEMMA SaveFailsKeeps ==
    ASSUME ImagesInv, NEW w \in Savers, SaveFails(w)
    PROVE  ImagesInv'
<1>1. PICK f \in images : FileOf(w) = {f} /\ f.name = saver[w].name /\ f.temporary /\ f \in ImageFiles
  BY SaversFile DEF SaveFails
<1>2. /\ images' = images \ {h \in FileOf(w) : h.whole} /\ imageLock' = "free" /\ imageLock = w
      /\ saver' = [saver EXCEPT ![w] = NoImage] /\ drawn' = drawn /\ marked' = marked /\ evicted' = evicted
  BY DEF SaveFails
<1>3. Served' = Served
  BY <1>1, <1>2 DEF Served
<1>4. saver' \in [Savers -> SaverRecords] /\ \A v \in Savers : saver'[v].name = 0
  BY <1>2, SaverLeaves
<1>5. QED
  BY <1>2, <1>3, <1>4, FilesGone, LockFreed DEF ImagesInv

(* The oldest of them all goes, and those evicted before were older.       *)
LEMMA EvictKeeps ==
    ASSUME ImagesInv, EvictOldest
    PROVE  ImagesInv'
<1>1. PICK f \in images : /\ \A g \in images : f.name <= g.name
                          /\ images' = images \ {f} /\ evicted' = evicted \cup {f.name}
  BY DEF EvictOldest
<1>2. drawn' = drawn /\ imageLock' = imageLock /\ saver' = saver /\ marked' = marked /\ imageLock = "cleanup"
  BY DEF EvictOldest
<1>3. ImageTables'
  BY <1>1, <1>2 DEF ImagesInv, ImageTables
<1>4. SavingInv'
  BY <1>2, ImagesAssumption DEF ImagesInv, SavingInv
<1>5. ImagesAreWhole'
  <2>1. Served' = Served \ {f}
    BY <1>1 DEF Served
  <2>2. marked' \subseteq {h.name : h \in Served'} \cup evicted'
    BY <1>1, <1>2, <2>1 DEF ImagesInv, ImagesAreWhole
  <2>3. \A g \in images \ {f} : f.name < g.name
    <3>1. \A g \in images \ {f} : f.name # g.name /\ g.name \in Nat /\ f.name \in Nat
      BY DEF ImagesInv, ImageTables, ImageFiles
    <3>2. QED
      BY <1>1, <3>1
  <2>4. QED
    BY <1>1, <2>1, <2>2, <2>3 DEF ImagesInv, ImagesAreWhole
<1>6. QED
  BY <1>3, <1>4, <1>5 DEF ImagesInv

LEMMA ImagesKeep ==
    ASSUME ImagesInv, [ImagesNext]_imageVars
    PROVE  ImagesInv'
<1>1. CASE UNCHANGED imageVars
  BY <1>1 DEF imageVars, ImagesInv, ImageTables, SavingInv, FileOf, ImagesAreWhole, Served
<1>2. ASSUME NEW w \in Savers, NEW size \in Sizes, Save(w, size) PROVE ImagesInv'
  <2>1. size \in Nat
    BY ImagesAssumption
  <2>2. QED
    BY <1>2, <2>1, SaveKeeps
<1>3. ASSUME (\E max \in Caps : BeginEnforce(max)) \/ EndCleanup PROVE ImagesInv'
  <2>1. /\ images' = images /\ drawn' = drawn /\ saver' = saver /\ marked' = marked /\ evicted' = evicted
        /\ imageLock \in {"free", "cleanup"} /\ imageLock' \in {"free", "cleanup"}
    BY <1>3 DEF BeginEnforce, EndCleanup
  <2>2. SavingInv'
    BY <2>1, ImagesAssumption DEF ImagesInv, SavingInv
  <2>3. QED
    BY <2>1, <2>2 DEF ImagesInv, ImageTables, ImagesAreWhole, Served
<1>4. ASSUME ImagesCrash PROVE ImagesInv'
  <2>1. /\ images' = images /\ drawn' = drawn /\ marked' = marked /\ evicted' = evicted
        /\ imageLock' = "free" /\ saver' = [w \in Savers |-> NoImage]
    BY <1>4 DEF ImagesCrash
  <2>2. saver' \in [Savers -> SaverRecords] /\ \A v \in Savers : saver'[v].name = 0
    BY <2>1 DEF NoImage, SaverRecords
  <2>3. QED
    BY <2>1, <2>2, FilesGone, LockFreed DEF Served, ImagesInv
<1>5. QED
  BY <1>1, <1>2, <1>3, <1>4, WriteImageKeeps, RenameKeeps, SaveFailsKeeps, EvictKeeps DEF ImagesNext
-----------------------------------------------------------------------------
(* The client's files. What a run is about to publish differs from what is *)
(* there in its own provider, or in what the user saved behind its back.   *)
SettingNames == {Setting[r] : r \in Runs} \cup {""}
FileRecords == [is : BOOLEAN, user : Texts \cup {""}, providers : [Providers -> SettingNames]]
PlanRecords ==
    [at : {"idle", "planned", "locked", "compared", "backed", "published"}, seen : FileRecords, next : FileRecords]

FileTables ==
    /\ config \in FileRecords /\ plan \in [Runs -> PlanRecords]
    /\ applied \in [Providers -> SettingNames] /\ overtaken \in BOOLEAN /\ edits \in Texts \cup {""}

LockInv ==
    /\ fileLock \in Runs \cup {NoRun}
    /\ \A r \in Runs : plan[r].at \notin {"idle", "planned"} => fileLock = r

\* Past its comparison, a run knows the file, short of one edit of the user's.
Compared(r) ==
    /\ plan[r].seen.providers = config.providers
    /\ plan[r].seen.user = config.user \/ (IF plan[r].seen.is THEN overtaken ELSE config.is)

PlansInv ==
    /\ \A r \in Runs : plan[r].at # "idle" => plan[r].next = Merge(r, plan[r].seen)
    /\ \A r \in Runs : plan[r].at \in {"compared", "backed"} => Compared(r)

FilesInv == FileTables /\ LockInv /\ PlansInv /\ EditsAreKept

LEMMA NoFileIs == NoFile \in FileRecords /\ NoPlan \in PlanRecords /\ NoPlan.at = "idle"
<1>1. [p \in Providers |-> ""] \in [Providers -> SettingNames]
  BY DEF SettingNames
<1>2. NoFile \in FileRecords
  BY <1>1 DEF NoFile, FileRecords
<1>3. QED
  BY <1>2 DEF NoPlan, PlanRecords

(* Merging touches one provider.                                           *)
LEMMA MergeIs ==
    ASSUME NEW r \in Runs, NEW file \in FileRecords
    PROVE  /\ Merge(r, file) \in FileRecords
           /\ Merge(r, file).is /\ Merge(r, file).user = file.user
           /\ Merge(r, file).providers = [file.providers EXCEPT ![Provider[r]] = Setting[r]]
<1> DEFINE providers == [file.providers EXCEPT ![Provider[r]] = Setting[r]]
<1>1. file.providers \in [Providers -> SettingNames] /\ Setting[r] \in SettingNames
  BY DEF FileRecords, SettingNames
<1>2. providers \in [Providers -> SettingNames]
  BY <1>1
<1>3. Merge(r, file) = [is |-> TRUE, user |-> file.user, providers |-> providers]
  <2>1. Merge(r, file) = [[file EXCEPT !.is = TRUE] EXCEPT !.providers = providers]
    BY DEF Merge, FileRecords
  <2>2. QED
    BY <2>1 DEF FileRecords
<1>4. file.user \in Texts \cup {""}
  BY DEF FileRecords
<1> HIDE DEF providers
<1>5. [is |-> TRUE, user |-> file.user, providers |-> providers] \in FileRecords
  BY <1>2, <1>4 DEF FileRecords
<1>6. QED
  BY <1>3, <1>5 DEF providers

LEMMA FilesStart == FilesInit => FilesInv
<1> SUFFICES ASSUME FilesInit PROVE FilesInv
    OBVIOUS
<1>1. config = NoFile /\ fileLock = NoRun /\ plan = [r \in Runs |-> NoPlan] /\ edits = "" /\ overtaken = FALSE
      /\ applied = [p \in Providers |-> ""]
  BY DEF FilesInit
<1>2. FileTables
  <2>1. applied \in [Providers -> SettingNames]
    BY <1>1 DEF SettingNames
  <2>2. QED
    BY <1>1, <2>1, NoFileIs DEF FileTables
<1>3. LockInv /\ PlansInv
  BY <1>1, NoFileIs DEF LockInv, PlansInv
<1>4. EditsAreKept
  BY <1>1 DEF EditsAreKept, NoFile
<1>5. QED
  BY <1>2, <1>3, <1>4 DEF FilesInv

\* One run goes on; the rest stand where they stood.
Moves(r) ==
    /\ plan' = [plan EXCEPT ![r] = plan'[r]] /\ plan'[r] \in PlanRecords
    /\ plan'[r].at # "idle" => plan'[r].next = Merge(r, plan'[r].seen)

LEMMA RunMoves ==
    ASSUME FilesInv, NEW r \in Runs, Moves(r),
           config' = config, edits' = edits, overtaken' = overtaken, applied' = applied,
           fileLock' \in Runs \cup {NoRun},
           plan'[r].at \notin {"idle", "planned"} => fileLock' = r,
           \A q \in Runs \ {r} : plan[q].at \notin {"idle", "planned"} => fileLock' = q,
           plan'[r].at \in {"compared", "backed"} => Compared(r)'
    PROVE  FilesInv'
<1>1. plan \in [Runs -> PlanRecords]
  BY DEF FilesInv, FileTables
<1>2. \A q \in Runs \ {r} : plan'[q] = plan[q]
  BY <1>1 DEF Moves
<1>3. plan' \in [Runs -> PlanRecords]
  BY <1>1 DEF Moves
<1>4. FileTables'
  BY <1>3 DEF FilesInv, FileTables
<1>5. LockInv'
  BY <1>2 DEF LockInv
<1>6. PlansInv'
  <2>1. \A q \in Runs : plan'[q].at # "idle" => plan'[q].next = Merge(q, plan'[q].seen)
    BY <1>2 DEF FilesInv, PlansInv, Moves
  <2>2. \A q \in Runs \ {r} : plan'[q].at \in {"compared", "backed"} => Compared(q)'
    BY <1>2 DEF FilesInv, PlansInv, Compared
  <2>3. QED
    BY <1>2, <2>1, <2>2 DEF PlansInv
<1>7. EditsAreKept'
  BY DEF FilesInv, EditsAreKept
<1>8. QED
  BY <1>4, <1>5, <1>6, <1>7 DEF FilesInv

LEMMA RunEnds ==
    ASSUME FilesInv, NEW r \in Runs, plan' = [plan EXCEPT ![r] = NoPlan],
           fileLock' = fileLock \/ (fileLock' = NoRun /\ plan[r].at \notin {"idle", "planned"}),
           config' = config, edits' = edits, overtaken' = overtaken, applied' = applied
    PROVE  FilesInv'
<1>1. plan'[r] = NoPlan
  BY DEF FilesInv, FileTables
<1>1b. Moves(r)
  BY <1>1, NoFileIs DEF Moves
<1>2. fileLock' \in Runs \cup {NoRun}
  BY DEF FilesInv, LockInv
<1>3. \A q \in Runs \ {r} : plan[q].at \notin {"idle", "planned"} => fileLock' = q
  BY DEF FilesInv, LockInv
<1>4. QED
  BY <1>1, <1>1b, <1>2, <1>3, NoFileIs, RunMoves

LEMMA PlanKeeps ==
    ASSUME FilesInv, NEW r \in Runs, Plan(r)
    PROVE  FilesInv'
<1> DEFINE new == [at |-> "planned", seen |-> config, next |-> Merge(r, config)]
<1>1. config \in FileRecords /\ Merge(r, config) \in FileRecords
  BY MergeIs DEF FilesInv, FileTables
<1>2. new \in PlanRecords
  BY <1>1 DEF PlanRecords
<1>3. plan' = [plan EXCEPT ![r] = new] /\ UNCHANGED <<config, fileLock, edits, overtaken, applied>>
  BY DEF Plan
<1>4. new.at = "planned" /\ new.next = Merge(r, new.seen)
  OBVIOUS
<1> HIDE DEF new
<1>4b. plan'[r] = new
  BY <1>3 DEF FilesInv, FileTables
<1>5. Moves(r)
  BY <1>2, <1>3, <1>4, <1>4b DEF Moves
<1>6. fileLock' \in Runs \cup {NoRun} /\ \A q \in Runs : plan[q].at \notin {"idle", "planned"} => fileLock' = q
  BY <1>3 DEF FilesInv, LockInv
<1>7. QED
  BY <1>3, <1>4, <1>4b, <1>5, <1>6, RunMoves

\* A run that keeps its plan and takes the next step.
LEMMA StepsOn ==
    ASSUME FilesInv, NEW r \in Runs, plan[r].at # "idle",
           NEW at \in {"locked", "compared", "backed", "published"}, plan' = [plan EXCEPT ![r].at = at]
    PROVE  Moves(r) /\ plan'[r].at = at /\ plan'[r].seen = plan[r].seen
<1> DEFINE new == [plan[r] EXCEPT !.at = at]
<1>1. plan[r] \in PlanRecords /\ plan \in [Runs -> PlanRecords]
  BY DEF FilesInv, FileTables
<1>2. new.at = at /\ new.seen = plan[r].seen /\ new.next = plan[r].next
  BY <1>1 DEF PlanRecords
<1>3. new \in PlanRecords
  BY <1>1 DEF PlanRecords
<1>4. plan' = [plan EXCEPT ![r] = new] /\ plan'[r] = new
  BY <1>1
<1>5. new.next = Merge(r, new.seen)
  BY <1>2 DEF FilesInv, PlansInv
<1> HIDE DEF new
<1>6. Moves(r)
  BY <1>3, <1>4, <1>5 DEF Moves
<1>7. QED
  BY <1>2, <1>4, <1>6

LEMMA LockKeeps ==
    ASSUME FilesInv, NEW r \in Runs, Lock(r)
    PROVE  FilesInv'
<1>1. plan[r].at = "planned" /\ config' = config /\ edits' = edits /\ overtaken' = overtaken /\ applied' = applied
  BY DEF Lock
<1>2. CASE fileLock = NoRun
  <2>1. fileLock' = r /\ plan' = [plan EXCEPT ![r].at = "locked"]
    BY <1>2 DEF Lock
  <2>2. Moves(r) /\ plan'[r].at = "locked"
    BY <1>1, <2>1, StepsOn
  <2>3. \A q \in Runs : plan[q].at \in {"idle", "planned"}
    BY <1>2, FilesAssumption DEF FilesInv, LockInv, NoRun
  <2>4. QED
    BY <1>1, <2>1, <2>2, <2>3, RunMoves
<1>3. CASE fileLock # NoRun
  <2>1. plan' = [plan EXCEPT ![r] = NoPlan] /\ fileLock' = fileLock
    BY <1>3 DEF Lock
  <2>2. QED
    BY <1>1, <2>1, RunEnds
<1>4. QED
  BY <1>2, <1>3

(* A step of the holder of the lock that publishes nothing.                *)
LEMMA HolderSteps ==
    ASSUME FilesInv, NEW r \in Runs, plan[r].at \notin {"idle", "planned"},
           NEW at \in {"compared", "backed", "published"}, plan' = [plan EXCEPT ![r].at = at],
           config' = config, edits' = edits, overtaken' = overtaken, applied' = applied, fileLock' = fileLock,
           at \in {"compared", "backed"} => Compared(r)
    PROVE  FilesInv'
<1>1. Moves(r) /\ plan'[r].at = at /\ plan'[r].seen = plan[r].seen
  BY StepsOn
<1>2. fileLock' = r /\ fileLock' \in Runs \cup {NoRun}
  BY DEF FilesInv, LockInv
<1>3. \A q \in Runs \ {r} : plan[q].at \notin {"idle", "planned"} => fileLock' = q
  BY DEF FilesInv, LockInv
<1>4. at \in {"compared", "backed"} => Compared(r)'
  BY <1>1 DEF Compared
<1>5. QED
  BY <1>1, <1>2, <1>3, <1>4, RunMoves

LEMMA CompareKeeps ==
    ASSUME FilesInv, NEW r \in Runs, Compare(r)
    PROVE  FilesInv'
<1>1. plan[r].at = "locked" /\ config' = config /\ edits' = edits /\ overtaken' = overtaken
  BY DEF Compare
<1>2. CASE config # plan[r].seen
  <2>1. Ends(r) /\ applied' = applied
    BY <1>2 DEF Compare
  <2>2. QED
    BY <1>1, <2>1, RunEnds DEF Ends
<1>3. CASE config = plan[r].seen /\ plan[r].seen = plan[r].next
  <2>1. Ends(r) /\ Reports(r)
    BY <1>3 DEF Compare
  <2>2. config.providers = [config.providers EXCEPT ![Provider[r]] = Setting[r]] /\ Provider[r] \in Providers
        /\ config.providers \in [Providers -> SettingNames]
    <3>1. config \in FileRecords /\ config = Merge(r, config)
      BY <1>1, <1>3 DEF FilesInv, FileTables, PlansInv
    <3>2. QED
      BY <3>1, MergeIs DEF FileRecords, Providers
  <2>3. config.providers[Provider[r]] = Setting[r]
    BY <2>2
  <2>4. applied[Provider[r]] = Setting[r]
    BY <2>2, <2>3 DEF FilesInv, EditsAreKept
  <2>5. applied' = applied
    BY <2>1, <2>2, <2>4 DEF Reports, FilesInv, FileTables
  <2>6. QED
    BY <1>1, <2>1, <2>5, RunEnds DEF Ends
<1>4. CASE config = plan[r].seen /\ plan[r].seen # plan[r].next
  <2>1. plan' = [plan EXCEPT ![r].at = "compared"] /\ fileLock' = fileLock /\ applied' = applied
    BY <1>4 DEF Compare
  <2>2. Compared(r)
    BY <1>4 DEF Compared
  <2>3. QED
    BY <1>1, <2>1, <2>2, HolderSteps
<1>5. QED
  BY <1>2, <1>3, <1>4

LEMMA BackUpKeeps ==
    ASSUME FilesInv, NEW r \in Runs, BackUp(r)
    PROVE  FilesInv'
<1>1. /\ plan[r].at = "compared" /\ plan' = [plan EXCEPT ![r].at = "backed"]
      /\ config' = config /\ edits' = edits /\ overtaken' = overtaken /\ applied' = applied /\ fileLock' = fileLock
  BY DEF BackUp
<1>2. Compared(r)
  BY <1>1 DEF FilesInv, PlansInv
<1>3. QED
  BY <1>1, <1>2, HolderSteps

(* What is published differs from what was there in the run's own provider, *)
(* or takes an edit that was overtaken.                                     *)
LEMMA PublishKeeps ==
    ASSUME FilesInv, NEW r \in Runs, PublishFile(r)
    PROVE  FilesInv'
<1>1. /\ plan[r].at = "backed" /\ plan' = [plan EXCEPT ![r].at = "published"]
      /\ fileLock' = fileLock /\ edits' = edits /\ overtaken' = overtaken
  BY DEF PublishFile
<1>2. Compared(r) /\ plan[r].next = Merge(r, plan[r].seen) /\ plan[r].seen \in FileRecords /\ config \in FileRecords
  BY <1>1 DEF FilesInv, FileTables, PlansInv, PlanRecords
<1>3. CASE ~plan[r].seen.is /\ config.is
  <2>1. config' = config /\ applied' = applied
    BY <1>3 DEF PublishFile
  <2>2. QED
    BY <1>1, <2>1, HolderSteps
<1>4. CASE plan[r].seen.is \/ ~config.is
  <2>1. config' = plan[r].next /\ Reports(r)
    BY <1>4, <1>2 DEF PublishFile, FileRecords
  <2>2. /\ config' \in FileRecords /\ config'.user = plan[r].seen.user
        /\ config'.providers = [config.providers EXCEPT ![Provider[r]] = Setting[r]]
    BY <1>2, <2>1, MergeIs DEF Compared
  <2>3. applied' = [applied EXCEPT ![Provider[r]] = Setting[r]]
    BY <2>1 DEF Reports
  <2>4. /\ config.providers \in [Providers -> SettingNames] /\ applied \in [Providers -> SettingNames]
        /\ Provider[r] \in Providers /\ Setting[r] \in SettingNames
    BY DEF FilesInv, FileTables, FileRecords, Providers, SettingNames
  <2>5. \A p \in Providers : config'.providers[p] = applied'[p]
    BY <2>2, <2>3, <2>4 DEF FilesInv, EditsAreKept
  <2>6. ~overtaken' => config'.user = edits'
    BY <1>1, <1>2, <1>4, <2>2 DEF Compared, FilesInv, EditsAreKept
  <2>7. Moves(r) /\ plan'[r].at = "published"
    BY <1>1, StepsOn
  <2>8. plan \in [Runs -> PlanRecords]
    BY DEF FilesInv, FileTables
  <2>9. \A q \in Runs \ {r} : plan'[q] = plan[q] /\ plan[q].at \in {"idle", "planned"}
    BY <1>1, <2>8 DEF FilesInv, LockInv
  <2>10. FileTables'
    <3>1. applied' \in [Providers -> SettingNames]
      BY <2>3, <2>4
    <3>2. plan' \in [Runs -> PlanRecords]
      BY <2>7, <2>8 DEF Moves
    <3>3. QED
      BY <1>1, <2>2, <3>1, <3>2 DEF FilesInv, FileTables
  <2>11. LockInv'
    BY <1>1, <2>9 DEF FilesInv, LockInv
  <2>12. PlansInv'
    <3>1. \A q \in Runs : plan'[q].at # "idle" => plan'[q].next = Merge(q, plan'[q].seen)
      BY <2>7, <2>9 DEF FilesInv, PlansInv, Moves
    <3>2. \A q \in Runs : plan'[q].at \notin {"compared", "backed"}
      BY <2>7, <2>9
    <3>3. QED
      BY <3>1, <3>2 DEF PlansInv
  <2>13. QED
    BY <2>5, <2>6, <2>10, <2>11, <2>12 DEF FilesInv, EditsAreKept
<1>5. QED
  BY <1>2, <1>3, <1>4 DEF FileRecords

LEMMA RemoveLockKeeps ==
    ASSUME FilesInv, RemoveLock
    PROVE  FilesInv'
<1>1. /\ fileLock # NoRun /\ plan[fileLock].at \in {"idle", "planned"} /\ fileLock' = NoRun
      /\ config' = config /\ plan' = plan /\ edits' = edits /\ overtaken' = overtaken /\ applied' = applied
  BY DEF RemoveLock
<1>2. LockInv'
  BY <1>1 DEF FilesInv, LockInv
<1>3. FileTables' /\ PlansInv' /\ EditsAreKept'
  BY <1>1 DEF FilesInv, FileTables, PlansInv, Compared, EditsAreKept
<1>4. QED
  BY <1>2, <1>3 DEF FilesInv

(* An edit behind a run's back is overtaken, or finds no file to replace.  *)
LEMMA EditFileKeeps ==
    ASSUME FilesInv, NEW text \in Texts, EditFile(text)
    PROVE  FilesInv'
<1>1. /\ edits' = text /\ fileLock' = fileLock /\ plan' = plan /\ applied' = applied
      /\ overtaken' = \E r \in Runs : plan[r].at \in {"compared", "backed"} /\ plan[r].seen.is
  BY DEF EditFile
<1>2. config \in FileRecords
  BY DEF FilesInv, FileTables
<1>3. config'.is /\ config'.user = text /\ config'.providers = config.providers
  BY <1>2 DEF EditFile, FileRecords
<1>4. config' \in FileRecords
  BY <1>2 DEF EditFile, FileRecords
<1>5. overtaken' \in BOOLEAN
  BY <1>1
<1>6. FileTables'
  BY <1>1, <1>4, <1>5 DEF FilesInv, FileTables
<1>7. LockInv'
  BY <1>1 DEF FilesInv, LockInv
<1>8. PlansInv'
  <2>1. ASSUME NEW r \in Runs, plan[r].at \in {"compared", "backed"} PROVE Compared(r)'
    <3>1. Compared(r)
      BY <2>1 DEF FilesInv, PlansInv
    <3>2. plan[r].seen.is => overtaken'
      BY <1>1, <2>1
    <3>3. QED
      BY <1>1, <1>3, <3>1, <3>2 DEF Compared
  <2>2. QED
    BY <1>1, <2>1 DEF FilesInv, PlansInv
<1>9. EditsAreKept'
  BY <1>1, <1>3 DEF FilesInv, EditsAreKept
<1>10. QED
  BY <1>6, <1>7, <1>8, <1>9 DEF FilesInv

LEMMA FilesKeep ==
    ASSUME FilesInv, [FilesNext]_fileVars
    PROVE  FilesInv'
<1>1. CASE UNCHANGED fileVars
  BY <1>1 DEF fileVars, FilesInv, FileTables, LockInv, PlansInv, Compared, EditsAreKept
<1>2. ASSUME NEW r \in Runs, Unlock(r) \/ ApplyFails(r) PROVE FilesInv'
  <2>1. /\ plan[r].at \notin {"idle", "planned"} /\ Ends(r)
        /\ config' = config /\ edits' = edits /\ overtaken' = overtaken /\ applied' = applied
    BY <1>2 DEF Unlock, ApplyFails
  <2>2. QED
    BY <2>1, RunEnds DEF Ends
<1>3. ASSUME NEW r \in Runs, RunDies(r) PROVE FilesInv'
  BY <1>3, RunEnds DEF RunDies
<1>4. QED
  BY <1>1, <1>2, <1>3, PlanKeeps, LockKeeps, CompareKeeps, BackUpKeeps, PublishKeeps, RemoveLockKeeps,
     EditFileKeeps DEF FilesNext
-----------------------------------------------------------------------------
(* The choice of a channel. What a draw left aside, for its score or its   *)
(* priority, is behind what it took for as long as the request lasts.      *)
Score(c) == ModelMatchScore(c)
Tries == [upstream : DOMAIN snapshot, out : BOOLEAN]

RoutingTypes ==
    /\ snapshot \in Snapshots /\ ask \in Asks /\ tried \in Seq(Tries) /\ Len(tried) <= MaxTries
    /\ phase \in {"select", "drawn", "tried", "ended"} /\ lastResort \in BOOLEAN /\ turns \in 0..MaxTurns
    /\ ailing \cup excluded \cup cooling \cup revived \subseteq DOMAIN snapshot
    /\ phase \in {"drawn", "tried"} => selected.upstream \in DOMAIN snapshot

Suits(c) == ServesGroup(c) /\ MatchesModel(c)

\* b may come after a.
After(a, b) ==
    \/ Score(a) > Score(b)
    \/ b \in cooling
    \/ Score(a) = Score(b) /\ (snapshot[a].priority >= snapshot[b].priority \/ b \in revived)

\* Nothing that could still be drawn was ahead of a when a was drawn.
Ahead(a) ==
    \A d \in DOMAIN snapshot : ServesGroup(d) /\ d \notin excluded \cup cooling =>
        \/ Score(d) < Score(a)
        \/ /\ Score(d) = Score(a)
           /\ d \in revived \/ Weightless(d) \/ snapshot[d].priority <= snapshot[a].priority

\* A channel drawn under the selector, or in turn.
Drawn(c) == Suits(c) /\ (IF ask.selector # "" THEN c \in SelectDirect ELSE Ahead(c))

DrawsInv ==
    /\ \A i \in DOMAIN tried : Drawn(tried[i].upstream)
    /\ phase \in {"drawn", "tried"} => Drawn(selected.upstream)

OrderInv ==
    /\ \A j \in DOMAIN tried : \A i \in 1..(j - 1) : After(tried[i].upstream, tried[j].upstream)
    /\ phase = "drawn" => \A i \in DOMAIN tried : After(tried[i].upstream, selected.upstream)

RefusalsInv ==
    /\ \A i \in DOMAIN tried : tried[i].out => tried[i].upstream \in excluded
    /\ \A j \in DOMAIN tried : \A i \in 1..(j - 1) : tried[i].out => tried[j].upstream # tried[i].upstream
    /\ phase = "drawn" => selected.upstream \notin excluded
    /\ phase = "tried" => tried # <<>> /\ tried[Len(tried)].upstream = selected.upstream

\* Who is told there is no route has ruled out, or cannot use, the best.
EndInv ==
    phase = "ended" /\ ask.selector = "" =>
      \A c \in DOMAIN snapshot : Suits(c) /\ c \notin excluded =>
        \/ Weightless(c)
        \/ \E d \in DOMAIN snapshot : Suits(d) /\ d \notin excluded /\ Score(d) > Score(c)

RoutingInv == RoutingTypes /\ DrawsInv /\ OrderInv /\ RefusalsInv /\ EndInv

LEMMA ScoreIs == \A c : Score(c) \in 0..2 /\ (MatchesModel(c) <=> ask.model = "" \/ Score(c) > 0)
<1>1. \A c : Score(c) \in 0..2
  BY DEF Score, ModelMatchScore
<1>2. QED
  BY <1>1 DEF MatchesModel, Score

LEMMA SnapshotIs ==
    ASSUME RoutingTypes
    PROVE  /\ IsFiniteSet(DOMAIN snapshot)
           /\ \A c, d \in DOMAIN snapshot : snapshot[c].name = snapshot[d].name => c = d
           /\ \A c \in DOMAIN snapshot : snapshot[c].priority \in Int
  BY RoutingAssumption DEF RoutingTypes

(* A selector names one channel at most.                                   *)
LEMMA DirectIsOne ==
    ASSUME RoutingTypes, NEW c \in SelectDirect, NEW d \in SelectDirect
    PROVE  c = d /\ c \in DOMAIN snapshot /\ Suits(c)
<1>1. \A x \in DOMAIN snapshot, y \in DOMAIN snapshot : snapshot[x].name = snapshot[y].name => x = y
  BY SnapshotIs
<1> DEFINE serves(x) == ServesGroup(x) /\ MatchesModel(x)
           byID == {x \in DOMAIN snapshot : x = ask.selector /\ serves(x)}
           byName == {x \in DOMAIN snapshot : snapshot[x].name = ask.selector /\ serves(x)}
<1>2. SelectDirect = IF byID # {} THEN byID ELSE byName
  BY DEF SelectDirect
<1>3. (c \in byID /\ d \in byID) \/ (c \in byName /\ d \in byName)
  BY <1>2
<1>4. QED
  BY <1>1, <1>3 DEF Suits

(* What may be drawn suits the request, is not ruled out, and nothing else  *)
(* that may be drawn is ahead of it.                                       *)
LEMMA DrawnIsAhead ==
    ASSUME RoutingTypes, NEW c \in Selectable
    PROVE  c \in DOMAIN snapshot /\ c \notin excluded /\ Drawn(c)
<1>1. CASE ask.selector # ""
  <2>1. c \in SelectDirect /\ c \notin excluded
    BY <1>1 DEF Selectable
  <2>2. QED
    BY <1>1, <2>1, DirectIsOne DEF Drawn
<1>2. CASE ask.selector = ""
  <2> DEFINE pool == {d \in DOMAIN snapshot : ServesGroup(d)} \ Excluding
  <2>1. c \in SelectWeightedByPriority(Candidates) /\ Candidates = Best(pool)
    BY <1>2 DEF Selectable, SelectFromSnapshot, Candidates
  <2>2. c \in Candidates /\ \A d \in Candidates : Weightless(d) \/ snapshot[d].priority <= snapshot[c].priority
    BY <2>1 DEF SelectWeightedByPriority
  <2>3. c \in pool /\ (ask.model # "" => Score(c) > 0 /\ \A d \in pool : Score(d) <= Score(c))
    BY <2>1, <2>2 DEF Best, Score
  <2>4. excluded \subseteq Excluding /\ Excluding \subseteq excluded \cup cooling
    BY DEF Excluding
  <2>5. MatchesModel(c)
    BY <2>3, ScoreIs
  <2>6. Ahead(c)
    <3>1. ASSUME NEW d \in DOMAIN snapshot, ServesGroup(d), d \notin excluded \cup cooling
          PROVE  \/ Score(d) < Score(c)
                 \/ Score(d) = Score(c) /\ (Weightless(d) \/ snapshot[d].priority <= snapshot[c].priority)
      <4>1. d \in pool
        BY <2>4, <3>1
      <4>2. CASE ask.model = ""
        <5>1. Score(d) = 0 /\ Score(c) = 0
          BY <4>2 DEF Score, ModelMatchScore
        <5>2. d \in Candidates
          BY <2>1, <4>1, <4>2 DEF Best
        <5>3. QED
          BY <2>2, <5>1, <5>2
      <4>3. CASE ask.model # ""
        <5>1. Score(d) <= Score(c) /\ Score(d) \in 0..2 /\ Score(c) \in 0..2
          BY <2>3, <4>1, <4>3, ScoreIs
        <5>2. Score(d) = Score(c) => d \in Candidates
          <6>1. Candidates = {x \in pool : Score(x) > 0 /\ \A y \in pool : Score(y) <= Score(x)}
            BY <2>1, <4>3 DEF Best, Score
          <6>2. QED
            BY <2>3, <4>1, <4>3, <6>1
        <5>3. QED
          BY <2>2, <5>1, <5>2
      <4>4. QED
        BY <4>2, <4>3
    <3>2. QED
      BY <3>1 DEF Ahead
  <2>7. QED
    BY <1>2, <2>3, <2>4, <2>5, <2>6 DEF Drawn, Suits
<1>3. QED
  BY <1>1, <1>2

LEMMA GreatestPriority ==
    ASSUME RoutingTypes, NEW S \in SUBSET DOMAIN snapshot, S # {}
    PROVE  \E d \in S : \A e \in S : snapshot[e].priority <= snapshot[d].priority
<1> DEFINE f == [d \in S |-> snapshot[d].priority]
<1>1. f \in [S -> Int] /\ \A d \in S : f[d] = snapshot[d].priority
  BY SnapshotIs
<1>2. IsFiniteSet(S)
  BY SnapshotIs, FS_Subset
<1> HIDE DEF f
<1>3. PICK d \in S : \A e \in S : f[e] <= f[d]
  BY <1>1, <1>2, Peak
<1>4. QED
  BY <1>1, <1>3

LEMMA RoutingStart == RoutingInit => RoutingInv
<1> SUFFICES ASSUME RoutingInit PROVE RoutingInv
    OBVIOUS
<1>1. /\ snapshot \in Snapshots /\ ask \in Asks /\ ailing \subseteq DOMAIN snapshot /\ phase = "select"
      /\ excluded = {} /\ cooling = {} /\ lastResort = FALSE /\ tried = <<>> /\ revived = {} /\ turns = 0
  BY DEF RoutingInit
<1>2. tried \in Seq(Tries) /\ Len(tried) = 0 /\ DOMAIN tried = {}
  BY <1>1
<1>3. MaxTries \in Nat /\ MaxTurns \in Nat
  BY RoutingAssumption
<1>3b. Len(tried) <= MaxTries /\ turns \in 0..MaxTurns
  BY <1>1, <1>2, <1>3
<1>4. RoutingTypes
  BY <1>1, <1>2, <1>3b DEF RoutingTypes
<1>5. DrawsInv /\ OrderInv /\ RefusalsInv /\ EndInv
  BY <1>1, <1>2 DEF DrawsInv, OrderInv, RefusalsInv, EndInv
<1>6. QED
  BY <1>4, <1>5 DEF RoutingInv

\* What every step leaves alone, and what only grows. Health that comes back is noted.
Onward ==
    /\ snapshot' = snapshot /\ ask' = ask
    /\ excluded \subseteq excluded' /\ cooling \subseteq cooling' /\ revived \subseteq revived'
    /\ ailing \ ailing' \subseteq revived'

LEMMA StaysDrawn ==
    ASSUME Onward
    PROVE  /\ \A c : Drawn(c) => Drawn(c)'
           /\ \A a, b : After(a, b) => After(a, b)'
<1>1. \A c : Score(c)' = Score(c) /\ ServesGroup(c)' = ServesGroup(c) /\ MatchesModel(c)' = MatchesModel(c)
  BY DEF Onward, Score, ModelMatchScore, Mapped, NamedAs, ServesGroup, MatchesModel
<1>2. SelectDirect' = SelectDirect
  BY DEF Onward, SelectDirect, ServesGroup, MatchesModel, ModelMatchScore, Mapped, NamedAs
<1>3. ASSUME NEW c, Ahead(c) PROVE Ahead(c)'
  <2>1. \A d : Weightless(d) => Weightless(d)' \/ d \in revived'
    BY DEF Weightless, Onward
  <2>2. QED
    BY <1>1, <1>3, <2>1 DEF Ahead, Onward
<1>4. \A c : Drawn(c) => Drawn(c)'
  BY <1>1, <1>2, <1>3 DEF Drawn, Suits, Onward
<1>5. \A a, b : After(a, b) => After(a, b)'
  BY <1>1 DEF After, Onward
<1>6. QED
  BY <1>4, <1>5

LEMMA SelectKeeps ==
    ASSUME RoutingInv, NEW c, Select(c)
    PROVE  RoutingInv'
<1>1. /\ phase = "select" /\ c \in Selectable /\ phase' = "drawn" /\ selected' = NewSelection(c)
      /\ snapshot' = snapshot /\ ask' = ask /\ ailing' = ailing /\ excluded' = excluded /\ cooling' = cooling
      /\ lastResort' = lastResort /\ tried' = tried /\ revived' = revived /\ turns' = turns
  BY DEF Select
<1>2. c \in DOMAIN snapshot /\ c \notin excluded /\ Drawn(c)
  BY <1>1, DrawnIsAhead DEF RoutingInv
<1>3. selected'.upstream = c
  BY <1>1 DEF NewSelection
<1>4. Onward
  BY <1>1 DEF Onward
<1>5. RoutingTypes'
  BY <1>1, <1>2, <1>3 DEF RoutingInv, RoutingTypes, Tries
<1>6. DrawsInv'
  BY <1>1, <1>2, <1>3, <1>4, StaysDrawn DEF RoutingInv, DrawsInv
<1>7. OrderInv'
  <2>1. ASSUME NEW i \in DOMAIN tried PROVE After(tried[i].upstream, c)
    <3>0. tried \in Seq(Tries) /\ Drawn(tried[i].upstream)
      BY DEF RoutingInv, RoutingTypes, DrawsInv
    <3>0b. tried[i] \in Tries
      BY <3>0
    <3>1. tried[i].upstream \in DOMAIN snapshot /\ Drawn(tried[i].upstream)
      BY <3>0, <3>0b DEF Tries
    <3>2. CASE ask.selector # ""
      <4>1. tried[i].upstream = c
        BY <1>2, <3>1, <3>2, DirectIsOne DEF RoutingInv, Drawn
      <4>2. snapshot[c].priority \in Int
        BY <1>2, SnapshotIs DEF RoutingInv
      <4>3. QED
        BY <4>1, <4>2 DEF After
    <3>3. CASE ask.selector = ""
      <4>1. Ahead(tried[i].upstream) /\ ServesGroup(c)
        BY <1>2, <3>1, <3>3 DEF Drawn, Suits
      <4>2. ~Weightless(c)
        BY <1>1, <3>3 DEF Selectable, SelectFromSnapshot, SelectWeightedByPriority
      <4>3. Score(c) \in 0..2 /\ Score(tried[i].upstream) \in 0..2
        BY ScoreIs
      <4>4. snapshot[c].priority \in Int /\ snapshot[tried[i].upstream].priority \in Int
        BY <1>2, <3>1, SnapshotIs DEF RoutingInv
      <4>5. QED
        BY <1>2, <4>1, <4>2, <4>3, <4>4 DEF Ahead, After
    <3>4. QED
      BY <3>2, <3>3
  <2>2. \A i \in DOMAIN tried : After(tried[i].upstream, c)'
    BY <1>1, <1>4, <2>1, StaysDrawn
  <2>3. \A j \in DOMAIN tried : \A i \in 1..(j - 1) : After(tried[i].upstream, tried[j].upstream)'
    BY <1>1, <1>4, StaysDrawn DEF RoutingInv, OrderInv
  <2>4. QED
    BY <1>1, <1>3, <2>2, <2>3 DEF OrderInv
<1>8. RefusalsInv'
  BY <1>1, <1>2, <1>3 DEF RoutingInv, RefusalsInv
<1>9. EndInv'
  BY <1>1 DEF EndInv
<1>10. QED
  BY <1>5, <1>6, <1>7, <1>8, <1>9 DEF RoutingInv

\* A request that gives the channel up, or turns to those that cool, or waits.
LEMMA GivenUp ==
    ASSUME RoutingInv, Onward, tried' = tried, phase' = "select", RoutingTypes'
    PROVE  RoutingInv'
<1>1. DrawsInv'
  BY StaysDrawn DEF RoutingInv, DrawsInv
<1>2. OrderInv'
  <2>1. \A j \in DOMAIN tried : \A i \in 1..(j - 1) : After(tried[i].upstream, tried[j].upstream)'
    BY StaysDrawn DEF RoutingInv, OrderInv
  <2>2. QED
    BY <2>1 DEF OrderInv
<1>3. RefusalsInv'
  BY DEF RoutingInv, RefusalsInv, Onward
<1>4. EndInv'
  BY DEF EndInv
<1>5. QED
  BY <1>1, <1>2, <1>3, <1>4 DEF RoutingInv

LEMMA GivingUpKeeps ==
    ASSUME RoutingInv, UseCoolingAfterAll \/ KeysCool \/ PassedOver
    PROVE  RoutingInv'
<1>1. /\ snapshot' = snapshot /\ ask' = ask /\ ailing' = ailing /\ tried' = tried /\ revived' = revived
      /\ turns' = turns /\ phase' = "select"
  BY DEF UseCoolingAfterAll, KeysCool, PassedOver
<1>2. /\ excluded \subseteq excluded' /\ cooling \subseteq cooling'
      /\ excluded' \cup cooling' \subseteq DOMAIN snapshot /\ lastResort' \in BOOLEAN
  BY DEF UseCoolingAfterAll, KeysCool, PassedOver, RoutingInv, RoutingTypes
<1>3. Onward
  BY <1>1, <1>2 DEF Onward
<1>4. RoutingTypes'
  BY <1>1, <1>2 DEF RoutingInv, RoutingTypes, Tries
<1>5. QED
  BY <1>1, <1>3, <1>4, GivenUp

(* The one way to end is to have nothing left to draw.                     *)
LEMMA NoRouteKeeps ==
    ASSUME RoutingInv, NoRoute
    PROVE  RoutingInv'
<1>1. /\ phase = "select" /\ Selectable = {} /\ (lastResort \/ cooling = {}) /\ phase' = "ended"
      /\ snapshot' = snapshot /\ ask' = ask /\ ailing' = ailing /\ excluded' = excluded /\ cooling' = cooling
      /\ lastResort' = lastResort /\ tried' = tried /\ revived' = revived /\ turns' = turns
  BY DEF NoRoute
<1>2. Onward
  BY <1>1 DEF Onward
<1>3. RoutingTypes'
  BY <1>1 DEF RoutingInv, RoutingTypes, Tries
<1>4. DrawsInv'
  BY <1>1, <1>2, StaysDrawn DEF RoutingInv, DrawsInv
<1>5. OrderInv'
  <2>1. \A j \in DOMAIN tried : \A i \in 1..(j - 1) : After(tried[i].upstream, tried[j].upstream)'
    BY <1>1, <1>2, StaysDrawn DEF RoutingInv, OrderInv
  <2>2. QED
    BY <1>1, <2>1 DEF OrderInv
<1>6. RefusalsInv'
  BY <1>1 DEF RoutingInv, RefusalsInv
<1>7. ASSUME ask.selector = "", NEW c \in DOMAIN snapshot, Suits(c), c \notin excluded,
             ~Weightless(c), \A d \in DOMAIN snapshot : Suits(d) /\ d \notin excluded => ~(Score(d) > Score(c))
      PROVE  FALSE
  <2> DEFINE pool == {d \in DOMAIN snapshot : ServesGroup(d)} \ Excluding
             able == {d \in Candidates : ~Weightless(d)}
  <2>1. Excluding = excluded
    BY <1>1 DEF Excluding
  <2>2. c \in pool
    BY <1>7, <2>1 DEF Suits
  <2>3. Candidates = Best(pool) /\ Candidates \subseteq DOMAIN snapshot
    BY DEF Candidates, Best
  <2>4. c \in Candidates
    <3>1. CASE ask.model = ""
      BY <2>2, <2>3, <3>1 DEF Best
    <3>2. CASE ask.model # ""
      <4>1. Score(c) > 0 /\ Score(c) \in 0..2
        BY <1>7, <3>2, ScoreIs DEF Suits
      <4>2. \A d \in pool : Score(d) <= Score(c)
        <5>1. ASSUME NEW d \in pool PROVE Score(d) <= Score(c)
          <6>1. Score(d) \in 0..2 /\ d \in DOMAIN snapshot /\ ServesGroup(d) /\ d \notin excluded
            BY <2>1, ScoreIs
          <6>2. CASE MatchesModel(d)
            <7>1. ~(Score(d) > Score(c))
              BY <1>7, <6>1, <6>2 DEF Suits
            <7>2. QED
              BY <4>1, <6>1, <7>1
          <6>3. CASE ~MatchesModel(d)
            <7>1. ~(Score(d) > 0)
              BY <6>3, ScoreIs
            <7>2. QED
              BY <4>1, <6>1, <7>1
          <6>4. QED
            BY <6>2, <6>3
        <5>2. QED
          BY <5>1
      <4>3. QED
        BY <2>2, <2>3, <3>2, <4>1, <4>2 DEF Best, Score
    <3>3. QED
      BY <3>1, <3>2
  <2> HIDE DEF able
  <2>5. able # {} /\ able \subseteq DOMAIN snapshot /\ \A d \in able : d \in Candidates /\ ~Weightless(d)
    BY <1>7, <2>3, <2>4 DEF able
  <2>6. \E d \in able : \A e \in able : snapshot[e].priority <= snapshot[d].priority
    BY <2>5, SnapshotIs, GreatestPriority DEF RoutingInv
  <2>7. PICK d \in able : \A e \in able : snapshot[e].priority <= snapshot[d].priority
    BY <2>6
  <2>8. d \in SelectWeightedByPriority(Candidates)
    <3>1. \A e \in Candidates : Weightless(e) \/ snapshot[e].priority <= snapshot[d].priority
      BY <2>7 DEF able
    <3>2. QED
      BY <2>5, <3>1 DEF SelectWeightedByPriority
  <2>9. QED
    BY <1>1, <1>7, <2>8 DEF Selectable, SelectFromSnapshot
<1>8. EndInv
  <2>1. QED
    BY <1>1 DEF EndInv
<1>9. EndInv'
  <2>1. \A c : Score(c)' = Score(c) /\ Suits(c)' = Suits(c) /\ Weightless(c)' = Weightless(c)
    BY <1>1 DEF Score, Suits, ModelMatchScore, Mapped, NamedAs, ServesGroup, MatchesModel, Weightless
  <2>2. QED
    BY <1>1, <1>7, <2>1 DEF EndInv
<1>10. QED
  BY <1>3, <1>4, <1>5, <1>6, <1>9 DEF RoutingInv

LEMMA AttemptKeeps ==
    ASSUME RoutingInv, Attempt
    PROVE  RoutingInv'
<1> DEFINE next == [upstream |-> selected.upstream, out |-> FALSE]
<1>1. /\ phase = "drawn" /\ Len(tried) < MaxTries /\ phase' = "tried" /\ tried' = Append(tried, next)
      /\ snapshot' = snapshot /\ ask' = ask /\ ailing' = ailing /\ excluded' = excluded /\ cooling' = cooling
      /\ lastResort' = lastResort /\ selected' = selected /\ revived' = revived /\ turns' = turns
  BY DEF Attempt
<1>2. tried \in Seq(Tries) /\ next \in Tries /\ next.upstream = selected.upstream /\ next.out = FALSE
  BY <1>1 DEF RoutingInv, RoutingTypes, Tries
<1> HIDE DEF next
<1>3. /\ tried' \in Seq(Tries) /\ Len(tried') = Len(tried) + 1 /\ DOMAIN tried' = 1..(Len(tried) + 1)
      /\ \A i \in DOMAIN tried : tried'[i] = tried[i] /\ i \in DOMAIN tried'
      /\ tried'[Len(tried) + 1] = next /\ Len(tried) \in Nat /\ DOMAIN tried = 1..Len(tried)
  BY <1>1, <1>2
<1>4. \A j \in DOMAIN tried' : j \in DOMAIN tried \/ (j = Len(tried) + 1 /\ tried'[j] = next)
  BY <1>3
<1>4b. \A j \in DOMAIN tried' : \A i \in 1..(j - 1) : i \in DOMAIN tried
  BY <1>3
<1>5. Onward
  BY <1>1 DEF Onward
<1>6. RoutingTypes'
  <2>1. Len(tried') <= MaxTries
    <3>1. MaxTries \in Nat
      BY RoutingAssumption
    <3>2. QED
      BY <1>1, <1>3, <3>1
  <2>2. QED
    BY <1>1, <1>3, <2>1 DEF RoutingInv, RoutingTypes, Tries
<1>7. DrawsInv'
  BY <1>1, <1>2, <1>3, <1>4, <1>5, StaysDrawn DEF RoutingInv, DrawsInv
<1>8. OrderInv'
  <2>1. ASSUME NEW j \in DOMAIN tried', NEW i \in 1..(j - 1) PROVE After(tried'[i].upstream, tried'[j].upstream)
    <3>1. i \in DOMAIN tried /\ tried'[i] = tried[i]
      BY <1>3, <1>4b
    <3>2. CASE j \in DOMAIN tried
      BY <1>3, <3>1, <3>2 DEF RoutingInv, OrderInv
    <3>3. CASE tried'[j] = next
      BY <1>1, <1>2, <3>1, <3>3 DEF RoutingInv, OrderInv
    <3>4. QED
      BY <1>4, <3>2, <3>3
  <2>2. \A j \in DOMAIN tried' : \A i \in 1..(j - 1) : After(tried[i].upstream, tried[j].upstream)'
    BY <1>5, <2>1, StaysDrawn
  <2>3. QED
    BY <1>1, <2>2 DEF OrderInv
<1>9. RefusalsInv'
  <2>1. \A i \in DOMAIN tried' : tried'[i].out => tried'[i].upstream \in excluded'
    BY <1>1, <1>2, <1>3, <1>4 DEF RoutingInv, RefusalsInv
  <2>2. ASSUME NEW j \in DOMAIN tried', NEW i \in 1..(j - 1), tried'[i].out PROVE tried'[j].upstream # tried'[i].upstream
    <3>1. i \in DOMAIN tried /\ tried'[i] = tried[i]
      BY <1>3, <1>4b
    <3>2. CASE j \in DOMAIN tried
      BY <1>3, <2>2, <3>1, <3>2 DEF RoutingInv, RefusalsInv
    <3>3. CASE tried'[j] = next
      BY <1>1, <1>2, <2>2, <3>1, <3>3 DEF RoutingInv, RefusalsInv
    <3>4. QED
      BY <1>4, <3>2, <3>3
  <2>3. tried' # <<>> /\ tried'[Len(tried')].upstream = selected'.upstream
    BY <1>1, <1>2, <1>3
  <2>4. QED
    BY <1>1, <2>1, <2>2, <2>3 DEF RefusalsInv
<1>10. EndInv'
  BY <1>1 DEF EndInv
<1>11. QED
  BY <1>6, <1>7, <1>8, <1>9, <1>10 DEF RoutingInv

LEMMA AttemptFailsKeeps ==
    ASSUME RoutingInv, NEW refused \in BOOLEAN, AttemptFails(refused)
    PROVE  RoutingInv'
<1> DEFINE last == Len(tried)
<1>1. /\ phase = "tried" /\ phase' = "select"
      /\ excluded' = (IF refused THEN excluded \cup {selected.upstream} ELSE excluded)
      /\ tried' = [tried EXCEPT ![last].out = refused]
      /\ snapshot' = snapshot /\ ask' = ask /\ ailing' = ailing /\ cooling' = cooling
      /\ lastResort' = lastResort /\ revived' = revived /\ turns' = turns
  BY DEF AttemptFails
<1>2. tried \in Seq(Tries) /\ tried # <<>> /\ tried[last].upstream = selected.upstream
      /\ selected.upstream \in DOMAIN snapshot
  BY <1>1 DEF RoutingInv, RoutingTypes, RefusalsInv
<1>3. last \in DOMAIN tried /\ last \in Nat /\ DOMAIN tried = 1..last /\ \A i \in DOMAIN tried : tried[i] \in Tries
  BY <1>2
<1> HIDE DEF last
<1>4. [tried[last] EXCEPT !.out = refused] \in Tries /\ [tried[last] EXCEPT !.out = refused].out = refused
      /\ [tried[last] EXCEPT !.out = refused].upstream = selected.upstream
  BY <1>2, <1>3 DEF Tries
<1>5. /\ tried' \in Seq(Tries) /\ Len(tried') = Len(tried) /\ DOMAIN tried' = DOMAIN tried
      /\ tried'[last] = [tried[last] EXCEPT !.out = refused]
      /\ \A i \in DOMAIN tried \ {last} : tried'[i] = tried[i]
  BY <1>1, <1>2, <1>3, <1>4
<1>6. \A i \in DOMAIN tried : tried'[i].upstream = tried[i].upstream
  BY <1>2, <1>4, <1>5
<1>7. Onward
  BY <1>1 DEF Onward
<1>8. RoutingTypes'
  BY <1>1, <1>2, <1>5 DEF RoutingInv, RoutingTypes, Tries
<1>9. DrawsInv'
  BY <1>1, <1>5, <1>6, <1>7, StaysDrawn DEF RoutingInv, DrawsInv
<1>10. OrderInv'
  <2>1. \A j \in DOMAIN tried : \A i \in 1..(j - 1) : i \in DOMAIN tried
    BY <1>3
  <2>2. \A j \in DOMAIN tried' : \A i \in 1..(j - 1) : After(tried'[i].upstream, tried'[j].upstream)
    BY <1>5, <1>6, <2>1 DEF RoutingInv, OrderInv
  <2>3. \A j \in DOMAIN tried' : \A i \in 1..(j - 1) : After(tried[i].upstream, tried[j].upstream)'
    BY <1>7, <2>2, StaysDrawn
  <2>4. QED
    BY <1>1, <2>3 DEF OrderInv
<1>11. RefusalsInv'
  <2>1. \A i \in DOMAIN tried' : tried'[i].out => tried'[i].upstream \in excluded'
    BY <1>1, <1>4, <1>5 DEF RoutingInv, RefusalsInv
  <2>2. \A j \in DOMAIN tried : \A i \in 1..(j - 1) : i \in DOMAIN tried \ {last}
    BY <1>3
  <2>3. \A j \in DOMAIN tried' : \A i \in 1..(j - 1) : tried'[i].out => tried'[j].upstream # tried'[i].upstream
    BY <1>5, <1>6, <2>2 DEF RoutingInv, RefusalsInv
  <2>4. QED
    BY <1>1, <2>1, <2>3 DEF RefusalsInv
<1>12. EndInv'
  BY <1>1 DEF EndInv
<1>13. QED
  BY <1>8, <1>9, <1>10, <1>11, <1>12 DEF RoutingInv

LEMMA HealthTurnsKeeps ==
    ASSUME RoutingInv, NEW c \in DOMAIN snapshot, HealthTurns(c)
    PROVE  RoutingInv'
<1>1. /\ phase # "ended" /\ turns < MaxTurns /\ turns' = turns + 1
      /\ ailing' = (IF c \in ailing THEN ailing \ {c} ELSE ailing \cup {c})
      /\ revived' = (IF c \in ailing THEN revived \cup {c} ELSE revived)
      /\ snapshot' = snapshot /\ ask' = ask /\ phase' = phase /\ selected' = selected /\ excluded' = excluded
      /\ cooling' = cooling /\ lastResort' = lastResort /\ tried' = tried
  BY DEF HealthTurns, requestVars
<1>2. Onward
  BY <1>1 DEF Onward
<1>3. RoutingTypes'
  <2>1. turns' \in 0..MaxTurns
    <3>1. MaxTurns \in Nat
      BY RoutingAssumption
    <3>2. QED
      BY <1>1, <3>1 DEF RoutingInv, RoutingTypes
  <2>2. QED
    BY <1>1, <2>1 DEF RoutingInv, RoutingTypes, Tries
<1>4. DrawsInv'
  BY <1>1, <1>2, StaysDrawn DEF RoutingInv, DrawsInv
<1>5. OrderInv'
  <2>1. \A j \in DOMAIN tried : \A i \in 1..(j - 1) : After(tried[i].upstream, tried[j].upstream)'
    BY <1>1, <1>2, StaysDrawn DEF RoutingInv, OrderInv
  <2>2. phase = "drawn" => \A i \in DOMAIN tried : After(tried[i].upstream, selected.upstream)'
    BY <1>1, <1>2, StaysDrawn DEF RoutingInv, OrderInv
  <2>3. QED
    BY <1>1, <2>1, <2>2 DEF OrderInv
<1>6. RefusalsInv' /\ EndInv'
  BY <1>1 DEF RoutingInv, RefusalsInv, EndInv
<1>7. QED
  BY <1>3, <1>4, <1>5, <1>6 DEF RoutingInv

LEMMA RoutingKeeps ==
    ASSUME RoutingInv, [RoutingNext]_routeVars
    PROVE  RoutingInv'
<1>1. CASE UNCHANGED routeVars
  <2>1. /\ snapshot' = snapshot /\ ask' = ask /\ ailing' = ailing /\ excluded' = excluded /\ cooling' = cooling
        /\ lastResort' = lastResort /\ tried' = tried /\ revived' = revived /\ turns' = turns
        /\ phase' = phase /\ selected' = selected
    BY <1>1 DEF routeVars, requestVars
  <2>2. RoutingTypes' /\ RefusalsInv'
    BY <2>1 DEF RoutingInv, RoutingTypes, Tries, RefusalsInv
  <2>3. Onward
    BY <2>1 DEF Onward
  <2>4. DrawsInv'
    BY <2>1, <2>3, StaysDrawn DEF RoutingInv, DrawsInv
  <2>5. OrderInv'
    <3>1. \A j \in DOMAIN tried : \A i \in 1..(j - 1) : After(tried[i].upstream, tried[j].upstream)'
      BY <2>1, <2>3, StaysDrawn DEF RoutingInv, OrderInv
    <3>2. phase = "drawn" => \A i \in DOMAIN tried : After(tried[i].upstream, selected.upstream)'
      BY <2>1, <2>3, StaysDrawn DEF RoutingInv, OrderInv
    <3>3. QED
      BY <2>1, <3>1, <3>2 DEF OrderInv
  <2>6. EndInv'
    <3>1. \A c : Score(c)' = Score(c) /\ Suits(c)' = Suits(c) /\ Weightless(c)' = Weightless(c)
      BY <2>1 DEF Score, Suits, ModelMatchScore, Mapped, NamedAs, ServesGroup, MatchesModel, Weightless
    <3>2. QED
      BY <2>1, <3>1 DEF RoutingInv, EndInv
  <2>7. QED
    BY <2>2, <2>4, <2>5, <2>6 DEF RoutingInv
<1>2. QED
  BY <1>1, SelectKeeps, GivingUpKeeps, NoRouteKeeps, AttemptKeeps, AttemptFailsKeeps, HealthTurnsKeeps
     DEF RoutingNext

LEMMA RoutingHolds == RoutingInv => FailoverIsOrderly
<1> SUFFICES ASSUME RoutingInv PROVE FailoverIsOrderly
    OBVIOUS
<1>1. \A i \in DOMAIN tried : ServesGroup(tried[i].upstream) /\ MatchesModel(tried[i].upstream)
  BY DEF RoutingInv, DrawsInv, Drawn, Suits
<1>2. ASSUME NEW j \in DOMAIN tried, NEW i \in 1..(j - 1)
      PROVE  /\ tried[i].out => tried[j].upstream # tried[i].upstream
             /\ \/ ModelMatchScore(tried[i].upstream) > ModelMatchScore(tried[j].upstream)
                \/ tried[j].upstream \in cooling
                \/ /\ ModelMatchScore(tried[i].upstream) = ModelMatchScore(tried[j].upstream)
                   /\ \/ snapshot[tried[i].upstream].priority >= snapshot[tried[j].upstream].priority
                      \/ tried[j].upstream \in revived
  BY DEF RoutingInv, OrderInv, RefusalsInv, After, Score
<1>3. phase = "ended" /\ ask.selector = "" =>
        \A c \in DOMAIN snapshot : ServesGroup(c) /\ MatchesModel(c) /\ c \notin excluded =>
          \/ Weightless(c)
          \/ \E d \in DOMAIN snapshot : /\ ServesGroup(d) /\ MatchesModel(d) /\ d \notin excluded
                                        /\ ModelMatchScore(d) > ModelMatchScore(c)
  BY DEF RoutingInv, EndInv, Suits, Score
<1>4. QED
  BY <1>1, <1>2, <1>3 DEF FailoverIsOrderly

-----------------------------------------------------------------------------
(* Later times are in later seconds, or the same.                          *)
LEMMA DivisionBounds ==
    ASSUME NEW a \in Int, NEW i \in Nat \ {0}
    PROVE  a \div i \in Int /\ i * (a \div i) <= a /\ a < i * ((a \div i) + 1)
  OBVIOUS

LEMMA FactorsGrow ==
    ASSUME NEW i \in Nat, NEW p \in Int, NEW q \in Int, p <= q
    PROVE  i * p <= i * q
  OBVIOUS

LEMMA SecondsPass ==
    ASSUME NEW a \in Int, NEW b \in Int, a <= b
    PROVE  Unix(a) \in Int /\ Unix(b) \in Int /\ Unix(a) <= Unix(b)
<1>1. Second \in Nat \ {0}
  BY LimiterAssumption
<1> DEFINE p == a \div Second
           q == b \div Second
<1>2. p \in Int /\ Second * p <= a /\ a < Second * (p + 1)
  BY <1>1, DivisionBounds
<1>3. q \in Int /\ Second * q <= b /\ b < Second * (q + 1)
  BY <1>1, DivisionBounds
<1> HIDE DEF p, q
<1>4. CASE q < p
  <2>1. Second * (q + 1) <= Second * p
    BY <1>1, <1>2, <1>3, <1>4, FactorsGrow
  <2>2. Second * (q + 1) \in Int /\ Second * p \in Int
    BY <1>1, <1>2, <1>3
  <2> QED
    BY <1>2, <1>3, <2>1, <2>2
<1> QED
  BY <1>2, <1>3, <1>4 DEF Unix, p, q
-----------------------------------------------------------------------------
\* What is counted at the names of a set, one by one.
Units(name, count, S) == UNION {{<<name[j], k>> : k \in 1..count[j]} : j \in S}

LEMMA UnitsOf ==
    ASSUME NEW name, NEW count, NEW S, NEW u
    PROVE  u \in Units(name, count, S) <=> \E j \in S : \E k \in 1..count[j] : u = <<name[j], k>>
  BY DEF Units

LEMMA OneUnits ==
    ASSUME NEW name, NEW count, NEW x, count[x] \in Nat
    PROVE  IsFiniteSet(Units(name, count, {x})) /\ Cardinality(Units(name, count, {x})) = count[x]
<1>1. Units(name, count, {x}) = {name[x]} \X (1..count[x])
  BY DEF Units
<1>2. IsFiniteSet(1..count[x]) /\ Cardinality(1..count[x]) = count[x]
  BY FS_Interval
<1>3. IsFiniteSet({name[x]}) /\ Cardinality({name[x]}) = 1
  BY FS_Singleton
<1> DEFINE A == {name[x]}
           B == 1..count[x]
<1> HIDE DEF A, B
<1>4. IsFiniteSet(A \X B) /\ Cardinality(A \X B) = Cardinality(A) * Cardinality(B)
  BY <1>2, <1>3, FS_Product DEF A, B
<1>5. Cardinality(A) = 1 /\ Cardinality(B) = count[x] /\ 1 * count[x] = count[x]
  BY <1>2, <1>3 DEF A, B
<1> QED
  BY <1>1, <1>4, <1>5 DEF A, B

Disjoint(name, S) == \A i, j \in S : name[i] = name[j] => i = j

LEMMA UnitsAdd ==
    ASSUME NEW name, NEW count, NEW S, NEW T, Disjoint(name, S \cup T), S \cap T = {},
           IsFiniteSet(Units(name, count, S)), IsFiniteSet(Units(name, count, T))
    PROVE  /\ IsFiniteSet(Units(name, count, S \cup T))
           /\ Cardinality(Units(name, count, S \cup T))
                = Cardinality(Units(name, count, S)) + Cardinality(Units(name, count, T))
<1> DEFINE U(R) == Units(name, count, R)
<1>1. U(S \cup T) = U(S) \cup U(T)
  BY DEF Units
<1>2. U(S) \cap U(T) = {}
  <2> SUFFICES ASSUME NEW u \in U(S), u \in U(T) PROVE FALSE
    OBVIOUS
  <2>1. PICK i \in S : \E k \in 1..count[i] : u = <<name[i], k>>
    BY DEF Units
  <2>2. PICK j \in T : \E k \in 1..count[j] : u = <<name[j], k>>
    BY DEF Units
  <2>3. name[i] = name[j]
    BY <2>1, <2>2
  <2> QED
    BY <2>3 DEF Disjoint
<1> HIDE DEF U
<1>3. IsFiniteSet(U(S)) /\ IsFiniteSet(U(T))
  BY DEF U
<1>4. Cardinality(U(S)) \in Nat /\ Cardinality(U(T)) \in Nat
  BY <1>3, FS_CardinalityType
<1>5. /\ IsFiniteSet(U(S) \cup U(T))
      /\ Cardinality(U(S) \cup U(T)) = Cardinality(U(S)) + Cardinality(U(T)) - Cardinality({})
  BY <1>2, <1>3, FS_Union
<1>6. Cardinality({}) = 0
  BY FS_EmptySet
<1>7. IsFiniteSet(U(S \cup T)) /\ Cardinality(U(S \cup T)) = Cardinality(U(S)) + Cardinality(U(T))
  <2>1. IsFiniteSet(U(S \cup T))
    BY <1>1, <1>5
  <2>2. Cardinality(U(S \cup T)) = Cardinality(U(S)) + Cardinality(U(T)) - 0
    BY <1>1, <1>5, <1>6
  <2> QED
    BY <1>4, <2>1, <2>2
<1> QED
  BY <1>7 DEF U

(* A property of a finite set that adding an element keeps.                 *)
LEMMA SubsetsReached ==
    ASSUME NEW I, IsFiniteSet(I), NEW G \in SUBSET SUBSET I, {} \in G,
           \A s \in SUBSET I : s # {} /\ (\A x \in s : s \ {x} \in G) => s \in G
    PROVE  \A s \in SUBSET I : s \in G
<1> DEFINE U == (SUBSET I) \ G
<1>1. \A s \in SUBSET I : IsFiniteSet(s)
  BY FS_Subset
<1>2. CASE U # {}
  <2>1. U \subseteq FiniteSubsetsOf(I)
    BY <1>1 DEF FiniteSubsetsOf
  <2>2. IsWellFoundedOn(StrictSubsetOrdering(I), FiniteSubsetsOf(I))
    BY FS_StrictSubsetOrderingWellFounded
  <2>3. PICK s \in U : \A v \in U : ~(<<v, s>> \in StrictSubsetOrdering(I))
    <3> HIDE DEF U
    <3> QED
      BY <1>2, <2>1, <2>2, WFMin
  <2>4. ASSUME NEW x \in s PROVE s \ {x} \in G
    <3>1. s \in SUBSET I /\ s \ {x} \in SUBSET I /\ s \ {x} \subseteq s /\ s \ {x} # s
      BY <2>3
    <3>2. <<s \ {x}, s>> \in StrictSubsetOrdering(I)
      BY <3>1 DEF StrictSubsetOrdering
    <3> QED
      BY <2>3, <3>1, <3>2
  <2> QED
    BY <2>3, <2>4
<1> QED
  BY <1>2

(* There are finitely many, if there are finitely many names.               *)
LEMMA UnitsAreFinite ==
    ASSUME NEW name, NEW count, NEW I, IsFiniteSet(I), Disjoint(name, I), \A i \in I : count[i] \in Nat
    PROVE  \A s \in SUBSET I : IsFiniteSet(Units(name, count, s))
<1> DEFINE G == {s \in SUBSET I : IsFiniteSet(Units(name, count, s))}
<1>1. {} \in G
  <2>1. Units(name, count, {}) = {} /\ IsFiniteSet({})
    BY FS_EmptySet DEF Units
  <2> QED
    BY <2>1
<1>2. ASSUME NEW s \in SUBSET I, s # {}, \A x \in s : s \ {x} \in G PROVE s \in G
  <2>1. PICK x \in s : TRUE
    BY <1>2
  <2> DEFINE r == s \ {x}
  <2>2. {x} \cup r = s /\ {x} \cap r = {} /\ r \in G
    BY <1>2
  <2>3. IsFiniteSet(Units(name, count, r)) /\ count[x] \in Nat /\ Disjoint(name, {x} \cup r)
    BY <2>2 DEF Disjoint
  <2> HIDE DEF r
  <2>4. IsFiniteSet(Units(name, count, {x}))
    BY <2>3, OneUnits
  <2>5. IsFiniteSet(Units(name, count, {x} \cup r))
    BY <2>2, <2>3, <2>4, UnitsAdd
  <2> QED
    BY <2>2, <2>5
<1>3. G \in SUBSET SUBSET I
  OBVIOUS
<1> HIDE DEF G
<1>4. \A s \in SUBSET I : s \in G
  BY <1>1, <1>2, <1>3, SubsetsReached
<1> QED
  BY <1>4 DEF G

\* One step of a sum in the order a choice gives.
Step(count, sums, s) ==
    IF s = {} THEN 0 ELSE count[CHOOSE y \in s : TRUE] + sums[s \ {CHOOSE y \in s : TRUE}]
StepBack(count, sums, s) ==
    IF s = {} THEN 0 ELSE sums[s \ {CHOOSE y \in s : TRUE}] + count[CHOOSE y \in s : TRUE]
Sums(count, I, sums) == sums = [s \in SUBSET I |-> Step(count, sums, s)]
SumsBack(count, I, sums) == sums = [s \in SUBSET I |-> StepBack(count, sums, s)]

(* The numbers of units are such a sum.                                     *)
LEMMA UnitsSum ==
    ASSUME NEW name, NEW count, NEW I, IsFiniteSet(I), Disjoint(name, I), \A i \in I : count[i] \in Nat
    PROVE  /\ Sums(count, I, [s \in SUBSET I |-> Cardinality(Units(name, count, s))])
           /\ SumsBack(count, I, [s \in SUBSET I |-> Cardinality(Units(name, count, s))])
<1> DEFINE sizes == [s \in SUBSET I |-> Cardinality(Units(name, count, s))]
<1>1. ASSUME NEW s \in SUBSET I PROVE sizes[s] = Step(count, sizes, s) /\ sizes[s] = StepBack(count, sizes, s)
  <2>1. CASE s = {}
    <3>1. Units(name, count, {}) = {} /\ Cardinality({}) = 0
      BY FS_EmptySet DEF Units
    <3> QED
      BY <2>1, <3>1 DEF Step, StepBack
  <2>2. CASE s # {}
    <3>1. PICK x \in s : x = CHOOSE y \in s : TRUE
      BY <2>2
    <3> DEFINE r == s \ {x}
    <3>2. {x} \cup r = s /\ {x} \cap r = {} /\ r \in SUBSET I /\ {x} \in SUBSET I
      OBVIOUS
    <3>3. count[x] \in Nat /\ Disjoint(name, {x} \cup r)
      BY DEF Disjoint
    <3> HIDE DEF r
    <3>4. IsFiniteSet(Units(name, count, r)) /\ IsFiniteSet(Units(name, count, {x}))
      BY <3>2, UnitsAreFinite
    <3>5. Cardinality(Units(name, count, {x} \cup r))
            = Cardinality(Units(name, count, {x})) + Cardinality(Units(name, count, r))
      BY <3>2, <3>3, <3>4, UnitsAdd
    <3>6. Cardinality(Units(name, count, {x})) = count[x]
      BY <3>3, OneUnits
    <3>7. sizes[s] = count[x] + sizes[r]
      BY <3>2, <3>5, <3>6
    <3>8. Step(count, sizes, s) = count[x] + sizes[r] /\ StepBack(count, sizes, s) = sizes[r] + count[x]
      BY <2>2, <3>1 DEF Step, StepBack, r
    <3>9. sizes[r] \in Nat
      BY <3>2, <3>4, FS_CardinalityType
    <3> QED
      BY <3>3, <3>7, <3>8, <3>9
  <2> QED
    BY <2>1, <2>2
<1> HIDE DEF sizes
<1>2. sizes = [s \in SUBSET I |-> sizes[s]]
  BY DEF sizes
<1>3. sizes = [s \in SUBSET I |-> Step(count, sizes, s)]
  BY <1>1, <1>2
<1>4. sizes = [s \in SUBSET I |-> StepBack(count, sizes, s)]
  BY <1>1, <1>2
<1> QED
  BY <1>3, <1>4 DEF Sums, SumsBack, sizes

(* And every such sum is.                                                   *)
LEMMA SumsAre ==
    ASSUME NEW name, NEW count, NEW I, IsFiniteSet(I), Disjoint(name, I), \A i \in I : count[i] \in Nat,
           NEW sums, Sums(count, I, sums) \/ SumsBack(count, I, sums)
    PROVE  sums[I] = Cardinality(Units(name, count, I))
<1> DEFINE sizes == [s \in SUBSET I |-> Cardinality(Units(name, count, s))]
           G == {s \in SUBSET I : sums[s] = sizes[s]}
<1>1. Sums(count, I, sizes)
  BY UnitsSum
<1>2. \A s \in SUBSET I : sizes[s] \in Nat
  BY UnitsAreFinite, FS_CardinalityType
<1> HIDE DEF sizes
<1>3. \A s \in SUBSET I : sizes[s] = Step(count, sizes, s)
  <2>1. sizes = [s \in SUBSET I |-> Step(count, sizes, s)]
    BY <1>1 DEF Sums
  <2> QED
    BY <2>1
<1>4. \A s \in SUBSET I : sums[s] = Step(count, sums, s) \/ sums[s] = StepBack(count, sums, s)
  <2>1. \/ sums = [s \in SUBSET I |-> Step(count, sums, s)]
        \/ sums = [s \in SUBSET I |-> StepBack(count, sums, s)]
    BY DEF Sums, SumsBack
  <2> QED
    BY <2>1
<1>5. {} \in G
  <2>1. Step(count, sums, {}) = 0 /\ StepBack(count, sums, {}) = 0 /\ Step(count, sizes, {}) = 0
    BY DEF Step, StepBack
  <2> QED
    BY <1>3, <1>4, <2>1
<1>6. ASSUME NEW s \in SUBSET I, s # {}, \A x \in s : s \ {x} \in G PROVE s \in G
  <2>1. PICK x \in s : x = CHOOSE y \in s : TRUE
    BY <1>6
  <2>2. sums[s \ {x}] = sizes[s \ {x}] /\ s \ {x} \in SUBSET I /\ count[x] \in Nat
    BY <1>6
  <2>3. sizes[s \ {x}] \in Nat
    BY <1>2, <2>2
  <2>4. Step(count, sums, s) = count[x] + sizes[s \ {x}] /\ StepBack(count, sums, s) = sizes[s \ {x}] + count[x]
    BY <1>6, <2>1, <2>2 DEF Step, StepBack
  <2>5. Step(count, sizes, s) = count[x] + sizes[s \ {x}]
    BY <1>6, <2>1 DEF Step
  <2> QED
    BY <1>3, <1>4, <2>2, <2>3, <2>4, <2>5
<1>7. G \in SUBSET SUBSET I
  OBVIOUS
<1> HIDE DEF G
<1>8. I \in G
  <2>1. I \in SUBSET I
    OBVIOUS
  <2> QED
    BY <1>5, <1>6, <1>7, <2>1, SubsetsReached
<1> QED
  BY <1>8 DEF G, sizes

(* So that a sum is a number of units, whichever way it adds.               *)
LEMMA SumIs ==
    ASSUME NEW name, NEW count, NEW I, IsFiniteSet(I), Disjoint(name, I), \A i \in I : count[i] \in Nat
    PROVE  /\ (CHOOSE g : Sums(count, I, g))[I] = Cardinality(Units(name, count, I))
           /\ (CHOOSE g : SumsBack(count, I, g))[I] = Cardinality(Units(name, count, I))
<1> DEFINE sums == CHOOSE g : Sums(count, I, g)
           back == CHOOSE g : SumsBack(count, I, g)
<1>1. Sums(count, I, sums) /\ SumsBack(count, I, back)
  <2>1. (\E g : Sums(count, I, g)) /\ (\E g : SumsBack(count, I, g))
    BY UnitsSum
  <2> QED
    BY <2>1
<1> HIDE DEF sums, back
<1>2. sums[I] = Cardinality(Units(name, count, I)) /\ back[I] = Cardinality(Units(name, count, I))
  BY <1>1, SumsAre
<1> QED
  BY <1>2 DEF sums, back
-----------------------------------------------------------------------------
(* What a sequence of buckets counts.                                       *)
Bucket == [second : Int, count : Nat \ {0}]
Ordered(b) == \A i, j \in DOMAIN b : i < j => b[i].second < b[j].second
Seconds(b) == [j \in DOMAIN b |-> b[j].second]
Counts(b) == [j \in DOMAIN b |-> b[j].count]
Slots(b) == Units(Seconds(b), Counts(b), DOMAIN b)

LEMMA TotalIs ==
    ASSUME NEW b \in Seq(Bucket), Ordered(b)
    PROVE  /\ IsFiniteSet(Slots(b))
           /\ FoldSeq(LAMBDA x, sum : sum + x.count, 0, b) = Cardinality(Slots(b))
<1> DEFINE I == DOMAIN b
           c == Counts(b)
           StepOf(g, s) == IF s = {} THEN 0
                           ELSE g[s \ {CHOOSE y \in s : TRUE}] + b[CHOOSE y \in s : TRUE].count
           SumsOf(g) == g = [s \in SUBSET I |-> StepOf(g, s)]
<1>1. FoldSeq(LAMBDA x, sum : sum + x.count, 0, b) = (CHOOSE g : SumsOf(g))[I]
  BY DEF FoldSeq, FoldFunction, FoldFunctionOnSet, MapThenFoldSet
<1>2. \A g : SumsOf(g) <=> SumsBack(c, I, g)
  <2> SUFFICES ASSUME NEW g PROVE SumsOf(g) <=> SumsBack(c, I, g)
    OBVIOUS
  <2>1. \A s \in SUBSET I : StepOf(g, s) = StepBack(c, g, s)
    <3> SUFFICES ASSUME NEW s \in SUBSET I PROVE StepOf(g, s) = StepBack(c, g, s)
      OBVIOUS
    <3>1. CASE s = {}
      BY <3>1 DEF StepBack
    <3>2. CASE s # {}
      <4>1. PICK x \in s : x = CHOOSE y \in s : TRUE
        BY <3>2
      <4>2. c[x] = b[x].count
        BY <4>1 DEF Counts
      <4> QED
        BY <3>2, <4>1, <4>2 DEF StepBack
    <3> QED
      BY <3>1, <3>2
  <2> HIDE DEF StepOf, I, c
  <2>2. [s \in SUBSET I |-> StepOf(g, s)] = [s \in SUBSET I |-> StepBack(c, g, s)]
    BY <2>1
  <2> QED
    BY <2>2 DEF SumsBack
<1> HIDE DEF SumsOf
<1>3. (CHOOSE g : SumsOf(g)) = (CHOOSE g : SumsBack(c, I, g))
  BY <1>2, Zenon
<1>4. IsFiniteSet(I) /\ I = 1..Len(b)
  <2>1. I = 1..Len(b) /\ Len(b) \in Nat
    OBVIOUS
  <2>2. IsFiniteSet(1..Len(b))
    BY <2>1, FS_Interval
  <2> QED
    BY <2>1, <2>2
<1>5. \A i \in I : b[i] \in Bucket
  <2>1. \A i \in 1..Len(b) : b[i] \in Bucket
    OBVIOUS
  <2> QED
    BY <1>4, <2>1
<1>6. \A i \in I : c[i] \in Nat
  BY <1>5 DEF Counts, Bucket
<1>7. Disjoint(Seconds(b), I)
  <2> SUFFICES ASSUME NEW i \in I, NEW j \in I, Seconds(b)[i] = Seconds(b)[j], i # j PROVE FALSE
    BY DEF Disjoint
  <2>1. b[i].second = b[j].second /\ b[i].second \in Int
    BY <1>5 DEF Seconds, Bucket
  <2>2. i < j \/ j < i
    BY <1>4
  <2> QED
    BY <2>1, <2>2 DEF Ordered
<1> HIDE DEF I, c
<1>8. /\ IsFiniteSet(Units(Seconds(b), c, I))
      /\ (CHOOSE g : SumsBack(c, I, g))[I] = Cardinality(Units(Seconds(b), c, I))
  BY <1>4, <1>6, <1>7, SumIs, UnitsAreFinite
<1> QED
  BY <1>1, <1>3, <1>8 DEF Slots, I, c

LEMMA SlotsAre ==
    ASSUME NEW b \in Seq(Bucket), NEW v
    PROVE  /\ v \in Slots(b) <=> \E j \in 1..Len(b) : \E k \in 1..b[j].count : v = <<b[j].second, k>>
           /\ v \in Slots(b) => v[1] \in Int
<1>1. DOMAIN b = 1..Len(b) /\ \A j \in 1..Len(b) : b[j].second \in Int
  <2>1. \A j \in 1..Len(b) : b[j] \in Bucket
    OBVIOUS
  <2> QED
    BY <2>1 DEF Bucket
<1>2. v \in Slots(b) <=> \E j \in 1..Len(b) : \E k \in 1..b[j].count : v = <<b[j].second, k>>
  BY <1>1 DEF Slots, Units, Seconds, Counts
<1> QED
  BY <1>1, <1>2

(* What a count to the moment has seen.                                     *)
SeenRecords == [floor : Int, at : [0..MaxNow -> Nat]]
Admitted(seen) == Units([t \in 0..MaxNow |-> t], seen.at, 0..MaxNow)

LEMMA AdmittedAre ==
    ASSUME NEW seen, NEW u
    PROVE  u \in Admitted(seen) <=> \E t \in 0..MaxNow : \E k \in 1..seen.at[t] : u = <<t, k>>
  BY DEF Admitted, Units

LEMMA PreciseIs ==
    ASSUME NEW seen \in SeenRecords
    PROVE  IsFiniteSet(Admitted(seen)) /\ Precise(seen) = Cardinality(Admitted(seen))
<1> DEFINE I == 0..MaxNow
           c == seen.at
           name == [t \in I |-> t]
           StepOf(g, s) == IF s = {} THEN 0
                           ELSE seen.at[CHOOSE y \in s : TRUE] + g[s \ {CHOOSE y \in s : TRUE}]
           SumsOf(g) == g = [s \in SUBSET I |-> StepOf(g, s)]
<1>1. Precise(seen) = (CHOOSE g : SumsOf(g))[I]
  BY DEF Precise, MapThenSumSet, MapThenFoldSet
<1>2. (CHOOSE g : SumsOf(g)) = (CHOOSE g : Sums(c, I, g))
  BY DEF Sums, Step
<1>3. IsFiniteSet(I)
  BY LimiterAssumption, FS_Interval
<1>4. Disjoint(name, I) /\ \A i \in I : c[i] \in Nat
  BY DEF Disjoint, SeenRecords
<1>5. Units(name, c, I) = Admitted(seen)
  BY DEF Admitted
<1> HIDE DEF SumsOf, I, c, name
<1>6. /\ IsFiniteSet(Units(name, c, I))
      /\ (CHOOSE g : Sums(c, I, g))[I] = Cardinality(Units(name, c, I))
  BY <1>3, <1>4, SumIs, UnitsAreFinite
<1> QED
  BY <1>1, <1>2, <1>5, <1>6

(* What is asked keeps only what is after the time it asks from.            *)
LEMMA AskIs ==
    ASSUME NEW seen \in SeenRecords, NEW from \in Int
    PROVE  /\ Ask(seen, from) \in SeenRecords
           /\ Admitted(Ask(seen, from)) \subseteq Admitted(seen)
           /\ \A u \in Admitted(Ask(seen, from)) : u[1] \in Int /\ from <= u[1]
<1> DEFINE floor == MaxOf(seen.floor, from)
           a == Ask(seen, from)
<1>1. floor \in Int /\ from <= floor
  BY DEF MaxOf, SeenRecords
<1>2. a.floor = floor /\ a.at = [t \in 0..MaxNow |-> IF t > floor THEN seen.at[t] ELSE 0]
  BY DEF Ask
<1>3. seen.at \in [0..MaxNow -> Nat] /\ MaxNow \in Nat
  BY LimiterAssumption DEF SeenRecords
<1>4. a = [floor |-> a.floor, at |-> a.at]
  BY DEF Ask
<1> HIDE DEF a, floor
<1>5. a.at \in [0..MaxNow -> Nat]
  BY <1>2, <1>3
<1>6. a \in SeenRecords
  BY <1>1, <1>2, <1>4, <1>5 DEF SeenRecords
<1>7. ASSUME NEW u \in Admitted(a) PROVE u \in Admitted(seen) /\ u[1] \in Int /\ from <= u[1]
  <2>1. PICK t \in 0..MaxNow : \E k \in 1..a.at[t] : u = <<t, k>>
    BY AdmittedAre
  <2>2. PICK k \in 1..a.at[t] : u = <<t, k>>
    BY <2>1
  <2>3. t > floor /\ a.at[t] = seen.at[t]
    <3>1. a.at[t] = IF t > floor THEN seen.at[t] ELSE 0
      BY <1>2
    <3>2. a.at[t] # 0
      BY <2>2
    <3> QED
      BY <3>1, <3>2
  <2>4. u[1] = t /\ t \in Int
    BY <1>3, <2>2
  <2>5. u \in Admitted(seen)
    BY <2>2, <2>3, AdmittedAre
  <2> QED
    BY <1>1, <2>3, <2>4, <2>5
<1> QED
  BY <1>6, <1>7 DEF a

-----------------------------------------------------------------------------
(* A window. Every admission seen has a slot of its own that is no earlier. *)
WindowRecords == [id : Ids, buckets : Seq(Bucket), total : Int, retain : Nat, lastUsed : 0..MaxNow,
                  seen : SeenRecords]

Covers(m, seen, b) ==
    /\ m \in Injection(Admitted(seen), Slots(b))
    /\ \A u \in Admitted(seen) : Unix(u[1]) <= m[u][1]

Tallied(b, total, seen) ==
    /\ b \in Seq(Bucket) /\ Ordered(b) /\ seen \in SeenRecords
    /\ total = Cardinality(Slots(b))
    /\ \E m : Covers(m, seen, b)

(* So it admits less than its total, to the moment.                         *)
LEMMA TalliedBounds ==
    ASSUME NEW b, NEW total, NEW seen, Tallied(b, total, seen)
    PROVE  Precise(seen) \in Nat /\ total \in Nat /\ Precise(seen) <= total
<1>1. PICK m : Covers(m, seen, b)
  BY DEF Tallied
<1>2. IsFiniteSet(Slots(b)) /\ total = Cardinality(Slots(b))
  BY TotalIs DEF Tallied
<1>3. IsFiniteSet(Admitted(seen)) /\ Precise(seen) = Cardinality(Admitted(seen))
  BY PreciseIs DEF Tallied
<1>4. Cardinality(Admitted(seen)) <= Cardinality(Slots(b))
  BY <1>1, <1>2, FS_Injection DEF Covers
<1> QED
  BY <1>2, <1>3, <1>4, FS_CardinalityType

LEMMA RestLength ==
    ASSUME NEW n \in Nat, NEW all \in Nat, n <= all
    PROVE  (IF n + 1 <= all THEN all - (n + 1) + 1 ELSE 0) = all - n
  OBVIOUS

(* An end of a sequence in order holds the slots from some second on.       *)
LEMMA CutIs ==
    ASSUME NEW b \in Seq(Bucket), Ordered(b), NEW n \in 0..Len(b)
    PROVE  LET front == SubSeq(b, 1, n)
               rest == SubSeq(b, n + 1, Len(b))
           IN  /\ front \in Seq(Bucket) /\ Ordered(front)
               /\ rest \in Seq(Bucket) /\ Ordered(rest)
               /\ Slots(b) = Slots(front) \cup Slots(rest)
               /\ Slots(front) \cap Slots(rest) = {}
               /\ \A v \in Slots(rest) : \E j \in (n + 1)..Len(b) : v[1] = b[j].second
               /\ \A v \in Slots(front) : \E j \in 1..n : v[1] = b[j].second
<1> DEFINE front == SubSeq(b, 1, n)
           rest == SubSeq(b, n + 1, Len(b))
<1>1. Len(b) \in Nat /\ n \in Nat /\ n <= Len(b) /\ DOMAIN b = 1..Len(b)
  OBVIOUS
<1>2. \A j \in 1..Len(b) : b[j] \in Bucket
  OBVIOUS
<1>3. front \in Seq(Bucket) /\ Len(front) = n /\ \A j \in 1..n : front[j] = b[j]
  <2>1. \A j \in 1..n : b[j] \in Bucket
    BY <1>1, <1>2
  <2> QED
    BY <1>1, <2>1
<1>4. rest \in Seq(Bucket) /\ Len(rest) = Len(b) - n /\ \A j \in 1..(Len(b) - n) : rest[j] = b[n + j]
  <2>1. \A j \in (n + 1)..Len(b) : b[j] \in Bucket
    BY <1>1, <1>2
  <2>2. rest \in Seq(Bucket)
    BY <1>1, <2>1
  <2>3. Len(rest) = Len(b) - n
    <3>1. Len(rest) = IF n + 1 <= Len(b) THEN Len(b) - (n + 1) + 1 ELSE 0
      BY <1>1
    <3> HIDE DEF rest
    <3> QED
      BY <1>1, <3>1, RestLength
  <2>4. ASSUME NEW j \in 1..(Len(b) - n) PROVE rest[j] = b[n + j]
    <3>1. rest[j] = b[(n + 1) + j - 1]
      BY <1>1
    <3>2. (n + 1) + j - 1 = n + j
      BY <1>1
    <3> QED
      BY <3>1, <3>2
  <2> QED
    BY <2>2, <2>3, <2>4
<1> HIDE DEF front, rest
<1>5. DOMAIN front = 1..n /\ DOMAIN rest = 1..(Len(b) - n)
  BY <1>3, <1>4
<1>6. Ordered(front)
  BY <1>1, <1>3, <1>5 DEF Ordered
<1>7. Ordered(rest)
  <2> SUFFICES ASSUME NEW i \in 1..(Len(b) - n), NEW j \in 1..(Len(b) - n), i < j
               PROVE  rest[i].second < rest[j].second
    BY <1>5 DEF Ordered
  <2>1. n + i \in 1..Len(b) /\ n + j \in 1..Len(b) /\ n + i < n + j
    BY <1>1
  <2>2. b[n + i].second < b[n + j].second
    BY <1>1, <2>1 DEF Ordered
  <2> QED
    BY <1>4, <2>2
<1>8. \A v : v \in Slots(front) <=> \E j \in 1..n : \E k \in 1..b[j].count : v = <<b[j].second, k>>
  BY <1>3, SlotsAre
<1>9. \A v : v \in Slots(rest) <=> \E j \in (n + 1)..Len(b) : \E k \in 1..b[j].count : v = <<b[j].second, k>>
  <2>1. \A v : v \in Slots(rest) <=> \E j \in 1..(Len(b) - n) : \E k \in 1..rest[j].count : v = <<rest[j].second, k>>
    BY <1>4, SlotsAre
  <2>2. ASSUME NEW v, v \in Slots(rest)
        PROVE  \E j \in (n + 1)..Len(b) : \E k \in 1..b[j].count : v = <<b[j].second, k>>
    <3>1. PICK j \in 1..(Len(b) - n) : \E k \in 1..rest[j].count : v = <<rest[j].second, k>>
      BY <2>1, <2>2
    <3>2. n + j \in (n + 1)..Len(b) /\ rest[j] = b[n + j]
      BY <1>1, <1>4
    <3> QED
      BY <3>1, <3>2
  <2>3. ASSUME NEW v, NEW j \in (n + 1)..Len(b), NEW k \in 1..b[j].count, v = <<b[j].second, k>>
        PROVE  v \in Slots(rest)
    <3>1. j - n \in 1..(Len(b) - n) /\ n + (j - n) = j
      BY <1>1
    <3>2. rest[j - n] = b[j]
      BY <1>4, <3>1
    <3> QED
      BY <2>1, <2>3, <3>1, <3>2
  <2> QED
    BY <2>2, <2>3
<1>10. \A v : v \in Slots(b) <=> \E j \in 1..Len(b) : \E k \in 1..b[j].count : v = <<b[j].second, k>>
  BY SlotsAre
<1>11. Slots(b) = Slots(front) \cup Slots(rest)
  <2>1. \A j : j \in 1..Len(b) <=> j \in 1..n \/ j \in (n + 1)..Len(b)
    BY <1>1
  <2> QED
    BY <1>8, <1>9, <1>10, <2>1
<1>12. \A v \in Slots(front) : \E j \in 1..n : v[1] = b[j].second
  BY <1>8
<1>13. \A v \in Slots(rest) : \E j \in (n + 1)..Len(b) : v[1] = b[j].second
  BY <1>9
<1>14. Slots(front) \cap Slots(rest) = {}
  <2> SUFFICES ASSUME NEW v \in Slots(front), v \in Slots(rest) PROVE FALSE
    OBVIOUS
  <2>1. PICK i \in 1..n : v[1] = b[i].second
    BY <1>12
  <2>2. PICK j \in (n + 1)..Len(b) : v[1] = b[j].second
    BY <1>13
  <2>3. i \in 1..Len(b) /\ j \in 1..Len(b) /\ i < j
    BY <1>1
  <2>4. b[i].second < b[j].second /\ b[i].second \in Int
    BY <1>1, <1>2, <2>3 DEF Ordered, Bucket
  <2> QED
    BY <2>1, <2>2, <2>4
<1> QED
  BY <1>3, <1>4, <1>6, <1>7, <1>11, <1>12, <1>13, <1>14 DEF front, rest

(* What expires is a prefix, and the total goes with it.                    *)
LEMMA ExpireIs ==
    ASSUME NEW w \in WindowRecords, NEW since \in Int, Ordered(w.buckets), w.total = Cardinality(Slots(w.buckets))
    PROVE  LET e == Expire(w, since)
           IN  /\ e = [w EXCEPT !.buckets = e.buckets, !.total = e.total]
               /\ e.buckets \in Seq(Bucket) /\ Ordered(e.buckets)
               /\ e.total = Cardinality(Slots(e.buckets))
               /\ Slots(e.buckets) = {v \in Slots(w.buckets) : v[1] >= since}
<1> DEFINE b == w.buckets
           I == {i \in 1..Len(b) : b[i].second >= since}
           drained == SelectInSeq(b, LAMBDA x : x.second >= since)
           n == IF drained = 0 THEN Len(b) ELSE drained - 1
           front == SubSeq(b, 1, n)
           rest == SubSeq(b, n + 1, Len(b))
           e == Expire(w, since)
<1>1. b \in Seq(Bucket) /\ Ordered(b) /\ w.total = Cardinality(Slots(b))
  BY DEF WindowRecords
<1>2. Len(b) \in Nat /\ DOMAIN b = 1..Len(b) /\ \A j \in 1..Len(b) : b[j].second \in Int
  <2>1. \A j \in 1..Len(b) : b[j] \in Bucket
    BY <1>1
  <2> QED
    BY <1>1, <2>1 DEF Bucket
<1>3. drained = IF I # {} THEN Min(I) ELSE 0
  BY DEF SelectInSeq
<1>4. e = [w EXCEPT !.buckets = rest,
                    !.total = w.total - FoldSeq(LAMBDA x, sum : sum + x.count, 0, front)]
  BY DEF Expire
<1> HIDE DEF e, drained
<1>5. n \in 0..Len(b) /\ (\A j \in 1..n : b[j].second < since) /\ \A j \in (n + 1)..Len(b) : b[j].second >= since
  <2>1. CASE I = {}
    <3>1. n = Len(b) /\ \A j \in 1..Len(b) : ~(b[j].second >= since)
      BY <1>3, <2>1
    <3> QED
      BY <1>2, <3>1
  <2>2. CASE I # {}
    <3>1. I \in SUBSET Nat
      BY <1>2
    <3>2. Min(I) \in I /\ \A i \in I : Min(I) <= i
      <4> HIDE DEF I
      <4> QED
        BY <2>2, <3>1, MinIs
    <3>3. drained \in 1..Len(b) /\ b[drained].second >= since /\ \A i \in I : drained <= i
      BY <1>3, <2>2, <3>2
    <3>4. n = drained - 1
      BY <1>2, <3>3
    <3>5. ASSUME NEW j \in 1..n PROVE b[j].second < since
      <4>1. j \in 1..Len(b) /\ j < drained
        BY <1>2, <3>3, <3>4
      <4>2. j \notin I
        BY <3>3, <4>1
      <4>3. ~(b[j].second >= since)
        BY <4>1, <4>2
      <4> QED
        BY <1>2, <4>1, <4>3
    <3>6. ASSUME NEW j \in (n + 1)..Len(b) PROVE b[j].second >= since
      <4>1. j \in 1..Len(b) /\ (j = drained \/ drained < j)
        BY <1>2, <3>3, <3>4
      <4>2. j = drained \/ b[drained].second < b[j].second
        BY <1>1, <1>2, <3>3, <4>1 DEF Ordered
      <4>3. b[j].second \in Int /\ b[drained].second \in Int
        BY <1>2, <3>3, <4>1
      <4> QED
        BY <3>3, <4>2, <4>3
    <3>7. n \in 0..Len(b)
      BY <1>2, <3>3, <3>4
    <3> QED
      BY <3>5, <3>6, <3>7
  <2> QED
    BY <2>1, <2>2
<1> HIDE DEF n, b
<1>6. /\ front \in Seq(Bucket) /\ Ordered(front)
      /\ rest \in Seq(Bucket) /\ Ordered(rest)
      /\ Slots(b) = Slots(front) \cup Slots(rest)
      /\ Slots(front) \cap Slots(rest) = {}
      /\ \A v \in Slots(rest) : \E j \in (n + 1)..Len(b) : v[1] = b[j].second
      /\ \A v \in Slots(front) : \E j \in 1..n : v[1] = b[j].second
  BY <1>1, <1>5, CutIs
<1> HIDE DEF front, rest
<1>7. /\ IsFiniteSet(Slots(front)) /\ IsFiniteSet(Slots(rest))
      /\ FoldSeq(LAMBDA x, sum : sum + x.count, 0, front) = Cardinality(Slots(front))
  BY <1>6, TotalIs
<1>8. Cardinality(Slots(b)) = Cardinality(Slots(front)) + Cardinality(Slots(rest))
  <2>1. Cardinality(Slots(front) \cup Slots(rest))
          = Cardinality(Slots(front)) + Cardinality(Slots(rest)) - Cardinality(Slots(front) \cap Slots(rest))
    BY <1>7, FS_Union
  <2>2. Cardinality(Slots(front) \cap Slots(rest)) = 0
    BY <1>6, FS_EmptySet
  <2>3. Cardinality(Slots(front)) \in Nat /\ Cardinality(Slots(rest)) \in Nat
    BY <1>7, FS_CardinalityType
  <2> QED
    BY <1>6, <2>1, <2>2, <2>3
<1>9. Cardinality(Slots(b)) - Cardinality(Slots(front)) = Cardinality(Slots(rest))
  <2>1. Cardinality(Slots(front)) \in Nat /\ Cardinality(Slots(rest)) \in Nat
    BY <1>7, FS_CardinalityType
  <2> QED
    BY <1>8, <2>1
<1>10. e.buckets = rest /\ e.total = Cardinality(Slots(rest)) /\ e = [w EXCEPT !.buckets = e.buckets, !.total = e.total]
  <2>1. e.buckets = rest
    BY <1>4 DEF WindowRecords
  <2>2. e.total = w.total - FoldSeq(LAMBDA x, sum : sum + x.count, 0, front)
    BY <1>4 DEF WindowRecords
  <2>3. e.total = Cardinality(Slots(rest))
    BY <1>1, <1>7, <1>9, <2>2
  <2>4. e = [w EXCEPT !.buckets = e.buckets, !.total = e.total]
    BY <1>4, <2>1, <2>2
  <2> QED
    BY <2>1, <2>3, <2>4
<1>11. Slots(rest) = {v \in Slots(b) : v[1] >= since}
  <2>1. \A v \in Slots(rest) : v[1] >= since
    BY <1>5, <1>6
  <2>2. ASSUME NEW v \in Slots(front) PROVE ~(v[1] >= since)
    <3>1. PICK j \in 1..n : v[1] = b[j].second
      BY <1>6
    <3>2. b[j].second < since /\ b[j].second \in Int
      BY <1>2, <1>5
    <3> QED
      BY <3>1, <3>2
  <2> QED
    BY <1>6, <2>1, <2>2
<1> QED
  BY <1>6, <1>10, <1>11 DEF e, b

(* What is recorded takes one slot more, no earlier than its second.        *)
LEMMA RecordIs ==
    ASSUME NEW w \in WindowRecords, NEW second \in Int, Ordered(w.buckets),
           w.total = Cardinality(Slots(w.buckets))
    PROVE  LET r == Record(w, second)
           IN  /\ r = [w EXCEPT !.buckets = r.buckets, !.total = r.total]
               /\ r.buckets \in Seq(Bucket) /\ Ordered(r.buckets)
               /\ r.total = Cardinality(Slots(r.buckets))
               /\ \E v : /\ Slots(r.buckets) = Slots(w.buckets) \cup {v} /\ v \notin Slots(w.buckets)
                         /\ v[1] \in Int /\ second <= v[1]
<1> DEFINE b == w.buckets
           n == Len(b)
           joins == n > 0 /\ b[n].second >= second
           d == IF joins THEN [b EXCEPT ![n].count = @ + 1]
                ELSE Append(b, [second |-> second, count |-> 1])
           r == Record(w, second)
<1>1. b \in Seq(Bucket) /\ Ordered(b) /\ w.total = Cardinality(Slots(b))
  BY DEF WindowRecords
<1>2. n \in Nat /\ DOMAIN b = 1..n /\ Len(b) = n
  BY <1>1
<1>3. \A j \in 1..n : b[j] \in Bucket /\ b[j].second \in Int /\ b[j].count \in Nat \ {0}
  <2>1. \A j \in 1..n : b[j] \in Bucket
    BY <1>1
  <2> QED
    BY <2>1 DEF Bucket
<1>4. r.buckets = d /\ r.total = w.total + 1
  <2>1. CASE joins
    BY <2>1 DEF Record, WindowRecords
  <2>2. CASE ~joins
    BY <2>2 DEF Record, WindowRecords
  <2> QED
    BY <2>1, <2>2
<1>5. r = [w EXCEPT !.buckets = r.buckets, !.total = r.total]
  BY DEF Record, WindowRecords
<1> DEFINE Fits(v) == /\ Slots(d) = Slots(b) \cup {v} /\ v \notin Slots(b)
                      /\ v[1] \in Int /\ second <= v[1]
<1>6. d \in Seq(Bucket) /\ Ordered(d) /\ \E v : Fits(v)
  <2>1. CASE joins
    <3> DEFINE more == [second |-> b[n].second, count |-> b[n].count + 1]
               v == <<b[n].second, b[n].count + 1>>
    <3>1. n \in 1..n /\ b[n] \in Bucket /\ b[n].second \in Int /\ b[n].count \in Nat \ {0} /\ b[n].second >= second
      BY <1>2, <1>3, <2>1
    <3>2. [b[n] EXCEPT !.count = b[n].count + 1] = more
      BY <3>1 DEF Bucket
    <3>3. more \in Bucket
      BY <3>1 DEF Bucket
    <3>4. d = [b EXCEPT ![n] = more]
      <4>1. d = [b EXCEPT ![n] = [b[n] EXCEPT !.count = b[n].count + 1]]
        BY <2>1
      <4> QED
        BY <3>2, <4>1
    <3> HIDE DEF d, joins, b, n
    <3>5. d \in Seq(Bucket) /\ Len(d) = n
      BY <1>1, <1>2, <3>1, <3>3, <3>4
    <3>6. d[n] = more /\ \A j \in 1..n : j # n => d[j] = b[j]
      BY <1>2, <3>1, <3>4
    <3>7. \A j \in 1..n : d[j].second = b[j].second
      BY <3>6
    <3>8. Ordered(d)
      BY <1>1, <1>2, <3>5, <3>7 DEF Ordered
    <3>9. \A u : u \in Slots(d) <=> \E j \in 1..n : \E k \in 1..d[j].count : u = <<b[j].second, k>>
      BY <3>5, <3>7, SlotsAre
    <3>10. \A u : u \in Slots(b) <=> \E j \in 1..n : \E k \in 1..b[j].count : u = <<b[j].second, k>>
      BY <1>1, <1>2, SlotsAre
    <3>11. d[n].count = b[n].count + 1 /\ \A j \in 1..n : j # n => d[j].count = b[j].count
      BY <3>6
    <3>12. v \in Slots(d)
      <4>1. b[n].count + 1 \in 1..d[n].count
        BY <3>1, <3>11
      <4> QED
        BY <3>1, <3>9, <4>1
    <3>13. v \notin Slots(b)
      <4> SUFFICES ASSUME v \in Slots(b) PROVE FALSE
        OBVIOUS
      <4>1. PICK j \in 1..n : \E k \in 1..b[j].count : v = <<b[j].second, k>>
        BY <3>10
      <4>2. b[j].second = b[n].second /\ b[n].count + 1 \in 1..b[j].count
        BY <4>1
      <4>3. j = n \/ j < n
        BY <1>2
      <4>4. j = n
        <5>1. CASE j < n
          <6>1. b[j].second < b[n].second /\ b[j].second \in Int
            BY <1>1, <1>2, <1>3, <3>1, <5>1 DEF Ordered
          <6> QED
            BY <3>1, <4>2, <6>1
        <5> QED
          BY <4>3, <5>1
      <4> QED
        BY <3>1, <4>2, <4>4
    <3>14. \A u \in Slots(b) : u \in Slots(d)
      <4> SUFFICES ASSUME NEW u \in Slots(b) PROVE u \in Slots(d)
        OBVIOUS
      <4>0. PICK j \in 1..n : \E k \in 1..b[j].count : u = <<b[j].second, k>>
        BY <3>10
      <4>1. PICK k \in 1..b[j].count : u = <<b[j].second, k>>
        BY <4>0
      <4>2. k \in 1..d[j].count
        BY <1>3, <3>11
      <4> QED
        BY <3>9, <4>1, <4>2
    <3>15. \A u \in Slots(d) : u \in Slots(b) \/ u = v
      <4> SUFFICES ASSUME NEW u \in Slots(d), u \notin Slots(b) PROVE u = v
        OBVIOUS
      <4>0. PICK j \in 1..n : \E k \in 1..d[j].count : u = <<b[j].second, k>>
        BY <3>9
      <4>1. PICK k \in 1..d[j].count : u = <<b[j].second, k>>
        BY <4>0
      <4>2. ~(k \in 1..b[j].count)
        BY <3>10, <4>1
      <4>3. j = n
        BY <3>11, <4>1, <4>2
      <4>4. k = b[n].count + 1
        BY <3>1, <3>11, <4>1, <4>2, <4>3
      <4> QED
        BY <4>1, <4>3, <4>4
    <3>16. v[1] = b[n].second
      OBVIOUS
    <3> HIDE DEF v
    <3>17. Fits(v)
      BY <3>1, <3>12, <3>13, <3>14, <3>15, <3>16
    <3> QED
      BY <3>5, <3>8, <3>17
  <2>2. CASE ~joins
    <3> DEFINE new == [second |-> second, count |-> 1]
               v == <<second, 1>>
    <3>1. d = Append(b, new) /\ new \in Bucket
      BY <2>2 DEF Bucket
    <3>2. ASSUME NEW j \in 1..n PROVE b[j].second < second
      <4>1. b[n].second < second /\ n \in 1..n
        BY <1>2, <1>3, <2>2
      <4>2. j = n \/ b[j].second < b[n].second
        BY <1>1, <1>2, <4>1 DEF Ordered
      <4> QED
        BY <1>3, <4>1, <4>2
    <3> HIDE DEF d, joins, b, new, n
    <3>3. d \in Seq(Bucket) /\ Len(d) = n + 1 /\ d[n + 1] = new /\ \A j \in 1..n : d[j] = b[j]
      BY <1>1, <1>2, <3>1
    <3>4. new.second = second /\ new.count = 1
      BY DEF new
    <3>5. Ordered(d)
      <4> SUFFICES ASSUME NEW i \in 1..(n + 1), NEW j \in 1..(n + 1), i < j PROVE d[i].second < d[j].second
        BY <3>3 DEF Ordered
      <4>1. i \in 1..n /\ d[i] = b[i]
        BY <1>2, <3>3
      <4>2. CASE j = n + 1
        BY <3>2, <3>3, <3>4, <4>1, <4>2
      <4>3. CASE j \in 1..n
        BY <1>1, <1>2, <3>3, <4>1, <4>3 DEF Ordered
      <4> QED
        BY <1>2, <4>2, <4>3
    <3>6. \A u : u \in Slots(d) <=> \E j \in 1..(n + 1) : \E k \in 1..d[j].count : u = <<d[j].second, k>>
      BY <3>3, SlotsAre
    <3>7. \A u : u \in Slots(b) <=> \E j \in 1..n : \E k \in 1..b[j].count : u = <<b[j].second, k>>
      BY <1>1, <1>2, SlotsAre
    <3>8. v \in Slots(d)
      <4>1. n + 1 \in 1..(n + 1) /\ 1 \in 1..d[n + 1].count /\ v = <<d[n + 1].second, 1>>
        BY <1>2, <3>3, <3>4
      <4> QED
        BY <3>6, <4>1
    <3>9. v \notin Slots(b)
      <4> SUFFICES ASSUME v \in Slots(b) PROVE FALSE
        OBVIOUS
      <4>1. PICK j \in 1..n : \E k \in 1..b[j].count : v = <<b[j].second, k>>
        BY <3>7
      <4> QED
        BY <3>2, <4>1
    <3>10. \A u \in Slots(b) : u \in Slots(d)
      <4> SUFFICES ASSUME NEW u \in Slots(b) PROVE u \in Slots(d)
        OBVIOUS
      <4>0. PICK j \in 1..n : \E k \in 1..b[j].count : u = <<b[j].second, k>>
        BY <3>7
      <4>1. PICK k \in 1..b[j].count : u = <<b[j].second, k>>
        BY <4>0
      <4>2. j \in 1..(n + 1) /\ d[j] = b[j]
        BY <1>2, <3>3
      <4> QED
        BY <3>6, <4>1, <4>2
    <3>11. \A u \in Slots(d) : u \in Slots(b) \/ u = v
      <4> SUFFICES ASSUME NEW u \in Slots(d) PROVE u \in Slots(b) \/ u = v
        OBVIOUS
      <4>0. PICK j \in 1..(n + 1) : \E k \in 1..d[j].count : u = <<d[j].second, k>>
        BY <3>6
      <4>1. PICK k \in 1..d[j].count : u = <<d[j].second, k>>
        BY <4>0
      <4>2. CASE j \in 1..n
        BY <3>3, <3>7, <4>1, <4>2
      <4>3. CASE j = n + 1
        <5>1. d[j].second = second /\ d[j].count = 1
          BY <3>3, <3>4, <4>3
        <5>2. k = 1
          BY <4>1, <5>1
        <5> QED
          BY <4>1, <5>1, <5>2
      <4> QED
        BY <1>2, <4>2, <4>3
    <3>12. v[1] = second
      OBVIOUS
    <3> HIDE DEF v
    <3>13. Fits(v)
      BY <3>8, <3>9, <3>10, <3>11, <3>12
    <3> QED
      BY <3>3, <3>5, <3>13
  <2> QED
    BY <2>1, <2>2
<1> HIDE DEF r, d, b
<1>7. r.total = Cardinality(Slots(d))
  <2>1. PICK v : Slots(d) = Slots(b) \cup {v} /\ v \notin Slots(b)
    BY <1>6
  <2>2. IsFiniteSet(Slots(b))
    BY <1>1, TotalIs
  <2>3. Cardinality(Slots(b) \cup {v}) = Cardinality(Slots(b)) + 1
    BY <2>1, <2>2, FS_AddElement
  <2> QED
    BY <1>1, <1>4, <2>1, <2>3
<1> QED
  BY <1>4, <1>5, <1>6, <1>7 DEF r, b

(* Forgetting what is before a time, and what its second is after, keeps a  *)
(* slot for every admission that is left.                                   *)
LEMMA ExpireTallies ==
    ASSUME NEW w \in WindowRecords, NEW seen \in SeenRecords, Tallied(w.buckets, w.total, seen), NEW from \in Int
    PROVE  LET e == Expire(w, Unix(from))
           IN  /\ e = [w EXCEPT !.buckets = e.buckets, !.total = e.total]
               /\ Tallied(e.buckets, e.total, Ask(seen, from))
<1> DEFINE e == Expire(w, Unix(from))
           a == Ask(seen, from)
           b == w.buckets
<1>1. Unix(from) \in Int
  BY SecondsPass
<1>2. Ordered(b) /\ w.total = Cardinality(Slots(b)) /\ b \in Seq(Bucket)
  BY DEF Tallied
<1>3. /\ e = [w EXCEPT !.buckets = e.buckets, !.total = e.total]
      /\ e.buckets \in Seq(Bucket) /\ Ordered(e.buckets)
      /\ e.total = Cardinality(Slots(e.buckets))
      /\ Slots(e.buckets) = {v \in Slots(b) : v[1] >= Unix(from)}
  BY <1>1, <1>2, ExpireIs
<1>4. /\ a \in SeenRecords
      /\ Admitted(a) \subseteq Admitted(seen)
      /\ \A u \in Admitted(a) : u[1] \in Int /\ from <= u[1]
  BY AskIs
<1>5. PICK m : Covers(m, seen, b)
  BY DEF Tallied
<1>6. m \in [Admitted(seen) -> Slots(b)] /\ \A u, v \in Admitted(seen) : m[u] = m[v] => u = v
  BY <1>5 DEF Covers, Injection, IsInjective
<1> HIDE DEF e, a, b
<1> DEFINE k == [u \in Admitted(a) |-> m[u]]
<1>7. ASSUME NEW u \in Admitted(a) PROVE m[u] \in Slots(e.buckets) /\ Unix(u[1]) <= m[u][1]
  <2>1. u \in Admitted(seen) /\ m[u] \in Slots(b)
    BY <1>4, <1>6
  <2>2. Unix(u[1]) <= m[u][1]
    BY <1>5, <2>1 DEF Covers
  <2>3. Unix(from) <= Unix(u[1]) /\ Unix(u[1]) \in Int
    BY <1>4, SecondsPass
  <2>4. m[u][1] \in Int
    BY <1>2, <2>1, SlotsAre
  <2>5. m[u][1] >= Unix(from)
    BY <1>1, <2>2, <2>3, <2>4
  <2> QED
    BY <1>3, <2>1, <2>2, <2>5
<1>8. k \in Injection(Admitted(a), Slots(e.buckets))
  <2>1. k \in [Admitted(a) -> Slots(e.buckets)]
    BY <1>7
  <2>2. \A u, v \in Admitted(a) : k[u] = k[v] => u = v
    BY <1>4, <1>6
  <2> QED
    BY <2>1, <2>2 DEF Injection, IsInjective
<1>9. Covers(k, a, e.buckets)
  <2>1. \A u \in Admitted(a) : Unix(u[1]) <= k[u][1]
    BY <1>7
  <2> QED
    BY <1>8, <2>1 DEF Covers
<1>10. Tallied(e.buckets, e.total, a)
  BY <1>3, <1>4, <1>9 DEF Tallied
<1> QED
  BY <1>3, <1>10 DEF e, a

(* And an admission comes with a slot of its own.                           *)
LEMMA RecordTallies ==
    ASSUME NEW w \in WindowRecords, Tallied(w.buckets, w.total, w.seen), NEW at \in 0..MaxNow
    PROVE  LET r == [Record(w, Unix(at)) EXCEPT !.seen.at[at] = @ + 1]
           IN  r \in WindowRecords /\ r.lastUsed = w.lastUsed /\ Tallied(r.buckets, r.total, r.seen)
<1> DEFINE x == Record(w, Unix(at))
           r == [x EXCEPT !.seen.at[at] = @ + 1]
           old == w.seen
           new == r.seen
<1>1. MaxNow \in Nat /\ at \in Int
  BY LimiterAssumption
<1>2. Unix(at) \in Int
  BY <1>1, SecondsPass
<1>3. Ordered(w.buckets) /\ w.total = Cardinality(Slots(w.buckets)) /\ w.buckets \in Seq(Bucket)
  BY DEF Tallied
<1>4. /\ x = [w EXCEPT !.buckets = x.buckets, !.total = x.total]
      /\ x.buckets \in Seq(Bucket) /\ Ordered(x.buckets)
      /\ x.total = Cardinality(Slots(x.buckets))
      /\ \E v : /\ Slots(x.buckets) = Slots(w.buckets) \cup {v} /\ v \notin Slots(w.buckets)
                /\ v[1] \in Int /\ Unix(at) <= v[1]
  BY <1>2, <1>3, RecordIs
<1>5. PICK v : /\ Slots(x.buckets) = Slots(w.buckets) \cup {v} /\ v \notin Slots(w.buckets)
               /\ v[1] \in Int /\ Unix(at) <= v[1]
  BY <1>4
<1> HIDE DEF x
<1>6. x.total \in Int
  <2>1. IsFiniteSet(Slots(x.buckets))
    BY <1>4, TotalIs
  <2> QED
    BY <1>4, <2>1, FS_CardinalityType
<1>7. x \in WindowRecords /\ x.seen = old /\ x.lastUsed = w.lastUsed /\ x.id = w.id /\ x.retain = w.retain
  BY <1>4, <1>6 DEF WindowRecords
<1> DEFINE f == old.at
<1>8. old \in SeenRecords /\ f \in [0..MaxNow -> Nat] /\ old.floor \in Int
  BY DEF WindowRecords, SeenRecords
<1> DEFINE c == [f EXCEPT ![at] = f[at] + 1]
<1>9. new = [old EXCEPT !.at = c]
  BY <1>7, <1>8 DEF WindowRecords, SeenRecords
<1>10. new.at = c /\ new \in SeenRecords
  <2>1. c \in [0..MaxNow -> Nat]
    <3> HIDE DEF f
    <3>1. f[at] + 1 \in Nat
      BY <1>8
    <3> QED
      BY <1>8, <3>1
  <2> HIDE DEF c, new
  <2> QED
    BY <1>8, <1>9, <2>1 DEF SeenRecords
<1>11. r.buckets = x.buckets /\ r.total = x.total /\ r.lastUsed = w.lastUsed /\ r.id = w.id /\ r.retain = w.retain
  BY <1>7 DEF WindowRecords
<1>12. r = [id |-> r.id, buckets |-> r.buckets, total |-> r.total, retain |-> r.retain, lastUsed |-> r.lastUsed,
            seen |-> r.seen]
  <2>1. r = [x EXCEPT !.seen = r.seen]
    BY <1>7 DEF WindowRecords
  <2>2. DOMAIN x = {"id", "buckets", "total", "retain", "lastUsed", "seen"}
    BY <1>7 DEF WindowRecords
  <2> HIDE DEF r
  <2> QED
    BY <1>7, <2>1, <2>2 DEF WindowRecords
<1> HIDE DEF new, old
<1>13. r.seen = new
  BY DEF new
<1> HIDE DEF r
<1>14. r \in WindowRecords
  <2>1. w.id \in Ids /\ w.retain \in Nat /\ w.lastUsed \in 0..MaxNow
    BY DEF WindowRecords
  <2> QED
    BY <1>4, <1>6, <1>10, <1>11, <1>12, <1>13, <2>1 DEF WindowRecords
<1> DEFINE q == f[at] + 1
           u0 == <<at, q>>
<1> HIDE DEF f
<1>15. f[at] \in Nat /\ q \in Nat /\ c[at] = q /\ \A t \in 0..MaxNow : t # at => c[t] = f[t]
  <2>1. f[at] \in Nat
    BY <1>8
  <2> QED
    BY <1>8, <2>1
<1> HIDE DEF c
<1>16. \A u : u \in Admitted(old) <=> \E t \in 0..MaxNow : \E k \in 1..f[t] : u = <<t, k>>
  BY AdmittedAre DEF f
<1>17. \A u : u \in Admitted(new) <=> \E t \in 0..MaxNow : \E k \in 1..c[t] : u = <<t, k>>
  BY <1>10, AdmittedAre
<1>18. u0 \notin Admitted(old) /\ u0[1] = at
  <2> SUFFICES ASSUME u0 \in Admitted(old) PROVE FALSE
    OBVIOUS
  <2>1. PICK t \in 0..MaxNow : \E k \in 1..f[t] : u0 = <<t, k>>
    BY <1>16
  <2>2. t = at /\ q \in 1..f[at]
    BY <2>1
  <2> QED
    BY <1>15, <2>2
<1>19. \A u \in Admitted(new) : u \in Admitted(old) \/ u = u0
  <2> SUFFICES ASSUME NEW u \in Admitted(new), u \notin Admitted(old) PROVE u = u0
    OBVIOUS
  <2>1. PICK t \in 0..MaxNow : \E k \in 1..c[t] : u = <<t, k>>
    BY <1>17
  <2>2. PICK k \in 1..c[t] : u = <<t, k>>
    BY <2>1
  <2>3. ~(k \in 1..f[t])
    BY <1>16, <2>2
  <2>4. t = at
    BY <1>15, <2>2, <2>3
  <2>5. f[at] \in Nat /\ k \in 1..(f[at] + 1) /\ ~(k \in 1..f[at])
    BY <1>15, <2>2, <2>3, <2>4
  <2>6. k = q
    BY <2>5
  <2> QED
    BY <2>2, <2>4, <2>6
<1>20. PICK m : Covers(m, old, w.buckets)
  BY DEF Tallied, old
<1>21. m \in [Admitted(old) -> Slots(w.buckets)] /\ \A s, t \in Admitted(old) : m[s] = m[t] => s = t
  BY <1>20 DEF Covers, Injection, IsInjective
<1> HIDE DEF u0, q
<1> DEFINE k == [u \in Admitted(new) |-> IF u = u0 THEN v ELSE m[u]]
<1>22. \A u \in Admitted(new) : u # u0 => k[u] = m[u] /\ m[u] \in Slots(w.buckets) /\ u \in Admitted(old)
  BY <1>19, <1>21
<1>23. \A u \in Admitted(new) : u = u0 => k[u] = v
  OBVIOUS
<1>24. k \in [Admitted(new) -> Slots(x.buckets)]
  <2>1. \A u \in Admitted(new) : k[u] \in Slots(x.buckets)
    BY <1>5, <1>22, <1>23
  <2> QED
    BY <2>1
<1> HIDE DEF k
<1>25. \A s, t \in Admitted(new) : k[s] = k[t] => s = t
  BY <1>5, <1>21, <1>22, <1>23
<1>26. \A u \in Admitted(new) : Unix(u[1]) <= k[u][1]
  BY <1>5, <1>18, <1>20, <1>22, <1>23 DEF Covers
<1>27. Covers(k, new, x.buckets)
  BY <1>24, <1>25, <1>26 DEF Covers, Injection, IsInjective
<1>28. Tallied(x.buckets, x.total, new)
  BY <1>4, <1>10, <1>27 DEF Tallied
<1>29. Tallied(r.buckets, r.total, r.seen)
  BY <1>11, <1>13, <1>28
<1> QED
  BY <1>11, <1>14, <1>29 DEF r, x

(* A window that was asked about, and one that was pruned.                  *)
LEMMA NewIsTallied ==
    ASSUME NEW i \in Ids, NEW retain \in Nat, NEW at \in 0..MaxNow
    PROVE  LET w == NewWindow(i, retain, at)
           IN  w \in WindowRecords /\ w.lastUsed = at /\ Tallied(w.buckets, w.total, w.seen)
<1> DEFINE w == NewWindow(i, retain, at)
           seen == NoAdmissions
<1>1. MaxNow \in Nat
  BY LimiterAssumption
<1>2. /\ w.buckets = <<>> /\ w.total = 0 /\ w.seen = seen /\ w.lastUsed = at /\ w.id = i /\ w.retain = retain
      /\ w = [id |-> i, buckets |-> <<>>, total |-> 0, retain |-> retain, lastUsed |-> at, seen |-> seen]
  BY DEF NewWindow
<1>3. seen \in SeenRecords /\ \A t \in 0..MaxNow : seen.at[t] = 0
  <2>1. seen.at = [t \in 0..MaxNow |-> 0] /\ seen.floor = 0 - MaxNow /\ seen = [at |-> seen.at, floor |-> seen.floor]
    BY DEF NoAdmissions
  <2>2. seen.at \in [0..MaxNow -> Nat] /\ seen.floor \in Int
    BY <1>1, <2>1
  <2> QED
    BY <2>1, <2>2 DEF SeenRecords
<1> HIDE DEF seen, w
<1>4. <<>> \in Seq(Bucket) /\ Ordered(<<>>) /\ Len(<<>>) = 0
  BY DEF Ordered
<1>5. Slots(<<>>) = {}
  BY DEF Slots, Units
<1>6. Admitted(seen) = {}
  BY <1>3, AdmittedAre
<1>7. Covers([u \in {} |-> u], seen, <<>>)
  BY <1>5, <1>6 DEF Covers, Injection, IsInjective
<1>8. Tallied(<<>>, 0, seen)
  BY <1>3, <1>4, <1>5, <1>7, FS_EmptySet DEF Tallied
<1>9. w \in WindowRecords
  BY <1>2, <1>3, <1>4 DEF WindowRecords
<1> QED
  BY <1>2, <1>8, <1>9 DEF w

-----------------------------------------------------------------------------
(* The limiter.                                                             *)
CheckRecords == [pc : {"idle", "lookup", "create", "decide"}, id : Ids \cup {NoCheck.id},
                 limit : Limits \cup {NoCheck.limit}, at : 0..MaxNow, window : Nat]
CleanerRecords == [pc : {"idle", "prune", "reclaim"}, at : 0..MaxNow, tracked : SUBSET Ids,
                   reclaim : SUBSET Ids]

WindowIsGood(w) == w \in WindowRecords /\ w.lastUsed <= now /\ Tallied(w.buckets, w.total, w.seen)

WindowsInv ==
    /\ now \in 0..MaxNow
    /\ heap \in Seq(WindowRecords) /\ windows \in [Ids -> 0..Len(heap)]
    /\ \A n \in 1..Len(heap) : WindowIsGood(heap[n])

ChecksInv ==
    /\ check \in [Checks -> CheckRecords]
    /\ \A c \in Checks :
         /\ check[c].pc # "idle" => check[c].id \in Ids /\ check[c].limit \in Limits
         /\ check[c].at <= now
         /\ check[c].pc = "decide" => check[c].window \in 1..Len(heap)

\* Only what is in the map is pruned and reclaimed.
CleanerInv ==
    /\ cleaner \in CleanerRecords
    /\ \A i \in cleaner.tracked \cup cleaner.reclaim : windows[i] # 0
    /\ cleaner.pc # "prune" => cleaner.tracked = {}

LimiterInv == WindowsInv /\ ChecksInv /\ CleanerInv

LEMMA LimiterNumbers ==
    ASSUME LimiterInv
    PROVE  /\ MaxNow \in Nat /\ now \in Nat /\ now <= MaxNow
           /\ \A c \in Checks : /\ check[c] \in CheckRecords
                                /\ check[c].at \in 0..MaxNow /\ check[c].at \in Int
                                /\ check[c].pc # "idle" => /\ check[c].limit.window \in Nat /\ check[c].limit.window \in Int
                                                           /\ check[c].limit.requests \in Nat
<1>1. MaxNow \in Nat
  BY LimiterAssumption
<1>2. now \in Nat /\ now <= MaxNow
  BY <1>1 DEF LimiterInv, WindowsInv
<1>3. ASSUME NEW c \in Checks
      PROVE  /\ check[c] \in CheckRecords
             /\ check[c].at \in 0..MaxNow /\ check[c].at \in Int
             /\ check[c].pc # "idle" => /\ check[c].limit.window \in Nat /\ check[c].limit.window \in Int
                                        /\ check[c].limit.requests \in Nat
  <2>1. check[c] \in CheckRecords
    BY DEF LimiterInv, ChecksInv
  <2>2. check[c].at \in 0..MaxNow
    BY <2>1 DEF CheckRecords
  <2>3. check[c].at \in Int
    BY <1>1, <2>2
  <2>4. ASSUME check[c].pc # "idle"
        PROVE  /\ check[c].limit.window \in Nat /\ check[c].limit.window \in Int
               /\ check[c].limit.requests \in Nat
    <3>1. check[c].limit \in Limits
      BY <2>4 DEF LimiterInv, ChecksInv
    <3>2. check[c].limit.window \in Nat \ {0} /\ check[c].limit.requests \in Nat \ {0}
      BY <3>1, LimiterAssumption
    <3> QED
      BY <3>2
  <2> QED
    BY <2>1, <2>2, <2>3, <2>4
<1> QED
  BY <1>1, <1>2, <1>3

LEMMA IdleCheck == NoCheck \in CheckRecords /\ NoCheck.pc = "idle" /\ NoCheck.at = 0
<1> DEFINE i == CHOOSE x \in Ids : TRUE
           l == CHOOSE x \in Limits : TRUE
<1>1. NoCheck = [pc |-> "idle", id |-> i, limit |-> l, at |-> 0, window |-> 0]
  BY DEF NoCheck
<1> HIDE DEF i, l
<1>2. NoCheck.id = i /\ NoCheck.limit = l /\ NoCheck.pc = "idle" /\ NoCheck.at = 0
  BY <1>1
<1>3. 0 \in 0..MaxNow /\ 0 \in Nat
  BY LimiterAssumption
<1> QED
  BY <1>1, <1>2, <1>3 DEF CheckRecords

LEMMA LimiterStart == LimiterInit => LimiterInv
<1> SUFFICES ASSUME LimiterInit PROVE LimiterInv
  OBVIOUS
<1>1. MaxNow \in Nat
  BY LimiterAssumption
<1>2. WindowsInv
  <2>1. heap = <<>> /\ now = 0 /\ windows = [i \in Ids |-> 0]
    BY DEF LimiterInit
  <2>2. heap \in Seq(WindowRecords) /\ Len(heap) = 0
    BY <2>1
  <2>3. windows \in [Ids -> 0..Len(heap)]
    BY <2>1, <2>2
  <2> QED
    BY <1>1, <2>1, <2>2, <2>3 DEF WindowsInv
<1>3. ChecksInv
  <2>1. NoCheck \in CheckRecords /\ NoCheck.pc = "idle" /\ NoCheck.at = 0
    BY IdleCheck
  <2>3. check = [c \in Checks |-> NoCheck] /\ now = 0
    BY DEF LimiterInit
  <2> QED
    BY <2>1, <2>3 DEF ChecksInv
<1>4. CleanerInv
  <2>1. cleaner = [pc |-> "idle", at |-> 0, tracked |-> {}, reclaim |-> {}]
    BY DEF LimiterInit, NoCleanup
  <2>2. 0 \in 0..MaxNow
    BY <1>1
  <2> QED
    BY <2>1, <2>2 DEF CleanerInv, CleanerRecords
<1> QED
  BY <1>2, <1>3, <1>4 DEF LimiterInv

(* A check goes on, and the rest stays.                                     *)
LEMMA CheckMoves ==
    ASSUME LimiterInv, NEW c \in Checks, NEW x \in CheckRecords,
           x.pc # "idle" => x.id \in Ids /\ x.limit \in Limits,
           x.at <= now, x.pc = "decide" => x.window \in 1..Len(heap),
           check' = [check EXCEPT ![c] = x], UNCHANGED <<now, windows, heap, cleaner>>
    PROVE  LimiterInv'
<1>1. ChecksInv'
  <2>1. check' \in [Checks -> CheckRecords]
    BY DEF LimiterInv, ChecksInv
  <2>2. ASSUME NEW d \in Checks
        PROVE  /\ check'[d].pc # "idle" => check'[d].id \in Ids /\ check'[d].limit \in Limits
               /\ check'[d].at <= now
               /\ check'[d].pc = "decide" => check'[d].window \in 1..Len(heap)
    <3>1. check'[d] = IF d = c THEN x ELSE check[d]
      BY DEF LimiterInv, ChecksInv
    <3> QED
      BY <3>1 DEF LimiterInv, ChecksInv
  <2> QED
    BY <2>1, <2>2 DEF ChecksInv
<1>2. WindowsInv' /\ CleanerInv'
  BY DEF LimiterInv, WindowsInv, CleanerInv, WindowIsGood
<1> QED
  BY <1>1, <1>2 DEF LimiterInv

LEMMA BeginCheckKeeps == ASSUME LimiterInv, NEW c \in Checks, BeginCheck(c) PROVE LimiterInv'
<1>1. PICK i \in Ids, l \in Limits :
        check' = [check EXCEPT ![c] = [NoCheck EXCEPT !.pc = "lookup", !.id = i, !.limit = l, !.at = now]]
  BY DEF BeginCheck
<1> DEFINE x == [pc |-> "lookup", id |-> i, limit |-> l, at |-> now, window |-> 0]
<1>2. [NoCheck EXCEPT !.pc = "lookup", !.id = i, !.limit = l, !.at = now] = x
  <2> DEFINE i0 == CHOOSE y \in Ids : TRUE
             l0 == CHOOSE y \in Limits : TRUE
  <2>1. NoCheck = [pc |-> "idle", id |-> i0, limit |-> l0, at |-> 0, window |-> 0]
    BY DEF NoCheck
  <2> HIDE DEF i0, l0
  <2>2. DOMAIN NoCheck = {"pc", "id", "limit", "at", "window"} /\ NoCheck.window = 0
    BY <2>1
  <2> DEFINE z == [NoCheck EXCEPT !.pc = "lookup", !.id = i, !.limit = l, !.at = now]
  <2>3. z.pc = "lookup" /\ z.id = i /\ z.limit = l /\ z.window = 0 
    BY <2>2
  <2>4. z.at = now
    BY <2>2
  <2>5. DOMAIN z = {"pc", "id", "limit", "at", "window"}
    BY <2>2
  <2>6. z = [f \in DOMAIN z |-> z[f]]
    BY <2>2
  <2>7. DOMAIN x = {"pc", "id", "limit", "at", "window"} /\ x = [f \in DOMAIN x |-> x[f]]
    OBVIOUS
  <2>8. x.pc = "lookup" /\ x.id = i /\ x.limit = l /\ x.window = 0 /\ x.at = now
    OBVIOUS
  <2> HIDE DEF x, z
  <2>9. \A f \in DOMAIN z : z[f] = x[f]
    BY <2>3, <2>4, <2>5, <2>8
  <2> QED
    BY <2>5, <2>6, <2>7, <2>9 DEF z
<1>3. now \in 0..MaxNow /\ now <= now
  BY LimiterNumbers DEF LimiterInv, WindowsInv
<1>4. x \in CheckRecords /\ x.pc = "lookup" /\ x.id = i /\ x.limit = l /\ x.at = now
  BY <1>3 DEF CheckRecords
<1> HIDE DEF x
<1>5. check' = [check EXCEPT ![c] = x] /\ UNCHANGED <<now, windows, heap, cleaner>>
  BY <1>1, <1>2 DEF BeginCheck
<1> QED
  BY <1>3, <1>4, <1>5, CheckMoves

LEMMA LookupKeeps == ASSUME LimiterInv, NEW c \in Checks, Lookup(c) PROVE LimiterInv'
<1> DEFINE i == check[c].id
           w == windows[i]
           x == [check[c] EXCEPT !.pc = IF w = 0 THEN "create" ELSE "decide", !.window = w]
<1>1. check[c] \in CheckRecords /\ check[c].pc = "lookup" /\ i \in Ids /\ check[c].limit \in Limits /\ check[c].at <= now
  BY LimiterNumbers DEF Lookup, LimiterInv, ChecksInv
<1>2. w \in 0..Len(heap) /\ Len(heap) \in Nat
  BY <1>1 DEF LimiterInv, WindowsInv
<1>3. x.pc = (IF w = 0 THEN "create" ELSE "decide") /\ x.window = w /\ x.id = i /\ x.limit = check[c].limit /\ x.at = check[c].at
  BY <1>1 DEF CheckRecords
<1>4. x = [pc |-> x.pc, id |-> x.id, limit |-> x.limit, at |-> x.at, window |-> x.window]
  <2> DEFINE r == check[c]
             p == IF w = 0 THEN "create" ELSE "decide"
  <2>1. r = [pc |-> r.pc, id |-> r.id, limit |-> r.limit, at |-> r.at, window |-> r.window]
    BY <1>1 DEF CheckRecords
  <2>2. x = [r EXCEPT !.pc = p, !.window = w]
    OBVIOUS
  <2> HIDE DEF r, p, w, x
  <2> QED
    BY <2>1, <2>2
<1>5. check' = [check EXCEPT ![c] = x] /\ UNCHANGED <<now, windows, heap, cleaner>>
  <2>1. check' = [check EXCEPT ![c] = [check[c] EXCEPT !.pc = IF w = 0 THEN "create" ELSE "decide", !.window = w]]
    BY DEF Lookup, LimiterInv, ChecksInv
  <2> QED
    BY <2>1 DEF Lookup
<1> HIDE DEF x, w, i
<1>6. check[c].at \in 0..MaxNow /\ i \in Ids /\ check[c].limit \in Limits /\ w \in Nat
  BY <1>1, <1>2 DEF CheckRecords
<1>7. x \in CheckRecords
  BY <1>3, <1>4, <1>6 DEF CheckRecords
<1>8. x.pc = "decide" => x.window \in 1..Len(heap)
  BY <1>2, <1>3
<1> QED
  BY <1>1, <1>3, <1>5, <1>7, <1>8, CheckMoves

LEMMA CreateKeeps == ASSUME LimiterInv, NEW c \in Checks, Create(c) PROVE LimiterInv'
<1> DEFINE i == check[c].id
           n == Len(heap)
           at == check[c].at
           w == NewWindow(i, check[c].limit.window, at)
<1>1. /\ check[c] \in CheckRecords /\ check[c].pc = "create" /\ i \in Ids /\ check[c].limit \in Limits
      /\ at <= now /\ at \in 0..MaxNow /\ check[c].limit.window \in Nat
  BY LimiterNumbers DEF Create, LimiterInv, ChecksInv
<1>2. windows[i] \in 0..n /\ n \in Nat /\ heap \in Seq(WindowRecords) /\ windows \in [Ids -> 0..n]
  BY <1>1 DEF LimiterInv, WindowsInv
<1> DEFINE X(k) == [check[c] EXCEPT !.pc = "decide", !.window = k]
<1>3. ASSUME NEW k \in Nat \ {0}
      PROVE  /\ X(k) \in CheckRecords /\ X(k).pc = "decide" /\ X(k).window = k /\ X(k).at = at
             /\ X(k).id = i /\ X(k).limit = check[c].limit
  <2>1. X(k).pc = "decide" /\ X(k).window = k /\ X(k).at = at /\ X(k).id = i /\ X(k).limit = check[c].limit
    BY <1>1 DEF CheckRecords
  <2>2. X(k) \in CheckRecords
    BY <1>1 DEF CheckRecords
  <2> QED
    BY <2>1, <2>2
<1>4. check \in [Checks -> CheckRecords]
  BY DEF LimiterInv, ChecksInv
<1>5. CASE windows[i] # 0
  <2>1. check' = [check EXCEPT ![c] = X(windows[i])] /\ UNCHANGED <<now, windows, heap, cleaner>>
    <3>1. check' = [check EXCEPT ![c].pc = "decide", ![c].window = windows[i]]
      BY <1>5 DEF Create
    <3>2. [check EXCEPT ![c].pc = "decide", ![c].window = windows[i]] = [check EXCEPT ![c] = X(windows[i])]
      BY <1>4
    <3> QED
      BY <1>5, <3>1, <3>2 DEF Create
  <2> DEFINE x == X(windows[i])
  <2>2. windows[i] \in Nat \ {0} /\ windows[i] \in 1..Len(heap)
    BY <1>2, <1>5
  <2>3. x \in CheckRecords /\ x.pc = "decide" /\ x.window = windows[i] /\ x.at = at /\ x.id = i /\ x.limit = check[c].limit
    BY <1>3, <2>2
  <2> HIDE DEF x, X
  <2>4. check' = [check EXCEPT ![c] = x]
    BY <2>1 DEF x
  <2> QED
    BY <1>1, <2>1, <2>2, <2>3, <2>4, CheckMoves
<1>6. CASE windows[i] = 0
  <2> DEFINE x == X(n + 1)
  <2>1. /\ heap' = Append(heap, w) /\ windows' = [windows EXCEPT ![i] = n + 1]
        /\ now' = now /\ cleaner' = cleaner
    BY <1>6 DEF Create
  <2>2. check' = [check EXCEPT ![c] = x]
    <3>1. check' = [check EXCEPT ![c].pc = "decide", ![c].window = n + 1]
      BY <1>6 DEF Create
    <3>2. [check EXCEPT ![c].pc = "decide", ![c].window = n + 1] = [check EXCEPT ![c] = x]
      BY <1>4
    <3> QED
      BY <3>1, <3>2
  <2>3. n + 1 \in Nat \ {0}
    BY <1>2
  <2>4. x \in CheckRecords /\ x.pc = "decide" /\ x.window = n + 1 /\ x.at = at /\ x.id = i /\ x.limit = check[c].limit
    BY <1>3, <2>3
  <2>5. w \in WindowRecords /\ w.lastUsed = at /\ Tallied(w.buckets, w.total, w.seen)
    BY <1>1, NewIsTallied
  <2> HIDE DEF x, X, w
  <2>6. heap' \in Seq(WindowRecords) /\ Len(heap') = n + 1 /\ heap'[n + 1] = w /\ \A k \in 1..n : heap'[k] = heap[k]
    BY <1>2, <2>1, <2>5
  <2>7. WindowsInv'
    <3>1. \A k \in 1..n : WindowIsGood(heap[k])
      BY DEF LimiterInv, WindowsInv
    <3>2. WindowIsGood(w)
      BY <1>1, <2>5 DEF WindowIsGood
    <3>3. \A k \in 1..(n + 1) : WindowIsGood(heap'[k])
      BY <1>2, <2>6, <3>1, <3>2
    <3>4. windows' \in [Ids -> 0..(n + 1)]
      <4>1. 0..n \subseteq 0..(n + 1) /\ n + 1 \in 0..(n + 1)
        BY <1>2
      <4> HIDE DEF n
      <4> QED
        BY <1>2, <2>1, <4>1
    <3>5. now \in 0..MaxNow
      BY DEF LimiterInv, WindowsInv
    <3> QED
      BY <2>1, <2>6, <3>3, <3>4, <3>5 DEF WindowsInv, WindowIsGood
  <2>8. ChecksInv'
    <3>1. check' \in [Checks -> CheckRecords]
      BY <1>4, <2>2, <2>4
    <3>2. ASSUME NEW d \in Checks
          PROVE  /\ check'[d].pc # "idle" => check'[d].id \in Ids /\ check'[d].limit \in Limits
                 /\ check'[d].at <= now
                 /\ check'[d].pc = "decide" => check'[d].window \in 1..(n + 1)
      <4>1. check'[d] = IF d = c THEN x ELSE check[d]
        BY <1>4, <2>2
      <4>2. CASE d = c
        BY <1>1, <1>2, <2>4, <4>1, <4>2
      <4>3. CASE d # c
        <5>1. check[d].pc = "decide" => check[d].window \in 1..n
          BY DEF LimiterInv, ChecksInv
        <5>2. 1..n \subseteq 1..(n + 1)
          BY <1>2
        <5> QED
          BY <4>1, <4>3, <5>1, <5>2 DEF LimiterInv, ChecksInv
      <4> QED
        BY <4>2, <4>3
    <3> QED
      BY <2>1, <2>6, <3>1, <3>2 DEF ChecksInv
  <2>9. CleanerInv'
    <3>1. cleaner \in CleanerRecords /\ cleaner.pc # "prune" => cleaner.tracked = {}
      BY DEF LimiterInv, CleanerInv
    <3>2. ASSUME NEW j \in cleaner.tracked \cup cleaner.reclaim PROVE windows'[j] # 0
      <4>1. j \in Ids /\ windows[j] # 0
        BY <3>2 DEF LimiterInv, CleanerInv, CleanerRecords
      <4>2. windows'[j] = IF j = i THEN n + 1 ELSE windows[j]
        BY <1>2, <2>1, <4>1
      <4> QED
        BY <2>3, <4>1, <4>2
    <3> QED
      BY <2>1, <3>2 DEF LimiterInv, CleanerInv
  <2> QED
    BY <2>7, <2>8, <2>9 DEF LimiterInv
<1> QED
  BY <1>5, <1>6

(* A window as it is asked about: the expired buckets are gone.             *)
LEMMA ExpiredIsGood ==
    ASSUME NEW w \in WindowRecords, NEW seen \in SeenRecords, Tallied(w.buckets, w.total, seen), NEW from \in Int
    PROVE  LET e == Expire(w, Unix(from))
           IN  /\ e \in WindowRecords /\ e.lastUsed = w.lastUsed /\ e.seen = w.seen
               /\ Tallied(e.buckets, e.total, Ask(seen, from))
<1> DEFINE e == Expire(w, Unix(from))
<1>1. e = [w EXCEPT !.buckets = e.buckets, !.total = e.total] /\ Tallied(e.buckets, e.total, Ask(seen, from))
  BY ExpireTallies
<1> HIDE DEF e
<1>2. e.buckets \in Seq(Bucket) /\ e.total \in Int
  <2>1. e.buckets \in Seq(Bucket)
    BY <1>1 DEF Tallied
  <2>2. e.total \in Nat
    BY <1>1, TalliedBounds
  <2> QED
    BY <2>1, <2>2
<1>3. e \in WindowRecords /\ e.lastUsed = w.lastUsed /\ e.seen = w.seen
  BY <1>1, <1>2 DEF WindowRecords
<1> QED
  BY <1>1, <1>3 DEF e

\* A check asks from its own time back; what it finds is tallied.
LEMMA AskedIsGood ==
    ASSUME LimiterInv, NEW c \in Checks, check[c].pc = "decide"
    PROVE  WindowIsGood(Asked(c)) /\ check[c].window \in 1..Len(heap) /\ check[c].at \in 0..MaxNow
<1> DEFINE n == check[c].window
           w == heap[n]
           at == check[c].at
           span == check[c].limit.window
           from == at - span
           seen == Ask(w.seen, from)
           w1 == [w EXCEPT !.retain = span, !.lastUsed = at, !.seen = seen]
           e == Expire(w1, Unix(from))
<1>1. n \in 1..Len(heap) /\ at <= now
  BY DEF LimiterInv, ChecksInv
<1>2. at \in 0..MaxNow /\ at \in Int /\ span \in Nat /\ span \in Int
  BY LimiterNumbers
<1>3. WindowIsGood(w) /\ w \in WindowRecords
  BY <1>1 DEF LimiterInv, WindowsInv, WindowIsGood
<1>4. from \in Int
  BY <1>2
<1>5. w.seen \in SeenRecords /\ Tallied(w.buckets, w.total, w.seen)
  BY <1>3 DEF WindowRecords, WindowIsGood
<1>6. Asked(c) = e
  <2>1. w1 = [w EXCEPT !.retain = span, !.lastUsed = at, !.seen = Ask(@, from)]
    BY <1>3 DEF WindowRecords
  <2> QED
    BY <2>1 DEF Asked
<1> HIDE DEF from, span, at, n, w
<1>7. seen \in SeenRecords
  BY <1>4, <1>5, AskIs
<1> HIDE DEF seen
<1>8. /\ w1 \in WindowRecords /\ w1.buckets = w.buckets /\ w1.total = w.total
      /\ w1.seen = seen /\ w1.lastUsed = at
  BY <1>2, <1>3, <1>7 DEF WindowRecords
<1> HIDE DEF w1
<1>9. /\ e \in WindowRecords /\ e.lastUsed = at /\ e.seen = seen
      /\ Tallied(e.buckets, e.total, Ask(w.seen, from))
  BY <1>4, <1>5, <1>8, ExpiredIsGood
<1>10. Tallied(e.buckets, e.total, e.seen)
  BY <1>9 DEF seen
<1> HIDE DEF e
<1>11. WindowIsGood(e)
  BY <1>1, <1>9, <1>10 DEF WindowIsGood, at
<1> QED
  BY <1>1, <1>2, <1>6, <1>11 DEF n, at

LEMMA HeapChanges ==
    ASSUME LimiterInv, NEW n \in 1..Len(heap), NEW w, WindowIsGood(w),
           heap' = [heap EXCEPT ![n] = w], UNCHANGED <<now, windows>>
    PROVE  WindowsInv' /\ Len(heap') = Len(heap)
<1>1. heap \in Seq(WindowRecords) /\ windows \in [Ids -> 0..Len(heap)] /\ now \in 0..MaxNow
  BY DEF LimiterInv, WindowsInv
<1>2. w \in WindowRecords
  BY DEF WindowIsGood
<1>3. heap' \in Seq(WindowRecords) /\ Len(heap') = Len(heap)
  BY <1>1, <1>2
<1>4. ASSUME NEW k \in 1..Len(heap) PROVE WindowIsGood(heap'[k])
  <2>1. heap'[k] = IF k = n THEN w ELSE heap[k]
    BY <1>1
  <2> QED
    BY <2>1 DEF LimiterInv, WindowsInv
<1> QED
  BY <1>1, <1>3, <1>4 DEF WindowsInv, WindowIsGood

\* What a check writes is what it was asked, and the admission if it made one.
LEMMA DecideKeeps == ASSUME LimiterInv, NEW c \in Checks, Decide(c) PROVE LimiterInv'
<1> DEFINE n == check[c].window
           at == check[c].at
           a == Asked(c)
           r == [Record(a, Unix(at)) EXCEPT !.seen.at[at] = @ + 1]
           w == IF Admits(c) THEN r ELSE a
<1>1. WindowIsGood(a) /\ n \in 1..Len(heap) /\ at \in 0..MaxNow
  BY AskedIsGood DEF Decide
<1>2. heap' = [heap EXCEPT ![n] = w] /\ check' = [check EXCEPT ![c] = NoCheck]
  BY DEF Decide
<1>3. UNCHANGED <<now, windows, cleaner>>
  BY DEF Decide
<1> HIDE DEF a
<1>4. r \in WindowRecords /\ r.lastUsed = a.lastUsed /\ Tallied(r.buckets, r.total, r.seen)
  BY <1>1, RecordTallies DEF WindowIsGood
<1> HIDE DEF r
<1>5. WindowIsGood(w)
  BY <1>1, <1>4 DEF WindowIsGood
<1> HIDE DEF w, n, at
<1>6. WindowsInv' /\ Len(heap') = Len(heap)
  BY <1>1, <1>2, <1>3, <1>5, HeapChanges
<1>7. ChecksInv'
  <2>1. NoCheck \in CheckRecords /\ NoCheck.pc = "idle" /\ NoCheck.at = 0
    BY IdleCheck
  <2>2. check \in [Checks -> CheckRecords] /\ 0 <= now
    BY LimiterNumbers DEF LimiterInv, ChecksInv
  <2>3. check' \in [Checks -> CheckRecords]
    BY <1>2, <2>1, <2>2
  <2>4. ASSUME NEW d \in Checks
        PROVE  /\ check'[d].pc # "idle" => check'[d].id \in Ids /\ check'[d].limit \in Limits
               /\ check'[d].at <= now
               /\ check'[d].pc = "decide" => check'[d].window \in 1..Len(heap)
    <3>1. check'[d] = IF d = c THEN NoCheck ELSE check[d]
      BY <1>2, <2>2
    <3> QED
      BY <2>1, <2>2, <3>1 DEF LimiterInv, ChecksInv
  <2> QED
    BY <1>3, <1>6, <2>3, <2>4 DEF ChecksInv
<1>8. CleanerInv'
  BY <1>3 DEF LimiterInv, CleanerInv
<1> QED
  BY <1>6, <1>7, <1>8 DEF LimiterInv

(* The cleaner goes on, and the rest stays.                                 *)
LEMMA CleanerMoves ==
    ASSUME LimiterInv, NEW x \in CleanerRecords,
           \A i \in x.tracked \cup x.reclaim : windows'[i] # 0, x.pc # "prune" => x.tracked = {},
           cleaner' = x, WindowsInv', UNCHANGED <<now, check>>, Len(heap') = Len(heap)
    PROVE  LimiterInv'
<1>1. ChecksInv'
  BY DEF LimiterInv, ChecksInv
<1>2. CleanerInv'
  BY DEF CleanerInv
<1> QED
  BY <1>1, <1>2 DEF LimiterInv

LEMMA IdleCleaner ==
    ASSUME LimiterInv
    PROVE  NoCleanup \in CleanerRecords /\ NoCleanup.pc = "idle" /\ NoCleanup.tracked = {} /\ NoCleanup.reclaim = {}
<1>1. 0 \in 0..MaxNow
  BY LimiterAssumption
<1> QED
  BY <1>1 DEF NoCleanup, CleanerRecords

LEMMA BeginCleanupKeeps == ASSUME LimiterInv, BeginCleanup PROVE LimiterInv'
<1> DEFINE mapped == {i \in Ids : windows[i] # 0}
           x == [pc |-> "prune", at |-> now, tracked |-> mapped, reclaim |-> {}]
<1>1. now \in 0..MaxNow
  BY DEF LimiterInv, WindowsInv
<1>2. x \in CleanerRecords /\ x.pc = "prune" /\ x.tracked = mapped /\ x.reclaim = {}
  BY <1>1 DEF CleanerRecords
<1>3. cleaner' = x
  BY DEF BeginCleanup, NoCleanup
<1>4. UNCHANGED <<now, windows, heap, check>>
  BY DEF BeginCleanup
<1>5. WindowsInv'
  BY <1>4 DEF LimiterInv, WindowsInv, WindowIsGood
<1> HIDE DEF x
<1>6. \A i \in x.tracked \cup x.reclaim : windows'[i] # 0
  BY <1>2, <1>4
<1> QED
  BY <1>2, <1>3, <1>4, <1>5, <1>6, CleanerMoves

LEMMA PruneKeeps == ASSUME LimiterInv, NEW i \in Ids, Prune(i) PROVE LimiterInv'
<1> DEFINE n == windows[i]
           w == heap[n]
           from == cleaner.at - w.retain
           e == Expire(w, Unix(from))
           p == [e EXCEPT !.seen = Ask(e.seen, from)]
           gone == IF Empty(p) /\ cleaner.at - w.lastUsed >= CleanupInterval
                   THEN cleaner.reclaim \cup {i} ELSE cleaner.reclaim
           x == [cleaner EXCEPT !.tracked = cleaner.tracked \ {i}, !.reclaim = gone]
<1>1. i \in cleaner.tracked /\ cleaner.pc = "prune" /\ cleaner \in CleanerRecords
  BY DEF Prune, LimiterInv, CleanerInv
<1>2. n \in 1..Len(heap)
  <2>1. n # 0 /\ n \in 0..Len(heap) /\ Len(heap) \in Nat
    BY <1>1 DEF LimiterInv, CleanerInv, WindowsInv
  <2> HIDE DEF n
  <2> QED
    BY <2>1
<1>3. WindowIsGood(w) /\ w \in WindowRecords
  BY <1>2 DEF LimiterInv, WindowsInv, WindowIsGood
<1>4. w.seen \in SeenRecords /\ w.retain \in Nat /\ Tallied(w.buckets, w.total, w.seen) /\ w.lastUsed <= now
  BY <1>3 DEF WindowRecords, WindowIsGood
<1>5. cleaner.at \in 0..MaxNow /\ MaxNow \in Nat
  BY <1>1, LimiterAssumption DEF CleanerRecords
<1>6. from \in Int
  BY <1>4, <1>5
<1>7. [e EXCEPT !.seen = Ask(@, from)] = p
  OBVIOUS
<1>8. heap' = [heap EXCEPT ![n] = p] /\ UNCHANGED <<now, windows, check>>
  BY <1>7 DEF Prune
<1>9. cleaner' = x
  BY <1>7 DEF Prune
<1> HIDE DEF w, from, n
<1>10. /\ e \in WindowRecords /\ e.lastUsed = w.lastUsed /\ e.seen = w.seen
       /\ Tallied(e.buckets, e.total, Ask(w.seen, from))
  BY <1>3, <1>4, <1>6, ExpiredIsGood
<1>11. Ask(e.seen, from) \in SeenRecords
  BY <1>4, <1>6, <1>10, AskIs
<1> HIDE DEF e
<1>12. p \in WindowRecords /\ p.lastUsed = w.lastUsed /\ p.buckets = e.buckets /\ p.total = e.total /\ p.seen = Ask(e.seen, from)
  BY <1>10, <1>11 DEF WindowRecords
<1> HIDE DEF p
<1>13. WindowIsGood(p)
  BY <1>4, <1>10, <1>12 DEF WindowIsGood
<1>14. WindowsInv' /\ Len(heap') = Len(heap)
  BY <1>2, <1>8, <1>13, HeapChanges
<1> HIDE DEF gone
<1>15. gone \subseteq cleaner.reclaim \cup {i}
  BY DEF gone
<1>16. /\ x \in CleanerRecords /\ x.tracked \subseteq cleaner.tracked /\ x.reclaim = gone /\ x.pc = "prune"
  BY <1>1, <1>15 DEF CleanerRecords
<1> HIDE DEF x
<1>17. \A j \in x.tracked \cup x.reclaim : windows'[j] # 0
  <2>1. \A j \in cleaner.tracked \cup cleaner.reclaim : windows[j] # 0
    BY DEF LimiterInv, CleanerInv
  <2> QED
    BY <1>1, <1>8, <1>15, <1>16, <2>1
<1> QED
  BY <1>8, <1>9, <1>14, <1>16, <1>17, CleanerMoves

LEMMA PruneDoneKeeps == ASSUME LimiterInv, PruneDone PROVE LimiterInv'
<1> DEFINE x == IF cleaner.reclaim = {} THEN NoCleanup ELSE [cleaner EXCEPT !.pc = "reclaim"]
<1>1. cleaner \in CleanerRecords /\ cleaner.tracked = {}
  BY DEF LimiterInv, CleanerInv, PruneDone
<1>2. cleaner' = x /\ UNCHANGED <<now, windows, heap, check>>
  BY DEF PruneDone
<1>3. x \in CleanerRecords /\ x.tracked = {} /\ x.reclaim \subseteq cleaner.reclaim
  <2>1. CASE cleaner.reclaim = {}
    BY <2>1, IdleCleaner
  <2>2. CASE cleaner.reclaim # {}
    BY <1>1, <2>2 DEF CleanerRecords
  <2> QED
    BY <2>1, <2>2
<1> HIDE DEF x
<1>4. WindowsInv'
  BY <1>2 DEF LimiterInv, WindowsInv, WindowIsGood
<1>5. \A i \in x.tracked \cup x.reclaim : windows'[i] # 0
  BY <1>2, <1>3 DEF LimiterInv, CleanerInv
<1> QED
  BY <1>2, <1>3, <1>4, <1>5, CleanerMoves

LEMMA ReclaimKeeps == ASSUME LimiterInv, NEW i \in Ids, Reclaim(i) PROVE LimiterInv'
<1> DEFINE x == [cleaner EXCEPT !.reclaim = cleaner.reclaim \ {i}]
           m == IF Empty(heap[windows[i]]) THEN [windows EXCEPT ![i] = 0] ELSE windows
<1>1. cleaner \in CleanerRecords /\ cleaner.pc = "reclaim" /\ cleaner.tracked = {}
  BY DEF LimiterInv, CleanerInv, Reclaim
<1>2. cleaner' = x
  BY DEF Reclaim
<1>3. windows' = m /\ UNCHANGED <<now, heap, check>>
  BY DEF Reclaim
<1>4. x \in CleanerRecords /\ x.tracked = {} /\ x.reclaim = cleaner.reclaim \ {i} /\ x.reclaim \subseteq Ids
  BY <1>1 DEF CleanerRecords
<1> HIDE DEF x
<1>5. windows \in [Ids -> 0..Len(heap)] /\ heap \in Seq(WindowRecords)
  BY DEF LimiterInv, WindowsInv
<1>6. 0 \in 0..Len(heap)
  BY <1>5
<1>7. m \in [Ids -> 0..Len(heap)] /\ \A j \in Ids : j # i => m[j] = windows[j]
  BY <1>5, <1>6
<1> HIDE DEF m
<1>8. WindowsInv'
  BY <1>3, <1>7 DEF LimiterInv, WindowsInv, WindowIsGood
<1>9. \A j \in x.tracked \cup x.reclaim : windows'[j] # 0
  BY <1>3, <1>4, <1>7 DEF LimiterInv, CleanerInv
<1> QED
  BY <1>2, <1>3, <1>4, <1>8, <1>9, CleanerMoves

LEMMA ReclaimDoneKeeps == ASSUME LimiterInv, ReclaimDone PROVE LimiterInv'
<1>1. cleaner' = NoCleanup /\ UNCHANGED <<now, windows, heap, check>>
  BY DEF ReclaimDone
<1>2. WindowsInv'
  BY <1>1 DEF LimiterInv, WindowsInv, WindowIsGood
<1> QED
  BY <1>1, <1>2, IdleCleaner, CleanerMoves

\* Nothing known is ahead of the clock, which only moves on.
LEMMA PassKeeps == ASSUME LimiterInv, Pass PROVE LimiterInv'
<1>1. now' = now + 1 /\ now < MaxNow /\ now \in Nat /\ MaxNow \in Nat /\ UNCHANGED <<windows, heap, check, cleaner>>
  BY LimiterNumbers DEF Pass
<1>2. WindowsInv'
  <2>1. heap \in Seq(WindowRecords) /\ windows \in [Ids -> 0..Len(heap)]
    BY DEF LimiterInv, WindowsInv
  <2>2. ASSUME NEW n \in 1..Len(heap) PROVE WindowIsGood(heap[n])'
    <3>1. heap[n] \in WindowRecords /\ heap[n].lastUsed <= now /\ Tallied(heap[n].buckets, heap[n].total, heap[n].seen)
      BY DEF LimiterInv, WindowsInv, WindowIsGood
    <3> DEFINE t == heap[n].lastUsed
    <3>2. t \in 0..MaxNow /\ t <= now
      BY <3>1 DEF WindowRecords
    <3> HIDE DEF t
    <3>3. t <= now + 1
      BY <1>1, <3>2
    <3> QED
      BY <1>1, <3>1, <3>3 DEF WindowIsGood, t
  <2>3. now' \in 0..MaxNow
    BY <1>1
  <2> QED
    BY <1>1, <2>1, <2>2, <2>3 DEF WindowsInv
<1>3. ChecksInv'
  <2>1. ASSUME NEW c \in Checks PROVE check[c].at <= now'
    <3> DEFINE t == check[c].at
    <3>1. t \in 0..MaxNow /\ t <= now
      BY LimiterNumbers DEF LimiterInv, ChecksInv
    <3> HIDE DEF t
    <3>2. t <= now'
      BY <1>1, <3>1
    <3> QED
      BY <3>2 DEF t
  <2> QED
    BY <1>1, <2>1 DEF LimiterInv, ChecksInv
<1>4. CleanerInv'
  BY <1>1 DEF LimiterInv, CleanerInv
<1> QED
  BY <1>2, <1>3, <1>4 DEF LimiterInv

LEMMA LimiterKeeps == LimiterInv /\ [LimiterNext]_limiterVars => LimiterInv'
<1> SUFFICES ASSUME LimiterInv, [LimiterNext]_limiterVars PROVE LimiterInv'
  OBVIOUS
<1>1. CASE LimiterNext
  BY <1>1, BeginCheckKeeps, LookupKeeps, CreateKeeps, DecideKeeps, BeginCleanupKeeps, PruneKeeps,
     PruneDoneKeeps, ReclaimKeeps, ReclaimDoneKeeps, PassKeeps DEF LimiterNext
<1>2. CASE UNCHANGED limiterVars
  <2>1. UNCHANGED <<now, windows, heap, check, cleaner>>
    BY <1>2 DEF limiterVars
  <2> QED
    BY <2>1 DEF LimiterInv, WindowsInv, ChecksInv, CleanerInv, WindowIsGood
<1> QED
  BY <1>1, <1>2

\* Who is admitted was less than the limit by a count that counts no less.
LEMMA AdmissionsAreFew ==
    LimiterInv =>
        \A c \in Checks : Decide(c) /\ Admits(c) => Precise(Asked(c).seen) < check[c].limit.requests
<1> SUFFICES ASSUME LimiterInv, NEW c \in Checks, Admits(c)
             PROVE  Precise(Asked(c).seen) < check[c].limit.requests
  OBVIOUS
<1> DEFINE a == Asked(c)
<1>1. check[c].pc = "decide" /\ a.total < check[c].limit.requests
  BY DEF Admits
<1>2. check[c].limit.requests \in Nat
  BY <1>1, LimiterNumbers
<1>3. Tallied(a.buckets, a.total, a.seen)
  BY <1>1, AskedIsGood DEF WindowIsGood
<1> HIDE DEF a
<1>4. Precise(a.seen) \in Nat /\ a.total \in Nat /\ Precise(a.seen) <= a.total
  BY <1>3, TalliedBounds
<1> DEFINE p == Precise(a.seen)
           t == a.total
           r == check[c].limit.requests
<1> HIDE DEF p, t, r
<1>5. p < r
  BY <1>1, <1>2, <1>4 DEF p, t, r
<1> QED
  BY <1>5 DEF p, r, a

-----------------------------------------------------------------------------
(* A delay doubles with every failure.                                      *)
Doubles(g) == g = [n \in Nat |-> IF n = 0 THEN BaseBackoff ELSE 2 * g[n-1]]

Doubled(n, h) == /\ h \in [0..n -> Nat \ {0}] /\ h[0] = BaseBackoff
                 /\ \A i \in 1..n : h[i] = 2 * h[i-1]

LEMMA DoubledGrows ==
    ASSUME NEW n \in Nat, NEW h, Doubled(n, h)
    PROVE  \E g : Doubled(n + 1, g)
<1> DEFINE last == 2 * h[n]
           g == [i \in 0..(n + 1) |-> IF i = n + 1 THEN last ELSE h[i]]
<1>1. h \in [0..n -> Nat \ {0}] /\ h[0] = BaseBackoff /\ \A i \in 1..n : h[i] = 2 * h[i-1]
  BY DEF Doubled
<1>2. last \in Nat \ {0}
  <2>1. h[n] \in Nat \ {0}
    BY <1>1
  <2> QED
    BY <2>1
<1>3. g[n + 1] = last /\ \A i \in 0..n : g[i] = h[i]
  OBVIOUS
<1>4. \A i \in 0..n : h[i] \in Nat \ {0}
  BY <1>1
<1>5. g \in [0..(n + 1) -> Nat \ {0}]
  <2> HIDE DEF last
  <2> QED
    BY <1>2, <1>4
<1> HIDE DEF g
<1>6. ASSUME NEW i \in 1..(n + 1) PROVE g[i] = 2 * g[i-1]
  <2>1. CASE i = n + 1
    <3>1. i - 1 = n /\ n \in 0..n
      BY <2>1
    <3> QED
      BY <1>3, <2>1, <3>1
  <2>2. CASE i # n + 1
    <3>1. i \in 1..n /\ i \in 0..n /\ i - 1 \in 0..n
      BY <2>2
    <3> QED
      BY <1>1, <1>3, <3>1
  <2> QED
    BY <2>1, <2>2
<1>7. g[0] = BaseBackoff
  BY <1>1, <1>3
<1> QED
  BY <1>5, <1>6, <1>7 DEF Doubled

LEMMA DoubledExists == ASSUME NEW n \in Nat PROVE \E h : Doubled(n, h)
<1> DEFINE U == {m \in Nat : ~\E h : Doubled(m, h)}
<1>1. CASE U # {}
  <2>1. PICK m \in U : \A k \in U : m <= k
    <3>1. U \in SUBSET Nat
      OBVIOUS
    <3> HIDE DEF U
    <3> QED
      BY <1>1, <3>1, LeastNatural
  <2>2. m # 0
    <3>1. BaseBackoff \in Nat \ {0}
      BY ThrottleAssumption
    <3>2. Doubled(0, [i \in 0..0 |-> BaseBackoff])
      BY <3>1 DEF Doubled
    <3> QED
      BY <2>1, <3>2
  <2>3. m - 1 \in Nat /\ m - 1 \notin U /\ (m - 1) + 1 = m
    BY <2>1, <2>2
  <2>4. \E h : Doubled((m - 1) + 1, h)
    BY <2>3, DoubledGrows
  <2> QED
    BY <2>1, <2>3, <2>4
<1> QED
  BY <1>1

LEMMA DoubledOnce ==
    ASSUME NEW n \in Nat, NEW h, Doubled(n, h), NEW m \in Nat, NEW g, Doubled(m, g), n <= m
    PROVE  \A i \in 0..n : h[i] = g[i]
<1> DEFINE U == {i \in 0..n : h[i] # g[i]}
<1>1. CASE U # {}
  <2>1. PICK i \in U : \A k \in U : i <= k
    <3>1. U \in SUBSET Nat
      OBVIOUS
    <3> HIDE DEF U
    <3> QED
      BY <1>1, <3>1, LeastNatural
  <2>2. i # 0
    BY <2>1 DEF Doubled
  <2>3. i \in 1..n /\ i \in 1..m /\ i - 1 \in 0..n /\ i - 1 \notin U
    BY <2>1, <2>2
  <2>4. h[i] = 2 * h[i-1] /\ g[i] = 2 * g[i-1]
    BY <2>3 DEF Doubled
  <2> QED
    BY <2>1, <2>3, <2>4
<1> QED
  BY <1>1

LEMMA DelaysExist == \E g : Doubles(g)
<1> DEFINE h(n) == CHOOSE x : Doubled(n, x)
           g == [n \in Nat |-> h(n)[n]]
<1>1. ASSUME NEW n \in Nat PROVE Doubled(n, h(n))
  <2>1. \E x : Doubled(n, x)
    BY DoubledExists
  <2> QED
    BY <2>1
<1> HIDE DEF h
<1>2. ASSUME NEW n \in Nat PROVE g[n] = IF n = 0 THEN BaseBackoff ELSE 2 * g[n-1]
  <2>1. Doubled(n, h(n))
    BY <1>1
  <2>2. CASE n = 0
    BY <2>1, <2>2 DEF Doubled
  <2>3. CASE n # 0
    <3>1. n - 1 \in Nat /\ n - 1 <= n /\ n \in 1..n /\ n - 1 \in 0..(n - 1)
      BY <2>3
    <3>2. Doubled(n - 1, h(n - 1))
      BY <1>1, <3>1
    <3>3. h(n)[n-1] = h(n - 1)[n-1]
      BY <2>1, <3>1, <3>2, DoubledOnce
    <3>4. h(n)[n] = 2 * h(n)[n-1]
      BY <2>1, <3>1 DEF Doubled
    <3> QED
      BY <2>3, <3>1, <3>3, <3>4
  <2> QED
    BY <2>2, <2>3
<1>3. g = [n \in Nat |-> g[n]]
  OBVIOUS
<1> HIDE DEF g
<1>4. Doubles(g)
  BY <1>2, <1>3 DEF Doubles
<1> QED
  BY <1>4

LEMMA DelaysAre ==
    ASSUME NEW g, Doubles(g), NEW n \in Nat
    PROVE  g[n] \in Nat \ {0} /\ g[n + 1] = 2 * g[n]
<1>1. \A i \in Nat : g[i] = IF i = 0 THEN BaseBackoff ELSE 2 * g[i-1]
  <2>1. g = [i \in Nat |-> IF i = 0 THEN BaseBackoff ELSE 2 * g[i-1]]
    BY DEF Doubles
  <2> QED
    BY <2>1
<1> DEFINE U == {i \in Nat : ~(g[i] \in Nat \ {0})}
<1>2. U = {}
  <2> SUFFICES ASSUME U # {} PROVE FALSE
    OBVIOUS
  <2>1. PICK i \in U : \A k \in U : i <= k
    <3>1. U \in SUBSET Nat
      OBVIOUS
    <3> HIDE DEF U
    <3> QED
      BY <3>1, LeastNatural
  <2>2. i # 0
    BY <1>1, <2>1, ThrottleAssumption
  <2>3. i - 1 \in Nat /\ i - 1 \notin U
    BY <2>1, <2>2
  <2>4. g[i-1] \in Nat \ {0} /\ g[i] = 2 * g[i-1]
    BY <1>1, <2>1, <2>2, <2>3
  <2>5. 2 * g[i-1] \in Nat \ {0}
    BY <2>4
  <2> QED
    BY <2>1, <2>4, <2>5
<1>3. g[n] \in Nat \ {0}
  BY <1>2
<1>4. n + 1 \in Nat /\ n + 1 # 0 /\ (n + 1) - 1 = n
  OBVIOUS
<1>5. g[n + 1] = 2 * g[n]
  BY <1>1, <1>4
<1> QED
  BY <1>3, <1>5

(* A longer streak is held back no shorter, and none longer than the cap.   *)
LEMMA BackoffGrows ==
    ASSUME NEW f \in Nat
    PROVE  /\ Backoff(f) \in Nat /\ Backoff(f) <= MaxBackoff
           /\ Backoff(f) <= Backoff(f + 1)
<1> DEFINE delay == CHOOSE g : Doubles(g)
           Wait(k) == IF k <= FreeAttempts THEN 0
                      ELSE IF delay[k - FreeAttempts - 1] > MaxBackoff THEN MaxBackoff
                      ELSE delay[k - FreeAttempts - 1]
<1>1. ASSUME NEW k PROVE Backoff(k) = Wait(k)
  BY DEF Backoff, Doubles
<1>2. Doubles(delay)
  BY DelaysExist
<1>3. FreeAttempts \in Nat /\ MaxBackoff \in Nat
  BY ThrottleAssumption
<1> HIDE DEF delay
<1>4. \A n \in Nat : delay[n] \in Nat \ {0} /\ delay[n + 1] = 2 * delay[n]
  BY <1>2, DelaysAre
<1>5. CASE f <= FreeAttempts
  <2>1. Wait(f) = 0 
    BY <1>5
  <2>2. Wait(f + 1) \in Nat
    <3>1. CASE f + 1 <= FreeAttempts
      BY <3>1
    <3>2. CASE ~(f + 1 <= FreeAttempts)
      <4> DEFINE k == f + 1
                 d == delay[k - FreeAttempts - 1]
      <4>1. k - FreeAttempts - 1 \in Nat /\ ~(k <= FreeAttempts)
        BY <1>3, <3>2
      <4> HIDE DEF k
      <4>2. d \in Nat
        BY <1>4, <4>1
      <4>3. Wait(k) = IF d > MaxBackoff THEN MaxBackoff ELSE d
        BY <4>1
      <4> HIDE DEF d, Wait
      <4>4. Wait(k) \in Nat
        BY <1>3, <4>2, <4>3
      <4> QED
        BY <4>4 DEF k
    <3> QED
      BY <3>1, <3>2
  <2> HIDE DEF Wait
  <2> QED
    BY <1>1, <1>3, <2>1, <2>2
<1>6. CASE ~(f <= FreeAttempts)
  <2> DEFINE n == f - FreeAttempts - 1
             d == delay[n]
             e == delay[n + 1]
             k == f + 1
  <2>1. n \in Nat /\ k - FreeAttempts - 1 = n + 1 /\ ~(k <= FreeAttempts)
    BY <1>3, <1>6
  <2>2. d \in Nat /\ e \in Nat /\ d <= e
    <3>1. delay[n] \in Nat /\ delay[n + 1] = 2 * delay[n]
      BY <1>4, <2>1
    <3> QED
      BY <3>1
  <2>3. Wait(f) = (IF d > MaxBackoff THEN MaxBackoff ELSE d)
    BY <1>6
  <2> HIDE DEF k, n
  <2>4. Wait(k) = (IF e > MaxBackoff THEN MaxBackoff ELSE e)
    BY <2>1
  <2> HIDE DEF Wait, d, e
  <2>5. Wait(f) \in Nat /\ Wait(f) <= MaxBackoff /\ Wait(f) <= Wait(k)
    BY <1>3, <2>2, <2>3, <2>4
  <2> QED
    BY <1>1, <2>5 DEF k
<1> QED
  BY <1>5, <1>6

-----------------------------------------------------------------------------
(* What is counted under each name of a finite set.                         *)
Marks(count, I) == Units([i \in I |-> i], count, I)
Amount(count, I) == Cardinality(Marks(count, I))
Counter(count, I) == IsFiniteSet(I) /\ \A i \in I : count[i] \in Nat

LEMMA MarksAre ==
    ASSUME NEW count, NEW I, NEW u
    PROVE  u \in Marks(count, I) <=> \E i \in I : \E k \in 1..count[i] : u = <<i, k>>
  BY DEF Marks, Units

LEMMA AmountIs ==
    ASSUME NEW count, NEW I, Counter(count, I)
    PROVE  /\ IsFiniteSet(Marks(count, I)) /\ Amount(count, I) \in Nat
           /\ MapThenSumSet(LAMBDA i : count[i], I) = Amount(count, I)
<1> DEFINE name == [i \in I |-> i]
           StepOf(g, s) == IF s = {} THEN 0
                           ELSE count[CHOOSE y \in s : TRUE] + g[s \ {CHOOSE y \in s : TRUE}]
           SumsOf(g) == g = [s \in SUBSET I |-> StepOf(g, s)]
<1>1. MapThenSumSet(LAMBDA i : count[i], I) = (CHOOSE g : SumsOf(g))[I]
  BY DEF MapThenSumSet, MapThenFoldSet
<1>2. (CHOOSE g : SumsOf(g)) = (CHOOSE g : Sums(count, I, g))
  BY DEF Sums, Step
<1>3. IsFiniteSet(I) /\ Disjoint(name, I) /\ \A i \in I : count[i] \in Nat
  BY DEF Disjoint, Counter
<1>4. Units(name, count, I) = Marks(count, I)
  BY DEF Marks
<1> HIDE DEF SumsOf, name
<1>5. /\ IsFiniteSet(Units(name, count, I))
      /\ (CHOOSE g : Sums(count, I, g))[I] = Cardinality(Units(name, count, I))
  BY <1>3, SumIs, UnitsAreFinite
<1> QED
  BY <1>1, <1>2, <1>4, <1>5, FS_CardinalityType DEF Amount

LEMMA AmountAdds ==
    ASSUME NEW count, NEW I, Counter(count, I), NEW x \in I, NEW more, more[x] = count[x] + 1,
           \A i \in I : i # x => more[i] = count[i]
    PROVE  Counter(more, I) /\ Amount(more, I) = Amount(count, I) + 1
<1> DEFINE n == count[x] + 1
           u0 == <<x, n>>
<1>1. count[x] \in Nat /\ n \in Nat /\ \A i \in I : count[i] \in Nat
  BY DEF Counter
<1>2. Counter(more, I)
  BY <1>1 DEF Counter
<1>3. u0 \notin Marks(count, I)
  <2> SUFFICES ASSUME u0 \in Marks(count, I) PROVE FALSE
    OBVIOUS
  <2>1. PICK i \in I : \E k \in 1..count[i] : u0 = <<i, k>>
    BY MarksAre
  <2>2. i = x /\ n \in 1..count[x]
    BY <2>1
  <2> QED
    BY <1>1, <2>2
<1>4. \A u : u \in Marks(more, I) <=> u \in Marks(count, I) \/ u = u0
  <2> TAKE u
  <2>1. ASSUME NEW i \in I, NEW k \in 1..more[i], u = <<i, k>>
        PROVE  u \in Marks(count, I) \/ u = u0
    <3>1. CASE i # x
      <4>1. k \in 1..count[i]
        BY <3>1
      <4> QED
        BY <2>1, <4>1, MarksAre
    <3>2. CASE i = x
      <4>1. k \in 1..count[x] \/ k = n
        BY <1>1, <3>2
      <4> QED
        BY <2>1, <3>2, <4>1, MarksAre
    <3> QED
      BY <3>1, <3>2
  <2>2. ASSUME NEW i \in I, NEW k \in 1..count[i], u = <<i, k>>
        PROVE  u \in Marks(more, I)
    <3>1. k \in 1..more[i]
      <4>1. CASE i # x
        BY <4>1
      <4>2. CASE i = x
        BY <1>1, <4>2
      <4> QED
        BY <4>1, <4>2
    <3> QED
      BY <2>2, <3>1, MarksAre
  <2>3. ASSUME u = u0 PROVE u \in Marks(more, I)
    <3>1. n \in 1..more[x]
      BY <1>1
    <3> QED
      BY <2>3, <3>1, MarksAre
  <2>4. u \in Marks(more, I) => \E i \in I : \E k \in 1..more[i] : u = <<i, k>>
    BY MarksAre
  <2>5. u \in Marks(count, I) => \E i \in I : \E k \in 1..count[i] : u = <<i, k>>
    BY MarksAre
  <2> QED
    BY <2>1, <2>2, <2>3, <2>4, <2>5
<1> HIDE DEF u0
<1>5. Marks(more, I) = Marks(count, I) \cup {u0}
  BY <1>4
<1>6. Cardinality(Marks(count, I) \cup {u0}) = Cardinality(Marks(count, I)) + 1
  BY <1>3, AmountIs, FS_AddElement
<1> QED
  BY <1>2, <1>5, <1>6 DEF Amount

LEMMA AmountDrops ==
    ASSUME NEW count, NEW I, NEW J, Counter(count, I), J \subseteq I,
           \A i \in I : i \notin J => count[i] = 0
    PROVE  Counter(count, J) /\ Amount(count, J) = Amount(count, I)
<1>1. Counter(count, J)
  BY FS_Subset DEF Counter
<1>2. ASSUME NEW u PROVE u \in Marks(count, I) <=> u \in Marks(count, J)
  <2>1. ASSUME NEW i \in I, NEW k \in 1..count[i] PROVE i \in J
    OBVIOUS
  <2>2. u \in Marks(count, I) => \E i \in I : \E k \in 1..count[i] : u = <<i, k>>
    BY MarksAre
  <2>3. u \in Marks(count, J) => \E i \in J : \E k \in 1..count[i] : u = <<i, k>>
    BY MarksAre
  <2>4. u \in Marks(count, I) => u \in Marks(count, J)
    BY <2>1, <2>2, MarksAre
  <2>5. u \in Marks(count, J) => u \in Marks(count, I)
    BY <2>3, MarksAre
  <2> QED
    BY <2>4, <2>5
<1>3. Marks(count, I) = Marks(count, J)
  BY <1>2
<1> QED
  BY <1>1, <1>3 DEF Amount

LEMMA AmountStays ==
    ASSUME NEW count, NEW I, NEW other, \A i \in I : other[i] = count[i]
    PROVE  Amount(other, I) = Amount(count, I)
<1>1. ASSUME NEW u PROVE u \in Marks(other, I) <=> u \in Marks(count, I)
  <2>1. u \in Marks(other, I) <=> \E i \in I : \E k \in 1..other[i] : u = <<i, k>>
    BY MarksAre
  <2>2. u \in Marks(count, I) <=> \E i \in I : \E k \in 1..count[i] : u = <<i, k>>
    BY MarksAre
  <2>3. (\E i \in I : \E k \in 1..other[i] : u = <<i, k>>) <=> (\E i \in I : \E k \in 1..count[i] : u = <<i, k>>)
    OBVIOUS
  <2> QED
    BY <2>1, <2>2, <2>3
<1>2. Marks(other, I) = Marks(count, I)
  BY <1>1
<1> QED
  BY <1>2 DEF Amount

LEMMA AmountPart ==
    ASSUME NEW count, NEW I, NEW J, Counter(count, I), J \subseteq I
    PROVE  Counter(count, J) /\ Amount(count, J) <= Amount(count, I)
<1>1. Counter(count, J)
  BY FS_Subset DEF Counter
<1>2. ASSUME NEW u \in Marks(count, J) PROVE u \in Marks(count, I)
  <2>1. PICK i \in J : \E k \in 1..count[i] : u = <<i, k>>
    BY MarksAre
  <2> QED
    BY <2>1, MarksAre
<1>3. Marks(count, J) \subseteq Marks(count, I)
  BY <1>2
<1> QED
  BY <1>1, <1>3, AmountIs, FS_Subset DEF Amount

LEMMA AmountNone ==
    ASSUME NEW count, NEW I, \A i \in I : count[i] = 0
    PROVE  Amount(count, I) = 0
<1>1. ASSUME NEW u PROVE u \notin Marks(count, I)
  <2> SUFFICES ASSUME u \in Marks(count, I) PROVE FALSE
    OBVIOUS
  <2>1. PICK i \in I : \E k \in 1..count[i] : u = <<i, k>>
    BY MarksAre
  <2> QED
    BY <2>1
<1>2. Marks(count, I) = {}
  BY <1>1
<1> QED
  BY <1>2, FS_EmptySet DEF Amount

-----------------------------------------------------------------------------
(* The throttle. What a gate lets through in a span that begins a number of *)
(* ticks before the last round did.                                         *)
RoundSize == GlobalThreshold + MaxVerifying - 1
LetThrough(x) == (x \div GlobalCooldown + 1) * RoundSize

LEMMA ThrottleNumbers ==
    /\ GlobalThreshold \in Nat \ {0} /\ MaxVerifying \in Nat \ {0} /\ GlobalCooldown \in Nat \ {0}
    /\ GlobalWindow \in Nat \ {0} /\ MaxClock \in Nat \ {0}
    /\ RoundSize \in Nat /\ GlobalThreshold <= RoundSize
<1>1. /\ GlobalThreshold \in Nat \ {0} /\ MaxVerifying \in Nat \ {0} /\ GlobalCooldown \in Nat \ {0}
      /\ GlobalWindow \in Nat \ {0} /\ MaxClock \in Nat \ {0}
  BY ThrottleAssumption
<1> QED
  BY <1>1 DEF RoundSize

LEMMA Quotients ==
    ASSUME NEW x \in Nat, NEW y \in Nat, NEW c \in Nat \ {0}
    PROVE  /\ x \div c \in Nat
           /\ x <= y => x \div c <= y \div c
           /\ x + c <= y => x \div c + 1 <= y \div c
<1> DEFINE p == x \div c
           q == y \div c
<1>1. p \in Int /\ c * p <= x /\ x < c * (p + 1) /\ q \in Int /\ c * q <= y /\ y < c * (q + 1)
  BY DivisionBounds
<1> HIDE DEF p, q
<1>2. p >= 0
  <2>1. CASE p + 1 <= 0
    <3>1. c * (p + 1) <= c * 0
      BY <1>1, <2>1, FactorsGrow
    <3>2. c * (p + 1) \in Int /\ c * 0 = 0
      BY <1>1
    <3> QED
      BY <1>1, <3>1, <3>2
  <2> QED
    BY <1>1, <2>1
<1>3. ASSUME x <= y PROVE p <= q
  <2>1. CASE q + 1 <= p
    <3>1. c * (q + 1) <= c * p
      BY <1>1, <2>1, FactorsGrow
    <3>2. c * (q + 1) \in Int /\ c * p \in Int
      BY <1>1
    <3> QED
      BY <1>1, <1>3, <3>1, <3>2
  <2> QED
    BY <1>1, <2>1
<1>4. ASSUME x + c <= y PROVE p + 1 <= q
  <2>1. CASE q <= p
    <3>1. c * (q + 1) <= c * (p + 1)
      BY <1>1, <2>1, FactorsGrow
    <3>2. c * (q + 1) \in Int /\ c * p \in Int /\ c * (p + 1) = c * p + c
      BY <1>1
    <3> QED
      BY <1>1, <1>4, <3>1, <3>2
  <2> QED
    BY <1>1, <2>1
<1> QED
  BY <1>1, <1>2, <1>3, <1>4 DEF p, q

LEMMA LetThroughGrows ==
    ASSUME NEW x \in Nat, NEW y \in Nat
    PROVE  /\ LetThrough(x) \in Nat /\ RoundSize <= LetThrough(x)
           /\ x <= y => LetThrough(x) <= LetThrough(y)
           /\ x + GlobalCooldown <= y => LetThrough(x) + RoundSize <= LetThrough(y)
<1> DEFINE p == x \div GlobalCooldown
           q == y \div GlobalCooldown
           r == RoundSize
<1>1. /\ p \in Nat /\ q \in Nat /\ r \in Nat
      /\ x <= y => p <= q
      /\ x + GlobalCooldown <= y => p + 1 <= q
  BY ThrottleNumbers, Quotients
<1>2. LetThrough(x) = (p + 1) * r /\ LetThrough(y) = (q + 1) * r
  BY DEF LetThrough
<1> HIDE DEF p, q, r
<1>3. (p + 1) * r = r * p + r /\ (q + 1) * r = r * q + r /\ r * p \in Nat /\ r * q \in Nat
  BY <1>1
<1>4. p <= q => r * p <= r * q
  BY <1>1, FactorsGrow
<1>5. p + 1 <= q => r * p + r <= r * q
  <2>1. p + 1 <= q => r * (p + 1) <= r * q
    BY <1>1, FactorsGrow
  <2>2. r * (p + 1) = r * p + r
    BY <1>1
  <2> QED
    BY <2>1, <2>2
<1> DEFINE lx == LetThrough(x)
           ly == LetThrough(y)
           a == r * p
           b == r * q
<1>6. /\ lx = a + r /\ ly = b + r /\ a \in Nat /\ b \in Nat /\ r \in Nat
      /\ x <= y => a <= b
      /\ x + GlobalCooldown <= y => a + r <= b
  BY <1>1, <1>2, <1>3, <1>4, <1>5
<1> HIDE DEF lx, ly, a, b
<1>7. /\ lx \in Nat /\ r <= lx
      /\ x <= y => lx <= ly
      /\ x + GlobalCooldown <= y => lx + r <= ly
  BY <1>6
<1> QED
  BY <1>7 DEF lx, ly, r

GateRecords == [windowStart : 1..MaxClock, failures : 0..(GlobalThreshold - 1), cooldownUntil : Nat]

(* What failed since s at a gate that has a number of callers to judge: it  *)
(* is what the gate counts, if it counts since before s. If not, it began   *)
(* anew, and was not closed since s; or it is closed, and has only those    *)
(* to judge; or it has been.                                                *)
Fits(f, judging, gate, s) ==
    IF gate.windowStart < s THEN f <= gate.failures
    ELSE LET before == GlobalThreshold - 1
             rounds == LetThrough(gate.windowStart - s)
         IN  \/ f <= before + gate.failures
             \/ /\ gate.cooldownUntil = gate.windowStart + GlobalCooldown
                /\ f + judging <= before + rounds
             \/ /\ gate.windowStart + GlobalCooldown <= clock
                /\ f <= before + rounds + gate.failures

LEMMA GateChargedIs ==
    ASSUME clock \in 1..MaxClock, NEW gate \in GateRecords
    PROVE  LET c == GateCharged(gate)
               ended == clock - gate.windowStart >= GlobalWindow
               n == IF ended THEN 1 ELSE gate.failures + 1
           IN  /\ c \in GateRecords
               /\ n >= GlobalThreshold =>
                    c.windowStart = clock /\ c.failures = 0 /\ c.cooldownUntil = clock + GlobalCooldown
               /\ n < GlobalThreshold =>
                    /\ c.windowStart = (IF ended THEN clock ELSE gate.windowStart)
                    /\ c.failures = n /\ c.cooldownUntil = gate.cooldownUntil
<1> DEFINE c == GateCharged(gate)
           ended == clock - gate.windowStart >= GlobalWindow
           n == IF ended THEN 1 ELSE gate.failures + 1
           counted == IF ended THEN [gate EXCEPT !.windowStart = clock, !.failures = 1]
                      ELSE [gate EXCEPT !.failures = gate.failures + 1]
           start == IF ended THEN clock ELSE gate.windowStart
<1>1. /\ GlobalThreshold \in Nat \ {0} /\ GlobalCooldown \in Nat \ {0} /\ GlobalWindow \in Nat \ {0}
      /\ clock \in Nat
  BY ThrottleNumbers
<1>2. gate.windowStart \in 1..MaxClock /\ gate.failures \in 0..(GlobalThreshold - 1) /\ gate.cooldownUntil \in Nat
  BY DEF GateRecords
<1>3. n \in Nat /\ start \in 1..MaxClock
  BY <1>1, <1>2
<1>4. counted = [windowStart |-> start, failures |-> n, cooldownUntil |-> gate.cooldownUntil]
  <2>1. CASE ended
    BY <2>1 DEF GateRecords
  <2>2. CASE ~ended
    BY <2>2 DEF GateRecords
  <2> QED
    BY <2>1, <2>2
<1>5. c = IF counted.failures >= GlobalThreshold
          THEN [windowStart |-> clock, failures |-> 0, cooldownUntil |-> clock + GlobalCooldown]
          ELSE counted
  BY DEF GateCharged
<1> HIDE DEF ended, n, counted, start, c
<1>6. CASE n >= GlobalThreshold
  <2>1. c = [windowStart |-> clock, failures |-> 0, cooldownUntil |-> clock + GlobalCooldown]
    BY <1>4, <1>5, <1>6
  <2>2. 0 \in 0..(GlobalThreshold - 1) /\ clock + GlobalCooldown \in Nat /\ ~(n < GlobalThreshold)
    BY <1>1, <1>3, <1>6
  <2> QED
    BY <2>1, <2>2 DEF GateRecords, c, n, ended
<1>7. CASE ~(n >= GlobalThreshold)
  <2>1. c = [windowStart |-> start, failures |-> n, cooldownUntil |-> gate.cooldownUntil]
    BY <1>4, <1>5, <1>7
  <2>2. n \in 0..(GlobalThreshold - 1)
    BY <1>1, <1>3, <1>7
  <2>3. c \in GateRecords /\ c.windowStart = start /\ c.failures = n /\ c.cooldownUntil = gate.cooldownUntil
    BY <1>2, <1>3, <2>1, <2>2 DEF GateRecords
  <2> QED
    BY <1>7, <2>3 DEF c, n, ended, start
<1> QED
  BY <1>6, <1>7

(* A failure counts at its gate as one more, and as one less to judge.      *)
LEMMA ChargeFits ==
    ASSUME clock \in 1..MaxClock, NEW gate \in GateRecords, gate.windowStart <= clock,
           NEW f \in Nat, NEW judging \in 1..MaxVerifying, NEW s \in 1..clock, clock - s < GlobalWindow,
           Fits(f, judging, gate, s)
    PROVE  Fits(f + 1, judging - 1, GateCharged(gate), s)
<1> DEFINE c == GateCharged(gate)
           ws == gate.windowStart
           m == gate.failures
           ended == clock - ws >= GlobalWindow
           n == IF ended THEN 1 ELSE m + 1
           T == GlobalThreshold
           R == RoundSize
           new == c.windowStart
           k == c.failures
<1>1. T \in Nat \ {0} /\ GlobalCooldown \in Nat \ {0} /\ GlobalWindow \in Nat \ {0} /\ MaxVerifying \in Nat \ {0}
  BY ThrottleNumbers
<1>2. ws \in Nat /\ m \in Nat /\ m <= T - 1 /\ ws <= clock /\ clock \in Nat /\ s \in Nat /\ s <= clock
  BY <1>1 DEF GateRecords
<1>3. /\ n >= T => new = clock /\ k = 0 /\ c.cooldownUntil = clock + GlobalCooldown
      /\ n < T => new = (IF ended THEN clock ELSE ws) /\ k = n /\ c.cooldownUntil = gate.cooldownUntil
  BY GateChargedIs
<1>4. R = T + MaxVerifying - 1 /\ R \in Nat
  BY <1>1 DEF RoundSize
<1>5. judging - 1 <= MaxVerifying - 1 /\ judging \in Nat
  BY <1>1
<1>6. clock - s \in Nat /\ LetThrough(clock - s) \in Nat /\ R <= LetThrough(clock - s)
  BY <1>2, LetThroughGrows
<1>7. ws < s => f <= m
  BY DEF Fits
<1>8. ended => ws < s
  BY <1>1, <1>2
<1>9. ~(ws < s) => \/ f <= T - 1 + m
                   \/ /\ gate.cooldownUntil = ws + GlobalCooldown
                      /\ f + judging <= T - 1 + LetThrough(ws - s)
                   \/ /\ ws + GlobalCooldown <= clock
                      /\ f <= T - 1 + LetThrough(ws - s) + m
  BY DEF Fits
<1>10. ~(ws < s) => /\ ws - s \in Nat /\ LetThrough(ws - s) \in Nat
                    /\ LetThrough(ws - s) <= LetThrough(clock - s)
                    /\ ws + GlobalCooldown <= clock => LetThrough(ws - s) + R <= LetThrough(clock - s)
  <2> SUFFICES ASSUME ~(ws < s)
               PROVE  /\ ws - s \in Nat /\ LetThrough(ws - s) \in Nat
                      /\ LetThrough(ws - s) <= LetThrough(clock - s)
                      /\ ws + GlobalCooldown <= clock => LetThrough(ws - s) + R <= LetThrough(clock - s)
    OBVIOUS
  <2>1. ws - s \in Nat /\ ws - s <= clock - s
    BY <1>2
  <2>2. ws + GlobalCooldown <= clock => (ws - s) + GlobalCooldown <= clock - s
    BY <1>1, <1>2
  <2> QED
    BY <1>6, <2>1, <2>2, LetThroughGrows
<1> DEFINE lw == LetThrough(ws - s)
           lc == LetThrough(clock - s)
<1> HIDE DEF c, ws, m, T, R, new, k, lw, lc
<1>11. CASE n >= T
  <2>1. new = clock /\ k = 0 /\ c.cooldownUntil = clock + GlobalCooldown /\ ~(new < s)
    BY <1>2, <1>3, <1>11
  <2>2. (f + 1) + (judging - 1) <= T - 1 + lc
    <3>1. CASE ws < s
      <4>1. f + 1 <= T
        BY <1>1, <1>2, <1>7, <3>1
      <4> QED
        BY <1>1, <1>4, <1>5, <1>6, <4>1 DEF lc
    <3>2. CASE ~(ws < s) 
      <4>1. ~ended /\ m + 1 >= T /\ m + 1 <= T
        BY <1>1, <1>2, <1>8, <1>11, <3>2
      <4>2. lw \in Nat /\ lc \in Nat /\ R <= lc /\ lw <= lc /\ (ws + GlobalCooldown <= clock => lw + R <= lc)
        BY <1>6, <1>10, <3>2 DEF lw, lc
      <4>3. CASE f <= T - 1 + m
        BY <1>1, <1>2, <1>4, <1>5, <4>1, <4>2, <4>3
      <4>4. CASE f + judging <= T - 1 + lw
        BY <1>1, <1>2, <1>5, <4>2, <4>4
      <4>5. CASE ws + GlobalCooldown <= clock /\ f <= T - 1 + lw + m
        BY <1>1, <1>2, <1>4, <1>5, <4>1, <4>2, <4>5
      <4> QED
        BY <1>9, <3>2, <4>3, <4>4, <4>5 DEF lw
    <3> QED
      BY <3>1, <3>2
  <2> QED
    BY <2>1, <2>2 DEF Fits, c, T, lc, new, k
<1>12. CASE ~(n >= T)
  <2>1. n < T /\ n \in Nat
    BY <1>1, <1>2, <1>12
  <2>2. new = (IF ended THEN clock ELSE ws) /\ k = n /\ c.cooldownUntil = gate.cooldownUntil
    BY <1>3, <2>1
  <2>3. CASE ended
    <3>1. new = clock /\ k = 1 /\ ~(new < s)
      BY <1>2, <2>2, <2>3
    <3>2. f + 1 <= T - 1 + k
      BY <1>1, <1>2, <1>7, <1>8, <2>3, <3>1
    <3> QED
      BY <3>1, <3>2 DEF Fits, c, T, new, k
  <2>4. CASE ~ended
    <3>1. new = ws /\ k = m + 1
      BY <2>2, <2>4
    <3>2. CASE ws < s
      <4>1. f + 1 <= k
        BY <1>2, <1>7, <3>1, <3>2
      <4> QED
        BY <3>1, <3>2, <4>1 DEF Fits, c, new, k
    <3>3. CASE ~(ws < s)
      <4>0. lw \in Nat
        BY <1>10, <3>3 DEF lw
      <4>1. CASE f <= T - 1 + m
        <5>1. f + 1 <= T - 1 + k
          BY <1>1, <1>2, <3>1, <4>1
        <5> QED
          BY <3>1, <3>3, <5>1 DEF Fits, c, T, new, k
      <4>2. CASE gate.cooldownUntil = ws + GlobalCooldown /\ f + judging <= T - 1 + lw
        <5>1. (f + 1) + (judging - 1) <= T - 1 + lw
          BY <1>1, <1>5, <4>0, <4>2
        <5> QED
          BY <2>2, <3>1, <3>3, <4>2, <5>1 DEF Fits, c, T, lw, new, k
      <4>3. CASE ws + GlobalCooldown <= clock /\ f <= T - 1 + lw + m
        <5>1. f + 1 <= T - 1 + lw + k
          BY <1>1, <1>2, <3>1, <4>0, <4>3
        <5> QED
          BY <3>1, <3>3, <4>3, <5>1 DEF Fits, c, T, lw, new, k
      <4> QED
        BY <1>9, <3>3, <4>1, <4>2, <4>3 DEF lw
    <3> QED
      BY <3>2, <3>3
  <2> QED
    BY <2>3, <2>4
<1> QED
  BY <1>11, <1>12

-----------------------------------------------------------------------------
(* What the throttle remembers.                                             *)
Failures(g, s) == Amount(failed[g], s..clock)
AtGate(g) == {c \in Clients : GateFor(c) = g}
Judging(g) == Amount(verifying, AtGate(g))

GuessersInv ==
    /\ clock \in 1..MaxClock
    /\ verifying \in [Clients -> Nat] /\ Amount(verifying, Clients) <= MaxVerifying
    /\ failed \in [Gates -> [1..MaxClock -> Nat]]
    /\ \A g \in Gates : \A t \in 1..MaxClock : t > clock \/ clock - t >= GlobalWindow => failed[g][t] = 0

GatesInv ==
    /\ gates \in [Gates -> GateRecords]
    /\ \A g \in Gates :
         /\ gates[g].windowStart <= clock
         /\ \A s \in 1..clock : clock - s < GlobalWindow => Fits(Failures(g, s), Judging(g), gates[g], s)

\* A caller is held back from its last failure on, as its streak says.
ClientRecords == [failures : Nat \ {0}, lastFailure : 1..MaxClock, blockedUntil : Nat]
HeldBack(state) ==
    /\ state \in ClientRecords /\ state.lastFailure <= clock
    /\ state.blockedUntil = IF Backoff(state.failures) = 0 THEN 0
                            ELSE state.lastFailure + Backoff(state.failures)

PenaltiesInv ==
    /\ DOMAIN clients \subseteq {c \in Clients : Tracked(c)}
    /\ clients = [c \in DOMAIN clients |-> clients[c]]
    /\ \A c \in DOMAIN clients : HeldBack(clients[c])

ThrottleInv == GuessersInv /\ GatesInv /\ PenaltiesInv

LEMMA CallerNumbers ==
    ASSUME GuessersInv
    PROVE  /\ clock \in 1..MaxClock /\ clock \in Nat /\ clock >= 1
           /\ IsFiniteSet(Clients) /\ Counter(verifying, Clients)
           /\ \A g \in Gates : AtGate(g) \subseteq Clients /\ Counter(verifying, AtGate(g))
           /\ \A g \in Gates : Judging(g) \in Nat /\ Judging(g) <= MaxVerifying
           /\ \A g \in Gates : \A t \in 1..MaxClock : failed[g][t] \in Nat
           /\ \A g \in Gates : \A s \in 1..clock :
                Counter(failed[g], s..clock) /\ Failures(g, s) \in Nat
<1>1. clock \in 1..MaxClock /\ clock \in Nat /\ clock >= 1
  BY ThrottleNumbers DEF GuessersInv
<1>2. IsFiniteSet(Clients) /\ Counter(verifying, Clients)
  BY ThrottleAssumption DEF GuessersInv, Counter
<1>3. ASSUME NEW g \in Gates PROVE AtGate(g) \subseteq Clients /\ Counter(verifying, AtGate(g))
                                    /\ Judging(g) \in Nat /\ Judging(g) <= MaxVerifying
  <2>1. AtGate(g) \subseteq Clients
    BY DEF AtGate
  <2>2. Counter(verifying, AtGate(g)) /\ Amount(verifying, AtGate(g)) <= Amount(verifying, Clients)
    BY <1>2, <2>1, AmountPart
  <2>3. Judging(g) \in Nat /\ Amount(verifying, Clients) \in Nat /\ Amount(verifying, Clients) <= MaxVerifying
    BY <1>2, <2>2, AmountIs DEF Judging, GuessersInv
  <2>4. MaxVerifying \in Nat
    BY ThrottleNumbers
  <2>5. Judging(g) <= Amount(verifying, Clients)
    BY <2>2 DEF Judging
  <2>6. Judging(g) <= MaxVerifying
    BY <2>3, <2>4, <2>5
  <2> QED
    BY <2>1, <2>2, <2>3, <2>6
<1>4. ASSUME NEW g \in Gates PROVE \A t \in 1..MaxClock : failed[g][t] \in Nat
  <2>1. failed[g] \in [1..MaxClock -> Nat]
    BY DEF GuessersInv
  <2> QED
    BY <2>1
<1>5. ASSUME NEW g \in Gates, NEW s \in 1..clock
      PROVE  Counter(failed[g], s..clock) /\ Failures(g, s) \in Nat
  <2>1. s \in Int /\ clock \in Int /\ s..clock \subseteq 1..MaxClock
    BY <1>1, ThrottleNumbers
  <2>2. IsFiniteSet(s..clock)
    BY <2>1, FS_Interval
  <2>3. Counter(failed[g], s..clock)
    BY <1>4, <2>1, <2>2 DEF Counter
  <2> QED
    BY <2>3, AmountIs DEF Failures
<1> QED
  BY <1>1, <1>2, <1>3, <1>4, <1>5

LEMMA ThrottleStart == ThrottleInit => ThrottleInv
<1> SUFFICES ASSUME ThrottleInit PROVE ThrottleInv
  OBVIOUS
<1>1. /\ clock = 1 /\ clients = <<>>
      /\ gates = [g \in Gates |-> [windowStart |-> 1, failures |-> 0, cooldownUntil |-> 0]]
      /\ verifying = [c \in Clients |-> 0]
      /\ failed = [g \in Gates |-> [t \in 1..MaxClock |-> 0]]
  BY DEF ThrottleInit
<1>2. /\ GlobalThreshold \in Nat \ {0} /\ MaxVerifying \in Nat /\ MaxClock \in Nat \ {0} /\ GlobalWindow \in Nat \ {0}
  BY ThrottleNumbers
<1>3. GuessersInv
  <2>1. clock \in 1..MaxClock
    BY <1>1, <1>2
  <2>2. verifying \in [Clients -> Nat] /\ \A c \in Clients : verifying[c] = 0
    BY <1>1
  <2>3. Amount(verifying, Clients) <= MaxVerifying
    BY <1>2, <2>2, AmountNone
  <2>4. [t \in 1..MaxClock |-> 0] \in [1..MaxClock -> Nat]
    OBVIOUS
  <2>5. failed \in [Gates -> [1..MaxClock -> Nat]] /\ \A g \in Gates : \A t \in 1..MaxClock : failed[g][t] = 0
    BY <1>1, <2>4
  <2> QED
    BY <2>1, <2>2, <2>3, <2>5 DEF GuessersInv
<1>4. GatesInv
  <2> DEFINE gate == [windowStart |-> 1, failures |-> 0, cooldownUntil |-> 0]
  <2>1. gate \in GateRecords /\ gate.windowStart = 1 /\ gate.failures = 0
    <3>1. 1 \in 1..MaxClock /\ 0 \in 0..(GlobalThreshold - 1) /\ 0 \in Nat
      BY <1>2
    <3> QED
      BY <3>1 DEF GateRecords
  <2> HIDE DEF gate
  <2>2. gates \in [Gates -> GateRecords] /\ \A g \in Gates : gates[g] = gate
    BY <1>1, <2>1 DEF gate
  <2>3. ASSUME NEW g \in Gates, NEW s \in 1..clock
        PROVE  Fits(Failures(g, s), Judging(g), gates[g], s)
    <3>1. \A t \in s..clock : failed[g][t] = 0
      BY <1>1, <1>2
    <3>2. Failures(g, s) = 0
      BY <3>1, AmountNone DEF Failures
    <3>3. s = 1 /\ ~(gates[g].windowStart < s)
      BY <1>1, <2>1, <2>2
    <3>4. 0 <= GlobalThreshold - 1 + 0
      BY <1>2
    <3> QED
      BY <2>1, <2>2, <3>2, <3>3, <3>4 DEF Fits
  <2>4. \A g \in Gates : gates[g].windowStart <= clock
    BY <1>1, <2>1, <2>2
  <2> QED
    BY <2>2, <2>3, <2>4 DEF GatesInv
<1>5. PenaltiesInv
  <2>1. DOMAIN clients = {} /\ clients = [c \in {} |-> clients[c]]
    BY <1>1
  <2> QED
    BY <2>1 DEF PenaltiesInv
<1> QED
  BY <1>3, <1>4, <1>5 DEF ThrottleInv

(* A caller more or less to judge counts at its own gate.                   *)
LEMMA JudgingMoves ==
    ASSUME GuessersInv, NEW c \in Clients, NEW n \in Nat, verifying' = [verifying EXCEPT ![c] = n]
    PROVE  /\ verifying' \in [Clients -> Nat]
           /\ n = verifying[c] + 1 =>
                /\ Amount(verifying, Clients)' = Amount(verifying, Clients) + 1
                /\ Judging(GateFor(c))' = Judging(GateFor(c)) + 1
           /\ verifying[c] = n + 1 =>
                /\ Amount(verifying, Clients) = Amount(verifying, Clients)' + 1
                /\ Judging(GateFor(c)) = Judging(GateFor(c))' + 1
           /\ \A g \in Gates : g # GateFor(c) => Judging(g)' = Judging(g)
<1>1. verifying \in [Clients -> Nat] /\ IsFiniteSet(Clients)
  BY CallerNumbers DEF GuessersInv
<1>2. verifying' \in [Clients -> Nat] /\ verifying'[c] = n /\ \A d \in Clients : d # c => verifying'[d] = verifying[d]
  BY <1>1
<1> DEFINE v == verifying'
<1>3. GateFor(c) \in Gates /\ c \in AtGate(GateFor(c))
  BY DEF GateFor, Gates, AtGate
<1>4. ASSUME NEW g \in Gates PROVE /\ AtGate(g) \subseteq Clients
                                   /\ Counter(verifying, AtGate(g)) /\ Judging(g)' = Amount(v, AtGate(g))
                                   /\ Judging(g) = Amount(verifying, AtGate(g))
  BY CallerNumbers DEF Judging, AtGate, GateFor, Amount, Marks, Units
<1>5. Amount(verifying, Clients)' = Amount(v, Clients) /\ Counter(verifying, Clients)
  BY CallerNumbers DEF Amount, Marks, Units
<1> HIDE DEF v
<1>6. v[c] = n /\ (\A d \in Clients : d # c => v[d] = verifying[d]) /\ \A d \in Clients : v[d] \in Nat
  BY <1>2 DEF v
<1>7. Counter(v, Clients) /\ \A g \in Gates : Counter(v, AtGate(g))
  BY <1>4, <1>5, <1>6 DEF Counter
<1>8. ASSUME n = verifying[c] + 1
      PROVE  /\ Amount(v, Clients) = Amount(verifying, Clients) + 1
             /\ Amount(v, AtGate(GateFor(c))) = Amount(verifying, AtGate(GateFor(c))) + 1
  <2>1. Amount(v, Clients) = Amount(verifying, Clients) + 1
    BY <1>5, <1>6, <1>8, AmountAdds
  <2>2. \A d \in AtGate(GateFor(c)) : d # c => v[d] = verifying[d]
    BY <1>3, <1>4, <1>6
  <2>3. Amount(v, AtGate(GateFor(c))) = Amount(verifying, AtGate(GateFor(c))) + 1
    BY <1>3, <1>4, <1>6, <1>8, <2>2, AmountAdds
  <2> QED
    BY <2>1, <2>3
<1>9. ASSUME verifying[c] = n + 1
      PROVE  /\ Amount(verifying, Clients) = Amount(v, Clients) + 1
             /\ Amount(verifying, AtGate(GateFor(c))) = Amount(v, AtGate(GateFor(c))) + 1
  <2>1. Amount(verifying, Clients) = Amount(v, Clients) + 1
    BY <1>6, <1>7, <1>9, AmountAdds
  <2>2. \A d \in AtGate(GateFor(c)) : d # c => verifying[d] = v[d]
    BY <1>3, <1>4, <1>6
  <2>3. Amount(verifying, AtGate(GateFor(c))) = Amount(v, AtGate(GateFor(c))) + 1
    BY <1>3, <1>6, <1>7, <1>9, <2>2, AmountAdds
  <2> QED
    BY <2>1, <2>3
<1>10. ASSUME NEW g \in Gates, g # GateFor(c) PROVE Amount(v, AtGate(g)) = Amount(verifying, AtGate(g))
  <2>1. \A d \in AtGate(g) : v[d] = verifying[d]
    BY <1>6, <1>10 DEF AtGate
  <2> QED
    BY <2>1, AmountStays
<1> QED
  BY <1>2, <1>3, <1>4, <1>5, <1>8, <1>9, <1>10

(* With fewer to judge, everything still fits.                              *)
LEMMA FewerFit ==
    ASSUME NEW f \in Nat, NEW v \in Nat, NEW w \in Nat, w <= v, NEW gate, NEW s, Fits(f, v, gate, s)
    PROVE  gate \in GateRecords /\ clock \in Nat /\ s \in Nat => Fits(f, w, gate, s)
<1> SUFFICES ASSUME gate \in GateRecords, clock \in Nat, s \in Nat PROVE Fits(f, w, gate, s)
  OBVIOUS
<1> DEFINE ws == gate.windowStart
           b == GlobalThreshold - 1 + LetThrough(ws - s)
<1>1. CASE ws < s
  BY <1>1 DEF Fits
<1>2. CASE ~(ws < s)
  <2>1. ws \in Nat /\ ws - s \in Nat
    BY <1>2, ThrottleNumbers DEF GateRecords
  <2>2. LetThrough(ws - s) \in Nat /\ GlobalThreshold \in Nat
    BY <2>1, LetThroughGrows, ThrottleNumbers
  <2>3. b \in Int
    BY <2>2
  <2>4. f + v <= b => f + w <= b
    <3> HIDE DEF b
    <3> QED
      BY <2>3
  <2> QED
    BY <1>2, <2>4 DEF Fits
<1> QED
  BY <1>1, <1>2

LEMMA AdmitFits ==
    ASSUME clock \in Nat, NEW gate \in GateRecords, NEW f \in Nat, NEW v \in Nat, NEW w \in Nat, NEW s \in Nat,
           ~(clock < gate.cooldownUntil), Fits(f, v, gate, s)
    PROVE  LET open == [gate EXCEPT !.cooldownUntil = 0]
           IN  open \in GateRecords /\ open.windowStart = gate.windowStart /\ Fits(f, w, open, s)
<1> DEFINE open == [gate EXCEPT !.cooldownUntil = 0]
           ws == gate.windowStart
           T == GlobalThreshold
           b == T - 1 + LetThrough(ws - s)
<1>1. open \in GateRecords /\ open.windowStart = ws /\ open.failures = gate.failures
  BY DEF GateRecords
<1>2. ws \in Nat /\ gate.failures \in Nat /\ T \in Nat /\ GlobalCooldown \in Nat
  BY ThrottleNumbers DEF GateRecords
<1> DEFINE m == gate.failures
           k == open.failures
           new == open.windowStart
<1>3. /\ ws < s => f <= m
      /\ ~(ws < s) => \/ f <= T - 1 + m
                      \/ gate.cooldownUntil = ws + GlobalCooldown /\ f + v <= b
                      \/ ws + GlobalCooldown <= clock /\ f <= b + m
  BY DEF Fits
<1>4. k = m /\ new = ws
  BY <1>1
<1> HIDE DEF open, T, ws, m, k, new
<1>5. ASSUME ws < s PROVE Fits(f, w, open, s)
  BY <1>3, <1>4, <1>5 DEF Fits, new, k
<1>6. ASSUME ~(ws < s) PROVE Fits(f, w, open, s)
  <2>1. ws - s \in Nat
    BY <1>2, <1>6
  <2>2. LetThrough(ws - s) \in Nat
    BY <2>1, LetThroughGrows
  <2>3. b \in Int
    BY <1>2, <2>2
  <2>4. ASSUME ws + GlobalCooldown <= clock, f <= b + m PROVE Fits(f, w, open, s)
    <3>1. new + GlobalCooldown <= clock /\ f <= T - 1 + LetThrough(new - s) + k /\ ~(new < s)
      BY <1>4, <1>6, <2>4
    <3> QED
      BY <3>1 DEF Fits, T, new, k
  <2>5. ASSUME f <= T - 1 + m PROVE Fits(f, w, open, s)
    <3>1. f <= T - 1 + k /\ ~(new < s)
      BY <1>4, <1>6, <2>5
    <3> QED
      BY <3>1 DEF Fits, T, new, k
  <2>6. ASSUME gate.cooldownUntil = ws + GlobalCooldown, f + v <= b PROVE Fits(f, w, open, s)
    <3>1. ws + GlobalCooldown <= clock
      BY <1>2, <2>6
    <3>2. f <= b + m
      <4> HIDE DEF b
      <4> QED
        BY <1>2, <2>3, <2>6 DEF m
    <3> QED
      BY <2>4, <3>1, <3>2
  <2> QED
    BY <1>3, <1>6, <2>5, <2>6, <2>4
<1> QED
  BY <1>1, <1>5, <1>6 DEF open, ws

\* Between two ticks.
LEMMA GatesNow ==
    ASSUME clock' = clock, gates' \in [Gates -> GateRecords],
           \A g \in Gates : gates'[g].windowStart <= clock,
           \A g \in Gates : \A s \in 1..clock : clock - s < GlobalWindow =>
             Fits(Failures(g, s)', Judging(g)', gates'[g], s)
    PROVE  GatesInv'
  BY DEF GatesInv, Fits

LEMMA FailuresStay ==
    ASSUME clock' = clock, failed' = failed
    PROVE  \A g \in Gates : \A s \in 1..clock : Failures(g, s)' = Failures(g, s)
  BY DEF Failures, Amount, Marks, Units

LEMMA CallersStay ==
    ASSUME GuessersInv, clock' = clock, failed' = failed, verifying' \in [Clients -> Nat],
           Amount(verifying, Clients)' <= MaxVerifying
    PROVE  GuessersInv'
  BY DEF GuessersInv

LEMMA PenaltiesStay ==
    ASSUME PenaltiesInv, clock' = clock, clients' = clients
    PROVE  PenaltiesInv'
  BY DEF PenaltiesInv, HeldBack

LEMMA AdmitKeeps == ASSUME ThrottleInv, NEW c \in Clients, Admit(c) PROVE ThrottleInv'
<1> DEFINE n == verifying[c] + 1
           g0 == GateFor(c)
           gate == gates[g0]
           open == [gate EXCEPT !.cooldownUntil = 0]
<1>1. /\ ~(clock < gate.cooldownUntil) /\ Verifying < MaxVerifying
      /\ gates' = [gates EXCEPT ![g0] = open] /\ verifying' = [verifying EXCEPT ![c] = n]
      /\ UNCHANGED <<clock, clients, failed>>
  BY DEF Admit, Cooling, ThrottleInv, GatesInv
<1>2. GuessersInv /\ GatesInv /\ PenaltiesInv /\ g0 \in Gates /\ MaxVerifying \in Nat
  BY ThrottleNumbers DEF ThrottleInv, GateFor, Gates
<1>3. verifying[c] \in Nat /\ n \in Nat
  <2>1. verifying \in [Clients -> Nat]
    BY <1>2 DEF GuessersInv
  <2>2. verifying[c] \in Nat
    BY <2>1
  <2> QED
    BY <2>2
<1>4. Verifying = Amount(verifying, Clients) /\ Amount(verifying, Clients) \in Nat
  BY <1>2, CallerNumbers, AmountIs DEF Verifying
<1> HIDE DEF n
<1>5. /\ verifying' \in [Clients -> Nat]
      /\ Amount(verifying, Clients)' = Amount(verifying, Clients) + 1
      /\ Judging(g0)' = Judging(g0) + 1
      /\ \A g \in Gates : g # g0 => Judging(g)' = Judging(g)
  BY <1>1, <1>2, <1>3, JudgingMoves DEF n
<1>6. GuessersInv'
  <2>1. Amount(verifying, Clients)' <= MaxVerifying
    BY <1>1, <1>2, <1>4, <1>5
  <2> QED
    BY <1>1, <1>2, <1>5, <2>1, CallersStay
<1>7. gates \in [Gates -> GateRecords] /\ gate \in GateRecords
  BY <1>2 DEF GatesInv
<1> HIDE DEF gate, g0
<1>8. open \in GateRecords /\ open.windowStart = gate.windowStart
  BY <1>7 DEF GateRecords
<1>9. GatesInv'
  <2>1. gates' \in [Gates -> GateRecords] /\ \A g \in Gates : gates'[g] = IF g = g0 THEN open ELSE gates[g]
    BY <1>1, <1>7, <1>8
  <2>2. \A g \in Gates : gates'[g].windowStart <= clock
    BY <1>2, <1>8, <2>1 DEF GatesInv, gate
  <2>3. ASSUME NEW g \in Gates, NEW s \in 1..clock, clock - s < GlobalWindow
        PROVE  Fits(Failures(g, s)', Judging(g)', gates'[g], s)
    <3>1. Fits(Failures(g, s), Judging(g), gates[g], s) /\ Failures(g, s)' = Failures(g, s)
      BY <1>1, <1>2, <2>3, FailuresStay DEF GatesInv
    <3>2. CASE g # g0
      BY <1>5, <2>1, <3>1, <3>2
    <3>3. CASE g = g0
      <4>1. Failures(g, s) \in Nat /\ Judging(g) \in Nat /\ Judging(g)' \in Nat /\ s \in Nat /\ clock \in Nat
        BY <1>2, <1>5, <3>3, CallerNumbers
      <4>2. gates[g] = gate
        BY <3>3 DEF gate
      <4>3. Fits(Failures(g, s), Judging(g)', open, s)
        BY <1>1, <1>7, <3>1, <4>1, <4>2, AdmitFits
      <4> QED
        BY <2>1, <3>1, <3>3, <4>3
    <3> QED
      BY <3>2, <3>3
  <2> QED
    BY <1>1, <2>1, <2>2, <2>3, GatesNow
<1>10. PenaltiesInv'
  BY <1>1, <1>2, PenaltiesStay
<1> QED
  BY <1>6, <1>9, <1>10 DEF ThrottleInv

\* A caller that is judged, or not: there is one less to judge.
LEMMA OneLess ==
    ASSUME GuessersInv, NEW c \in Clients, verifying[c] > 0, verifying' = [verifying EXCEPT ![c] = @ - 1],
           clock' = clock
    PROVE  /\ verifying' \in [Clients -> Nat] /\ Amount(verifying, Clients)' <= MaxVerifying
           /\ Judging(GateFor(c)) \in 1..MaxVerifying /\ Judging(GateFor(c))' = Judging(GateFor(c)) - 1
           /\ \A g \in Gates : g # GateFor(c) => Judging(g)' = Judging(g)
<1> DEFINE n == verifying[c] - 1
           g0 == GateFor(c)
           j == Judging(g0)
           a == Amount(verifying, Clients)
<1>1. verifying[c] \in Nat
  BY DEF GuessersInv
<1>2. n \in Nat /\ verifying[c] = n + 1 /\ verifying' = [verifying EXCEPT ![c] = n]
  BY <1>1
<1> HIDE DEF n
<1>3. /\ verifying' \in [Clients -> Nat]
      /\ a = a' + 1
      /\ j = j' + 1
      /\ \A g \in Gates : g # g0 => Judging(g)' = Judging(g)
  BY <1>2, JudgingMoves
<1>4. g0 \in Gates /\ MaxVerifying \in Nat
  BY ThrottleNumbers DEF GateFor, Gates
<1>5. j \in Nat /\ j <= MaxVerifying /\ a <= MaxVerifying /\ a \in Nat
  BY <1>4, CallerNumbers, AmountIs DEF GuessersInv
<1>6. Counter(verifying', Clients) /\ Counter(verifying', AtGate(g0))
  BY <1>3, <1>4, CallerNumbers DEF Counter
<1>7. a' = Amount(verifying', Clients) /\ j' = Amount(verifying', AtGate(g0))
  BY DEF Judging, AtGate, GateFor, Amount, Marks, Units
<1>8. a' \in Nat /\ j' \in Nat
  BY <1>6, <1>7, AmountIs
<1> DEFINE a1 == Amount(verifying', Clients)
           j1 == Amount(verifying', AtGate(g0))
<1>10. /\ a = a1 + 1 /\ j = j1 + 1 /\ a1 \in Nat /\ j1 \in Nat
       /\ j \in Nat /\ j <= MaxVerifying /\ a <= MaxVerifying /\ a \in Nat
  BY <1>3, <1>5, <1>7, <1>8
<1> HIDE DEF j, a, g0, a1, j1
<1>11. a1 <= MaxVerifying /\ j \in 1..MaxVerifying /\ j1 = j - 1
  BY <1>4, <1>10
<1>9. a' <= MaxVerifying /\ j \in 1..MaxVerifying /\ j' = j - 1
  BY <1>7, <1>11 DEF a1, j1
<1> QED
  BY <1>3, <1>9 DEF j, a, g0

LEMMA JudgedKeeps ==
    ASSUME ThrottleInv, NEW c \in Clients, verifying[c] > 0, verifying' = [verifying EXCEPT ![c] = @ - 1],
           UNCHANGED <<clock, gates, failed>>
    PROVE  GuessersInv' /\ GatesInv'
<1>1. GuessersInv /\ GatesInv
  BY DEF ThrottleInv
<1>2. /\ verifying' \in [Clients -> Nat] /\ Amount(verifying, Clients)' <= MaxVerifying
      /\ Judging(GateFor(c)) \in 1..MaxVerifying /\ Judging(GateFor(c))' = Judging(GateFor(c)) - 1
      /\ \A g \in Gates : g # GateFor(c) => Judging(g)' = Judging(g)
  BY <1>1, OneLess
<1>3. GuessersInv'
  BY <1>1, <1>2, CallersStay
<1>4. gates' \in [Gates -> GateRecords] /\ \A g \in Gates : gates'[g].windowStart <= clock
  BY <1>1 DEF GatesInv
<1>5. ASSUME NEW g \in Gates, NEW s \in 1..clock, clock - s < GlobalWindow
      PROVE  Fits(Failures(g, s)', Judging(g)', gates'[g], s)
  <2>1. Fits(Failures(g, s), Judging(g), gates[g], s) /\ Failures(g, s)' = Failures(g, s) /\ gates[g] \in GateRecords
    BY <1>1, <1>5, FailuresStay DEF GatesInv
  <2>2. /\ Failures(g, s) \in Nat /\ Judging(g) \in Nat /\ s \in Nat /\ clock \in Nat /\ MaxVerifying \in Nat
    BY <1>1, CallerNumbers, ThrottleNumbers
  <2>3. Judging(g)' \in Nat /\ Judging(g)' <= Judging(g)
    BY <1>2, <2>2
  <2>4. Fits(Failures(g, s), Judging(g)', gates[g], s)
    BY <2>1, <2>2, <2>3, FewerFit
  <2> QED
    BY <2>1, <2>4
<1>6. GatesInv'
  BY <1>4, <1>5, GatesNow
<1> QED
  BY <1>3, <1>6

LEMMA UnjudgedKeeps == ASSUME ThrottleInv, NEW c \in Clients, Unjudged(c) PROVE ThrottleInv'
<1>1. GuessersInv' /\ GatesInv'
  BY JudgedKeeps DEF Unjudged
<1>2. PenaltiesInv'
  BY PenaltiesStay DEF Unjudged, ThrottleInv
<1> QED
  BY <1>1, <1>2 DEF ThrottleInv

\* A success takes its own caller's penalty away, and no other.
LEMMA RecordSuccessKeeps == ASSUME ThrottleInv, NEW c \in Clients, RecordSuccess(c) PROVE ThrottleInv' /\ KeepsPenalties
<1>1. GuessersInv' /\ GatesInv'
  BY JudgedKeeps DEF RecordSuccess
<1>2. clients' = [d \in DOMAIN clients \ {c} |-> clients[d]] \/ clients' = clients
  BY DEF RecordSuccess
<1>3. DOMAIN clients' \subseteq DOMAIN clients /\ DOMAIN clients \subseteq DOMAIN clients' \cup {c}
  BY <1>2
<1>4. \A d \in DOMAIN clients' : clients'[d] = clients[d]
  BY <1>2
<1>5. clients' = [d \in DOMAIN clients' |-> clients'[d]]
  BY <1>2 DEF ThrottleInv, PenaltiesInv
<1>6. PenaltiesInv'
  <2>1. clock' = clock /\ PenaltiesInv
    BY DEF RecordSuccess, ThrottleInv
  <2>2. ASSUME NEW d \in DOMAIN clients' PROVE HeldBack(clients[d])
    BY <1>3, <2>1 DEF PenaltiesInv
  <2> QED
    BY <1>3, <1>4, <1>5, <2>1, <2>2 DEF PenaltiesInv, HeldBack
<1>7. KeepsPenalties
  <2> SUFFICES ASSUME NEW d \in DOMAIN clients, d # c
               PROVE  d \in DOMAIN clients' /\ clients'[d].blockedUntil >= clients[d].blockedUntil
    BY DEF KeepsPenalties
  <2>1. d \in DOMAIN clients' /\ clients'[d] = clients[d]
    BY <1>3, <1>4
  <2>2. clients[d].blockedUntil \in Nat
    BY DEF ThrottleInv, PenaltiesInv, HeldBack, ClientRecords
  <2> QED
    BY <2>1, <2>2
<1> QED
  BY <1>1, <1>6, <1>7 DEF ThrottleInv

LEMMA PenaltiesKept == ASSUME ThrottleInv, clients' = clients PROVE KeepsPenalties
<1> SUFFICES ASSUME NEW d \in DOMAIN clients
             PROVE  d \in DOMAIN clients' /\ clients'[d].blockedUntil >= clients[d].blockedUntil
  BY DEF KeepsPenalties
<1>1. clients[d].blockedUntil \in Nat
  BY DEF ThrottleInv, PenaltiesInv, HeldBack, ClientRecords
<1> QED
  BY <1>1

(* Making room takes nobody's penalty away, and charging one no time off it. *)
LEMMA PrunedIs ==
    ASSUME PenaltiesInv
    PROVE  /\ Pruned = [d \in DOMAIN Pruned |-> Pruned[d]] /\ DOMAIN Pruned \subseteq DOMAIN clients
           /\ \A d \in DOMAIN Pruned : Pruned[d] = clients[d]
           /\ \A d \in DOMAIN clients : clock < clients[d].blockedUntil => d \in DOMAIN Pruned
<1> DEFINE kept == {d \in DOMAIN clients : \/ clock - clients[d].lastFailure < ClientResetAfter
                                           \/ clock < clients[d].blockedUntil}
<1>1. Pruned = clients \/ Pruned = [d \in kept |-> clients[d]]
  BY DEF Pruned
<1>2. clients = [d \in DOMAIN clients |-> clients[d]]
  BY DEF PenaltiesInv
<1>3. kept \subseteq DOMAIN clients /\ \A d \in DOMAIN clients : clock < clients[d].blockedUntil => d \in kept
  OBVIOUS
<1> HIDE DEF kept
<1>4. CASE Pruned = clients
  BY <1>2, <1>4
<1>5. CASE Pruned = [d \in kept |-> clients[d]]
  BY <1>3, <1>5
<1> QED
  BY <1>1, <1>4, <1>5

LEMMA EnrolledIs ==
    ASSUME PenaltiesInv, NEW c \in Clients
    PROVE  LET e == Enrolled(c)
           IN  /\ e = [d \in DOMAIN e |-> e[d]]
               /\ DOMAIN Pruned \subseteq DOMAIN e /\ DOMAIN e \subseteq DOMAIN Pruned \cup {c}
               /\ \A d \in DOMAIN Pruned : e[d] = clients[d]
               /\ \A d \in DOMAIN e : d \notin DOMAIN Pruned => d = c /\ e[d] = Unmarked
<1> DEFINE e == Enrolled(c)
           p == Pruned
<1>1. /\ p = [d \in DOMAIN p |-> p[d]] /\ \A d \in DOMAIN p : p[d] = clients[d]
  BY PrunedIs
<1>2. e = p \/ (c \notin DOMAIN p /\ e = [d \in DOMAIN p \cup {c} |-> IF d = c THEN Unmarked ELSE p[d]])
  BY DEF Enrolled
<1> HIDE DEF e, p
<1>3. CASE e = p
  BY <1>1, <1>3 DEF e, p
<1>4. CASE c \notin DOMAIN p /\ e = [d \in DOMAIN p \cup {c} |-> IF d = c THEN Unmarked ELSE p[d]]
  <2>1. DOMAIN e = DOMAIN p \cup {c} /\ e = [d \in DOMAIN e |-> e[d]]
    BY <1>4
  <2>2. \A d \in DOMAIN p : e[d] = p[d]
    BY <1>4
  <2>3. e[c] = Unmarked
    BY <1>4
  <2> QED
    BY <1>1, <2>1, <2>2, <2>3 DEF e, p
<1> QED
  BY <1>2, <1>3, <1>4

LEMMA ChargedIs ==
    ASSUME clock \in 1..MaxClock, NEW state, NEW failures \in Nat, state.failures = failures,
           state.lastFailure \in Nat
    PROVE  /\ HeldBack(Charged(state))
           /\ HeldBack(state) /\ clock < state.blockedUntil =>
                Charged(state).blockedUntil >= state.blockedUntil
<1> DEFINE quiet == clock - state.lastFailure >= ClientResetAfter
           n == 1 + IF quiet THEN 0 ELSE failures
           until == IF Backoff(n) = 0 THEN 0 ELSE clock + Backoff(n)
           c == Charged(state)
<1>1. c = [failures |-> n, lastFailure |-> clock, blockedUntil |-> until]
  BY DEF Charged
<1>2. n \in Nat \ {0} /\ clock \in Nat
  BY ThrottleNumbers
<1>3. Backoff(n) \in Nat
  BY <1>2, BackoffGrows
<1>4. until \in Nat
  BY <1>2, <1>3
<1> HIDE DEF quiet, until, c
<1>5. HeldBack(c)
  <2> HIDE DEF n
  <2>1. c \in ClientRecords
    BY <1>1, <1>2, <1>4 DEF ClientRecords
  <2>2. c.failures = n /\ c.lastFailure = clock /\ c.blockedUntil = until
    BY <1>1
  <2>3. c.lastFailure <= clock
    BY <1>2, <2>2
  <2> QED
    BY <2>1, <2>2, <2>3 DEF HeldBack, until
<1>6. ASSUME HeldBack(state), clock < state.blockedUntil PROVE c.blockedUntil >= state.blockedUntil
  <2> DEFINE l == state.lastFailure
             b == state.blockedUntil
             old == Backoff(failures)
             new == Backoff(failures + 1)
  <2>1. l \in Nat /\ l <= clock /\ b \in Nat /\ b = IF old = 0 THEN 0 ELSE l + old
    BY <1>6 DEF HeldBack, ClientRecords
  <2>2. old \in Nat /\ old <= MaxBackoff /\ old <= new /\ new \in Nat
    BY BackoffGrows
  <2>3. MaxBackoff \in Nat /\ ClientResetAfter \in Nat /\ MaxBackoff < ClientResetAfter
    BY ThrottleAssumption, BackoffAssumption
  <2> HIDE DEF l, old, new, b
  <2>4. clock < b
    BY <1>6 DEF b
  <2>5. old # 0 /\ b = l + old /\ clock - l < ClientResetAfter
    BY <1>2, <2>1, <2>2, <2>3, <2>4
  <2>6. ~quiet
    BY <1>2, <2>1, <2>3, <2>5 DEF quiet, l
  <2>7. n = failures + 1
    BY <2>6
  <2>8. until = clock + new
    BY <2>2, <2>5, <2>7 DEF until, new
  <2>9. clock + new >= l + old
    BY <1>2, <2>1, <2>2
  <2>10. c.blockedUntil = until
    BY <1>1
  <2> QED
    BY <2>5, <2>8, <2>9, <2>10 DEF b
<1> QED
  BY <1>5, <1>6 DEF c

LEMMA FailurePenalties ==
    ASSUME ThrottleInv, NEW c \in Clients, RecordFailure(c)
    PROVE  PenaltiesInv' /\ KeepsPenalties
<1>1. PenaltiesInv /\ clock' = clock /\ clock \in 1..MaxClock /\ clock \in Nat
  BY CallerNumbers DEF ThrottleInv, RecordFailure
<1>2. CASE clients' = clients
  BY <1>1, <1>2, PenaltiesStay, PenaltiesKept
<1> DEFINE e == Enrolled(c)
           p == Pruned
<1>3. /\ e = [d \in DOMAIN e |-> e[d]]
      /\ DOMAIN p \subseteq DOMAIN e /\ DOMAIN e \subseteq DOMAIN p \cup {c}
      /\ \A d \in DOMAIN p : e[d] = clients[d]
      /\ \A d \in DOMAIN e : d \notin DOMAIN p => d = c /\ e[d] = Unmarked
      /\ DOMAIN p \subseteq DOMAIN clients
      /\ \A d \in DOMAIN clients : clock < clients[d].blockedUntil => d \in DOMAIN p
  BY <1>1, PrunedIs, EnrolledIs
<1>4. Unmarked.failures = 0 /\ Unmarked.lastFailure = clock
  BY DEF Unmarked
<1>5. clients' # clients => Tracked(c) /\ clients' = IF c \in DOMAIN e THEN [e EXCEPT ![c] = Charged(e[c])] ELSE e
  BY DEF RecordFailure
<1> HIDE DEF e, p
<1>6. CASE clients' # clients
  <2> DEFINE k == clients'
  <2>1. /\ Tracked(c) /\ DOMAIN k = DOMAIN e /\ k = [d \in DOMAIN k |-> k[d]]
        /\ \A d \in DOMAIN e : k[d] = IF d = c THEN Charged(e[c]) ELSE e[d]
    BY <1>3, <1>5, <1>6
  <2>2. \A d \in DOMAIN p : HeldBack(clients[d]) /\ d \in Clients /\ Tracked(d)
    BY <1>1, <1>3 DEF PenaltiesInv
  <2>3. \A d \in DOMAIN e : d # c => d \in DOMAIN p /\ e[d] = clients[d]
    BY <1>3
  <2> HIDE DEF k
  <2>4. ASSUME c \in DOMAIN e PROVE /\ HeldBack(Charged(e[c]))
                                    /\ c \in DOMAIN p /\ clock < clients[c].blockedUntil =>
                                         Charged(e[c]).blockedUntil >= clients[c].blockedUntil
    <3>1. CASE c \in DOMAIN p
      <4>1. e[c] = clients[c] /\ HeldBack(e[c])
        BY <1>3, <2>2, <3>1
      <4> DEFINE s == e[c]
                 f == s.failures
                 l == s.lastFailure
      <4>2. f \in Nat /\ l \in Nat
        BY <4>1, ThrottleNumbers DEF HeldBack, ClientRecords
      <4> HIDE DEF s, f, l
      <4>3. HeldBack(Charged(s)) /\ (HeldBack(s) /\ clock < s.blockedUntil => Charged(s).blockedUntil >= s.blockedUntil)
        BY <1>1, <4>2, ChargedIs DEF f, l
      <4> QED
        BY <4>1, <4>3 DEF s
    <3>2. CASE c \notin DOMAIN p
      <4>1. e[c] = Unmarked
        BY <1>3, <2>4, <3>2
      <4>2. HeldBack(Charged(Unmarked))
        BY <1>1, <1>4, ChargedIs
      <4> QED
        BY <3>2, <4>1, <4>2
    <3> QED
      BY <3>1, <3>2
  <2>5. ASSUME NEW d \in DOMAIN k PROVE HeldBack(k[d]) /\ d \in Clients /\ Tracked(d)
    <3>1. CASE d = c
      BY <2>1, <2>4, <3>1
    <3>2. CASE d # c
      BY <2>1, <2>2, <2>3, <3>2
    <3> QED
      BY <3>1, <3>2
  <2>6. PenaltiesInv'
    <3>1. DOMAIN k \subseteq {d \in Clients : Tracked(d)}
      BY <2>5
    <3>2. \A d \in DOMAIN k : HeldBack(k[d])
      BY <2>5
    <3> QED
      BY <1>1, <2>1, <3>1, <3>2 DEF PenaltiesInv, HeldBack, k, Tracked
  <2>7. KeepsPenalties
    <3> SUFFICES ASSUME NEW d \in DOMAIN clients, clock < clients[d].blockedUntil
                 PROVE  d \in DOMAIN k /\ k[d].blockedUntil >= clients[d].blockedUntil
      BY DEF KeepsPenalties, k
    <3>1. d \in DOMAIN p /\ d \in DOMAIN e /\ d \in DOMAIN k
      BY <1>3, <2>1
    <3>2. CASE d = c
      BY <2>1, <2>4, <3>1, <3>2
    <3>3. CASE d # c
      <4>1. k[d] = clients[d]
        BY <2>1, <2>3, <3>1, <3>3
      <4>2. clients[d].blockedUntil \in Nat
        BY <2>2, <3>1 DEF HeldBack, ClientRecords
      <4> QED
        BY <3>1, <4>1, <4>2
    <3> QED
      BY <3>2, <3>3
  <2> QED
    BY <2>6, <2>7
<1> QED
  BY <1>2, <1>6

LEMMA RecordFailureKeeps == ASSUME ThrottleInv, NEW c \in Clients, RecordFailure(c) PROVE ThrottleInv' /\ KeepsPenalties
<1> DEFINE g0 == GateFor(c)
           gate == gates[g0]
           charged == GateCharged(gate)
<1>1. /\ verifying[c] > 0 /\ verifying' = [verifying EXCEPT ![c] = @ - 1]
      /\ gates' = [gates EXCEPT ![g0] = charged]
      /\ failed' = [failed EXCEPT ![g0][clock] = failed[g0][clock] + 1]
      /\ clock' = clock
  BY DEF RecordFailure
<1>2. GuessersInv /\ GatesInv /\ g0 \in Gates
  BY DEF ThrottleInv, GateFor, Gates
<1>3. /\ verifying' \in [Clients -> Nat] /\ Amount(verifying, Clients)' <= MaxVerifying
      /\ Judging(g0) \in 1..MaxVerifying /\ Judging(g0)' = Judging(g0) - 1
      /\ \A g \in Gates : g # g0 => Judging(g)' = Judging(g)
  BY <1>1, <1>2, OneLess
<1>4. clock \in 1..MaxClock /\ clock \in Nat /\ GlobalWindow \in Nat \ {0} /\ MaxClock \in Nat
  BY <1>2, CallerNumbers, ThrottleNumbers
<1>5. failed \in [Gates -> [1..MaxClock -> Nat]] /\ gates \in [Gates -> GateRecords] /\ gate \in GateRecords
  BY <1>2 DEF GuessersInv, GatesInv
<1> HIDE DEF g0, gate, charged
<1> DEFINE old == failed[g0]
           more == [old EXCEPT ![clock] = old[clock] + 1]
<1>6. old \in [1..MaxClock -> Nat] /\ failed' = [failed EXCEPT ![g0] = more]
  BY <1>1, <1>2, <1>5
<1>7. /\ more \in [1..MaxClock -> Nat] /\ more[clock] = old[clock] + 1
      /\ \A t \in 1..MaxClock : t # clock => more[t] = old[t]
  <2> HIDE DEF old
  <2>1. old[clock] \in Nat
    BY <1>4, <1>6
  <2> QED
    BY <1>4, <1>6, <2>1
<1> HIDE DEF more
<1>8. failed' \in [Gates -> [1..MaxClock -> Nat]] /\ failed'[g0] = more /\ \A g \in Gates : g # g0 => failed'[g] = failed[g]
  BY <1>2, <1>5, <1>6, <1>7
<1>9. GuessersInv'
  <2>1. ASSUME NEW g \in Gates, NEW t \in 1..MaxClock, t > clock \/ clock - t >= GlobalWindow
        PROVE  failed'[g][t] = 0
    <3>1. failed[g][t] = 0
      BY <1>2, <2>1 DEF GuessersInv
    <3>2. t # clock
      BY <1>4, <2>1
    <3> QED
      BY <1>7, <1>8, <3>1, <3>2
  <2> QED
    BY <1>1, <1>3, <1>4, <1>8, <2>1 DEF GuessersInv
<1>10. charged \in GateRecords /\ charged.windowStart <= clock
  <2> DEFINE ended == clock - gate.windowStart >= GlobalWindow
             n == IF ended THEN 1 ELSE gate.failures + 1
  <2>1. /\ charged \in GateRecords
        /\ n >= GlobalThreshold => charged.windowStart = clock
        /\ n < GlobalThreshold => charged.windowStart = (IF ended THEN clock ELSE gate.windowStart)
    BY <1>4, <1>5, GateChargedIs DEF charged
  <2>2. n \in Nat /\ GlobalThreshold \in Nat /\ gate.windowStart <= clock
    BY <1>2, <1>5, ThrottleNumbers DEF GateRecords, GatesInv, gate
  <2> HIDE DEF n, ended
  <2> QED
    BY <1>4, <2>1, <2>2
<1>11. GatesInv'
  <2>1. gates' \in [Gates -> GateRecords] /\ \A g \in Gates : gates'[g] = IF g = g0 THEN charged ELSE gates[g]
    BY <1>1, <1>2, <1>5, <1>10
  <2>2. \A g \in Gates : gates'[g].windowStart <= clock
    BY <1>2, <1>10, <2>1 DEF GatesInv
  <2>3. ASSUME NEW g \in Gates, NEW s \in 1..clock, clock - s < GlobalWindow
        PROVE  Fits(Failures(g, s)', Judging(g)', gates'[g], s)
    <3>1. Fits(Failures(g, s), Judging(g), gates[g], s)
      BY <1>2, <2>3 DEF GatesInv
    <3>2. Failures(g, s)' = Amount(failed'[g], s..clock)
      BY <1>1 DEF Failures, Amount, Marks, Units
    <3>3. CASE g # g0
      <4>1. Failures(g, s)' = Failures(g, s)
        BY <1>8, <3>2, <3>3 DEF Failures
      <4> QED
        BY <1>3, <2>1, <3>1, <3>3, <4>1
    <3>4. CASE g = g0
      <4>1. s..clock \subseteq 1..MaxClock /\ clock \in s..clock
        BY <1>4
      <4>2. Counter(old, s..clock) /\ Failures(g, s) \in Nat /\ Failures(g, s) = Amount(old, s..clock)
        BY <1>2, <3>4, CallerNumbers DEF Failures
      <4>3. Amount(more, s..clock) = Amount(old, s..clock) + 1
        BY <1>7, <4>1, <4>2, AmountAdds
      <4>4. Failures(g, s)' = Failures(g, s) + 1
        BY <1>8, <3>2, <3>4, <4>2, <4>3
      <4>5. gate.windowStart <= clock /\ gates[g] = gate
        BY <1>2, <3>4 DEF GatesInv, gate
      <4>6. Judging(g) \in 1..MaxVerifying /\ Judging(g)' = Judging(g) - 1
        BY <1>3, <3>4
      <4>7. Fits(Failures(g, s) + 1, Judging(g) - 1, charged, s)
        BY <1>4, <1>5, <2>3, <3>1, <4>2, <4>5, <4>6, ChargeFits DEF charged
      <4> QED
        BY <2>1, <3>4, <4>4, <4>6, <4>7
    <3> QED
      BY <3>3, <3>4
  <2> QED
    BY <1>1, <2>1, <2>2, <2>3, GatesNow
<1>12. PenaltiesInv' /\ KeepsPenalties
  BY FailurePenalties
<1> QED
  BY <1>9, <1>11, <1>12 DEF ThrottleInv

(* A tick forgets what no span that ends now reaches.                       *)
LEMMA TickKeeps == ASSUME ThrottleInv, Tick PROVE ThrottleInv'
<1> DEFINE later == clock + 1
<1>1. /\ clock < MaxClock /\ clock' = later
      /\ failed' = [g \in Gates |-> [t \in 1..MaxClock |-> IF clock' - t < GlobalWindow THEN failed[g][t] ELSE 0]]
      /\ UNCHANGED <<clients, gates, verifying>>
  BY DEF Tick
<1>2. GuessersInv /\ GatesInv /\ PenaltiesInv
  BY DEF ThrottleInv
<1>3. clock \in Nat /\ clock >= 1 /\ later \in 1..MaxClock /\ later = clock + 1 /\ MaxClock \in Nat /\ GlobalWindow \in Nat \ {0}
  BY <1>1, <1>2, CallerNumbers, ThrottleNumbers
<1> HIDE DEF later
<1>4. \A g \in Gates : \A t \in 1..MaxClock :
        failed'[g][t] = IF later - t < GlobalWindow THEN failed[g][t] ELSE 0
  BY <1>1
<1>5. \A g \in Gates : \A t \in 1..MaxClock : failed[g][t] \in Nat
  BY <1>2, CallerNumbers
<1>6. GuessersInv'
  <2>1. failed' \in [Gates -> [1..MaxClock -> Nat]]
    BY <1>1, <1>5
  <2>2. ASSUME NEW g \in Gates, NEW t \in 1..MaxClock, t > later \/ later - t >= GlobalWindow
        PROVE  failed'[g][t] = 0
    <3>1. CASE later - t >= GlobalWindow
      <4>1. ~(later - t < GlobalWindow)
        BY <1>3, <3>1
      <4> QED
        BY <1>4, <4>1
    <3>2. CASE t > later
      <4>1. t > clock
        BY <1>3, <3>2
      <4>2. failed[g][t] = 0
        BY <1>2, <4>1 DEF GuessersInv
      <4> QED
        BY <1>4, <4>2
    <3> QED
      BY <2>2, <3>1, <3>2
  <2>3. verifying' \in [Clients -> Nat] /\ Amount(verifying, Clients)' <= MaxVerifying
    BY <1>1, <1>2 DEF GuessersInv, Amount, Marks, Units
  <2> QED
    BY <1>1, <1>3, <2>1, <2>2, <2>3 DEF GuessersInv
<1>7. GatesInv'
  <2>1. gates' \in [Gates -> GateRecords] /\ \A g \in Gates : gates'[g] = gates[g] /\ gates[g] \in GateRecords
    BY <1>1, <1>2 DEF GatesInv
  <2>2. \A g \in Gates : gates[g].windowStart <= clock /\ gates[g].windowStart \in Nat /\ gates[g].failures \in Nat
    BY <1>2, <2>1, ThrottleNumbers DEF GatesInv, GateRecords
  <2>3. \A g \in Gates : gates'[g].windowStart <= later
    BY <1>3, <2>1, <2>2
  <2>4. ASSUME NEW g \in Gates, NEW s \in 1..(later), later - s < GlobalWindow
        PROVE  Fits(Failures(g, s), Judging(g), gates[g], s)'
    <3> DEFINE f == Amount(failed'[g], s..(later))
               gate == gates[g]
    <3>1. Failures(g, s)' = f /\ Judging(g)' = Judging(g)
      BY <1>1 DEF Failures, Judging, AtGate, GateFor, Amount, Marks, Units
    <3>2. s..(later) \subseteq 1..MaxClock
      BY <1>3
    <3>3. failed[g][later] = 0
      BY <1>2, <1>3 DEF GuessersInv
    <3>4. failed'[g][later] = 0
      BY <1>3, <1>4, <3>3
    <3>5. gate.windowStart <= clock /\ gate.windowStart \in Nat /\ gate.failures \in Nat /\ gates'[g] = gate
      BY <2>1, <2>2
    <3> HIDE DEF gate
    <3>6. CASE s = later
      <4>1. \A t \in s..(later) : failed'[g][t] = 0
        BY <1>3, <3>4, <3>6
      <4>2. f = 0
        BY <4>1, AmountNone
      <4>3. gate.windowStart < s /\ f <= gate.failures
        BY <1>3, <3>5, <3>6, <4>2
      <4> HIDE DEF f
      <4> QED
        BY <3>1, <3>5, <4>3 DEF Fits, gate
    <3>7. CASE s \in 1..clock
      <4>1. \A t \in s..(later) : failed'[g][t] \in Nat
        <5>1. \A t \in 1..MaxClock : failed'[g][t] \in Nat
          BY <1>4, <1>5
        <5> QED
          BY <3>2, <5>1
      <4>2. Counter(failed'[g], s..(later))
        <5>1. IsFiniteSet(s..(later))
          BY <1>3, FS_Interval
        <5> QED
          BY <4>1, <5>1 DEF Counter
      <4>3. s..clock \subseteq s..(later) /\ \A t \in s..(later) : t \notin s..clock => t = later
        BY <1>3
      <4>4. f = Amount(failed'[g], s..clock)
        BY <3>4, <4>2, <4>3, AmountDrops
      <4>5. ASSUME NEW t \in s..clock PROVE failed'[g][t] = failed[g][t]
        <5>1. t \in 1..MaxClock /\ later - t < GlobalWindow
          BY <1>3, <2>4, <3>7
        <5> QED
          BY <1>4, <5>1
      <4>6. f = Failures(g, s)
        BY <4>4, <4>5, AmountStays DEF Failures
      <4>7. clock - s < GlobalWindow
        BY <1>3, <2>4, <3>7
      <4>8. Fits(Failures(g, s), Judging(g), gate, s)
        BY <1>2, <3>7, <4>7 DEF GatesInv, gate
      <4>9. Fits(f, Judging(g), gate, s)
        BY <4>6, <4>8
      <4> DEFINE o == gate.windowStart + GlobalCooldown
      <4>10. o \in Nat /\ (o <= clock => o <= later)
        BY <1>3, <3>5, ThrottleNumbers
      <4> HIDE DEF f, o
      <4> DEFINE j == Judging(g)
      <4> HIDE DEF j
      <4>11. Fits(f, j, gate, s)
        BY <4>9 DEF j
      <4>12. \/ gate.windowStart < s /\ f <= gate.failures
             \/ /\ ~(gate.windowStart < s)
                /\ \/ f <= GlobalThreshold - 1 + gate.failures
                   \/ /\ gate.cooldownUntil = gate.windowStart + GlobalCooldown
                      /\ f + j <= GlobalThreshold - 1 + LetThrough(gate.windowStart - s)
                   \/ /\ gate.windowStart + GlobalCooldown <= later
                      /\ f <= GlobalThreshold - 1 + LetThrough(gate.windowStart - s) + gate.failures
        BY <4>10, <4>11 DEF Fits, o
      <4> QED
        BY <1>1, <3>1, <3>5, <4>12 DEF Fits, gate, j
    <3> QED
      BY <1>3, <3>6, <3>7
  <2> QED
    BY <1>1, <2>1, <2>3, <2>4 DEF GatesInv
<1>8. PenaltiesInv'
  <2>1. ASSUME NEW c \in DOMAIN clients PROVE HeldBack(clients[c])'
    <3>1. HeldBack(clients[c])
      BY <1>2 DEF PenaltiesInv
    <3> DEFINE l == clients[c].lastFailure
    <3>2. l \in Nat /\ l <= clock
      BY <3>1, ThrottleNumbers DEF HeldBack, ClientRecords
    <3> HIDE DEF l
    <3>3. l <= later
      BY <1>3, <3>2
    <3> QED
      BY <1>1, <3>1, <3>3 DEF HeldBack, l
  <2> QED
    BY <1>1, <1>2, <2>1 DEF PenaltiesInv, Tracked
<1> QED
  BY <1>6, <1>7, <1>8 DEF ThrottleInv

LEMMA ThrottleKeeps ==
    ThrottleInv /\ [ThrottleNext]_throttleVars => ThrottleInv' /\ [KeepsPenalties]_throttleVars
<1> SUFFICES ASSUME ThrottleInv, [ThrottleNext]_throttleVars PROVE ThrottleInv' /\ [KeepsPenalties]_throttleVars
  OBVIOUS
<1>1. ASSUME NEW c \in Clients, Admit(c) PROVE ThrottleInv' /\ KeepsPenalties
  BY <1>1, AdmitKeeps, PenaltiesKept DEF Admit
<1>2. ASSUME NEW c \in Clients, Unjudged(c) PROVE ThrottleInv' /\ KeepsPenalties
  BY <1>2, UnjudgedKeeps, PenaltiesKept DEF Unjudged
<1>3. ASSUME Tick PROVE ThrottleInv' /\ KeepsPenalties
  BY <1>3, TickKeeps, PenaltiesKept DEF Tick
<1>4. CASE ThrottleNext
  BY <1>1, <1>2, <1>3, <1>4, RecordFailureKeeps, RecordSuccessKeeps DEF ThrottleNext
<1>5. CASE UNCHANGED throttleVars
  <2>1. UNCHANGED <<clock, clients, gates, verifying, failed>>
    BY <1>5 DEF throttleVars
  <2>2. GuessersInv /\ GatesInv /\ PenaltiesInv
    BY DEF ThrottleInv
  <2>3. Amount(verifying, Clients)' = Amount(verifying, Clients) /\ \A g \in Gates : Judging(g)' = Judging(g)
    BY <2>1 DEF Judging, AtGate, GateFor, Amount, Marks, Units
  <2>4. GuessersInv' /\ PenaltiesInv'
    BY <2>1, <2>2, <2>3, CallersStay, PenaltiesStay DEF GuessersInv
  <2>5. GatesInv'
    BY <2>1, <2>2, <2>3, FailuresStay, GatesNow DEF GatesInv
  <2> QED
    BY <1>5, <2>4, <2>5 DEF ThrottleInv
<1> QED
  BY <1>4, <1>5

(* So many rounds end in the span of a window.                              *)
LEMMA GuessesStayBounded == ThrottleInv => GuessesAreBounded
<1> SUFFICES ASSUME ThrottleInv, NEW g \in Gates
             PROVE  MapThenSumSet(LAMBDA t : failed[g][t], 1..clock)
                      <= ((GlobalWindow - 1) \div GlobalCooldown + 1) * (GlobalThreshold + MaxVerifying - 1)
                           + GlobalThreshold - 1
  BY DEF GuessesAreBounded
<1> DEFINE W == GlobalWindow
           T == GlobalThreshold
           s == IF clock - W + 1 >= 1 THEN clock - W + 1 ELSE 1
           gate == gates[g]
           ws == gate.windowStart
           f == Failures(g, s)
           j == Judging(g)
           most == LetThrough(W - 1)
<1>1. GuessersInv /\ GatesInv
  BY DEF ThrottleInv
<1>2. /\ W \in Nat \ {0} /\ T \in Nat \ {0} /\ clock \in Nat /\ clock >= 1 /\ GlobalCooldown \in Nat \ {0}
      /\ RoundSize \in Nat /\ T <= RoundSize /\ MaxClock \in Nat /\ clock \in 1..MaxClock
  BY <1>1, CallerNumbers, ThrottleNumbers
<1>3. s \in 1..clock /\ s \in Nat /\ clock - s < W /\ clock - s <= W - 1 /\ clock - s \in Nat
  BY <1>2
<1>4. MapThenSumSet(LAMBDA t : failed[g][t], 1..clock) = f
  <2>1. Counter(failed[g], 1..clock) /\ 1 \in 1..clock
    BY <1>1, <1>2, CallerNumbers
  <2>2. s..clock \subseteq 1..clock
    BY <1>2, <1>3
  <2>3. ASSUME NEW t \in 1..clock, t \notin s..clock PROVE failed[g][t] = 0
    <3>1. clock - t >= W /\ t \in 1..MaxClock
      BY <1>2, <2>3
    <3> QED
      BY <1>1, <3>1 DEF GuessersInv
  <2>4. Amount(failed[g], s..clock) = Amount(failed[g], 1..clock)
    BY <2>1, <2>2, <2>3, AmountDrops
  <2>5. MapThenSumSet(LAMBDA t : failed[g][t], 1..clock) = Amount(failed[g], 1..clock)
    BY <2>1, AmountIs
  <2> QED
    BY <2>4, <2>5 DEF Failures
<1>5. most = ((W - 1) \div GlobalCooldown + 1) * (T + MaxVerifying - 1)
  BY DEF LetThrough, RoundSize
<1> HIDE DEF s
<1>6. Fits(f, j, gate, s)
  BY <1>1, <1>3 DEF GatesInv
<1>7. f \in Nat /\ j \in Nat
  BY <1>1, <1>3, CallerNumbers
<1>8. ws \in Nat /\ ws <= clock /\ gate.failures \in Nat /\ gate.failures <= T - 1
  BY <1>1, <1>2 DEF GatesInv, GateRecords
<1>9. W - 1 \in Nat /\ most \in Nat /\ RoundSize <= most
  BY <1>2, LetThroughGrows
<1> DEFINE m == gate.failures
           lw == LetThrough(ws - s)
<1>10. /\ ws < s => f <= m
       /\ ~(ws < s) => \/ f <= T - 1 + m
                       \/ gate.cooldownUntil = ws + GlobalCooldown /\ f + j <= T - 1 + lw
                       \/ ws + GlobalCooldown <= clock /\ f <= T - 1 + lw + m
  BY <1>6 DEF Fits
<1>11. ~(ws < s) => /\ lw \in Nat /\ lw <= most
                    /\ ws + GlobalCooldown <= clock => lw + RoundSize <= most
  <2> SUFFICES ASSUME ~(ws < s)
               PROVE  /\ lw \in Nat /\ lw <= most
                      /\ ws + GlobalCooldown <= clock => lw + RoundSize <= most
    OBVIOUS
  <2>1. ws - s \in Nat /\ ws - s <= W - 1
    BY <1>2, <1>3, <1>8
  <2>2. ws + GlobalCooldown <= clock => (ws - s) + GlobalCooldown <= W - 1
    BY <1>2, <1>3, <1>8
  <2> QED
    BY <1>9, <2>1, <2>2, LetThroughGrows
<1> HIDE DEF f, j, m, lw, most, ws, W, T, gate
<1>12. f <= most + T - 1
  BY <1>2, <1>7, <1>8, <1>9, <1>10, <1>11 DEF m
<1> QED
  BY <1>4, <1>5, <1>12 DEF W, T

-----------------------------------------------------------------------------
(* The shapes of the variables.                                             *)
LEMMA SettingsShape == SettingsInv => SettingsTypeOK
<1> SUFFICES ASSUME SettingsInv PROVE SettingsTypeOK
  OBVIOUS
<1>1. boots \in 0..MaxBoots /\ settingsRow.revision \in 1..MaxRevision /\ runtime.revision <= settingsRow.revision
      /\ Valid(settingsRow.settings) /\ Valid(runtime.settings)
  BY DEF SettingsInv, SettingsTypes, RevisionsInv
<1>2. runtime.revision \in Nat /\ MaxRevision \in Nat
  BY SettingsAssumption DEF SettingsInv, SettingsTypes, Revised
<1>3. settingsRow.revision \in 0..MaxRevision /\ runtime.revision \in 0..MaxRevision /\ settingsRow.revision >= 1
  BY <1>1, <1>2
<1>4. \A e \in Editors : editor[e].at \in {"idle", "editing", "saved", "compared"}
  BY DEF SettingsInv, SettingsTypes, EditorRecords
<1>5. \A e \in Editors : editor[e].updated.revision <= settingsRow.revision
  BY DEF SettingsInv, EditorsInv
<1> QED
  BY <1>1, <1>3, <1>4, <1>5 DEF SettingsTypeOK

LEMMA RecordsShape == RecordsInv => RecordsTypeOK
<1> SUFFICES ASSUME RecordsInv PROVE RecordsTypeOK
  OBVIOUS
<1>1. RecordTables /\ HandlerInv
  BY DEF RecordsInv
<1>2. lastIds.channel \in Nat /\ lastIds.key \in Nat
  BY <1>1 DEF RecordTables
<1>3. ASSUME NEW c \in DOMAIN channels PROVE c <= lastIds.channel /\ Named(channels[c].name) = {c}
  <2>1. c \in 1..lastIds.channel
    BY <1>1 DEF RecordTables
  <2>2. \A d \in DOMAIN channels : channels[c].name = channels[d].name => c = d
    BY <1>1 DEF RecordTables
  <2> QED
    BY <1>2, <2>1, <2>2 DEF Named
<1>4. ASSUME NEW k \in DOMAIN keys
      PROVE  k <= lastIds.key /\ keys[k].channel \in DOMAIN channels /\ keys[k].value # ""
  <2>1. k \in 1..lastIds.key /\ keys[k].channel \in DOMAIN channels /\ keys[k] \in KeyRows
    BY <1>1 DEF RecordTables
  <2>2. keys[k].value # ""
    BY <2>1 DEF KeyRows
  <2>3. k <= lastIds.key
    BY <1>2, <2>1
  <2> QED
    BY <2>1, <2>2, <2>3
<1>5. handler.op \in {"none", "switch", "import", "down"}
  BY <1>1 DEF HandlerInv
<1> QED
  BY <1>3, <1>4, <1>5 DEF RecordsTypeOK

\* No two groups have one name.
LEMMA GroupsShape == GroupsInv => GroupsTypeOK
<1> SUFFICES ASSUME GroupsInv PROVE GroupsTypeOK
  OBVIOUS
<1>1. /\ lastGroup \in Nat /\ DOMAIN groups \subseteq 1..lastGroup /\ groups[DefaultGroup] = "default"
      /\ \A g, h \in DOMAIN groups : groups[g] = groups[h] => g = h
      /\ importing.ids \subseteq 1..lastGroup
  BY DEF GroupsInv, GroupTables
<1> DEFINE names == {groups[g] : g \in DOMAIN groups}
           name == [g \in DOMAIN groups |-> groups[g]]
<1>2. IsFiniteSet(DOMAIN groups)
  <2>1. 1 \in Int /\ lastGroup \in Int
    BY <1>1
  <2>2. IsFiniteSet(1..lastGroup)
    BY <2>1, FS_Interval
  <2> QED
    BY <1>1, <2>2, FS_Subset
<1>3. name \in Bijection(DOMAIN groups, names)
  <2>1. name \in [DOMAIN groups -> names] /\ \A n \in names : \E g \in DOMAIN groups : name[g] = n
    OBVIOUS
  <2>2. \A g, h \in DOMAIN groups : name[g] = name[h] => g = h
    BY <1>1
  <2> HIDE DEF names, name
  <2> QED
    BY <2>1, <2>2 DEF Bijection, Injection, Surjection, IsInjective
<1>4. Cardinality(names) = Cardinality(DOMAIN groups)
  <2> HIDE DEF names, name
  <2> QED
    BY <1>2, <1>3, FS_Bijection DEF ExistsBijection
<1> QED
  BY <1>1, <1>4 DEF GroupsTypeOK

LEMMA SecretsShape == SecretsInv => SecretsTypeOK
<1> SUFFICES ASSUME SecretsInv PROVE SecretsTypeOK
  OBVIOUS
<1>1. SecretTypes /\ KeyFileInv
  BY DEF SecretsInv
<1>2. keyFile.is \in {"absent", "empty", "written"} /\ (keyFile.is = "written" <=> keyFile.key # NoKey)
  BY <1>1 DEF SecretTypes, KeyFileInv, KeyFiles
<1>3. startup.at \in {"down", "writing", "syncing", "sealing", "up"}
  BY <1>1 DEF SecretTypes, Startups
<1>4. ASSUME NEW i \in DOMAIN backups PROVE DOMAIN backups[i] = Cells
  <2>1. backups \in Seq([Cells -> CellRecords])
    BY <1>1 DEF SecretTypes
  <2>2. backups[i] \in [Cells -> CellRecords]
    BY <2>1
  <2> QED
    BY <2>2
<1>5. Len(backups) <= KeepBackups /\ encryptionKey \in configured \cup {NoKey}
  BY <1>1 DEF SecretTypes
<1> QED
  BY <1>2, <1>3, <1>4, <1>5 DEF SecretsTypeOK

LEMMA ImagesShape == ImagesInv => ImagesTypeOK
  BY DEF ImagesInv, ImageTables, SavingInv, ImagesTypeOK

LEMMA FilesShape == FilesInv => FilesTypeOK
  BY DEF FilesInv, FileTables, LockInv, PlanRecords, FilesTypeOK

LEMMA RoutingShape == RoutingInv => RoutingTypeOK
<1> SUFFICES ASSUME RoutingInv PROVE RoutingTypeOK
  OBVIOUS
<1>1. RoutingTypes
  BY DEF RoutingInv
<1>2. ASSUME NEW i \in DOMAIN tried PROVE tried[i].upstream \in DOMAIN snapshot /\ tried[i].out \in BOOLEAN
  <2>1. tried \in Seq(Tries)
    BY <1>1 DEF RoutingTypes
  <2>2. tried[i] \in Tries
    BY <2>1
  <2> QED
    BY <2>2 DEF Tries
<1> QED
  BY <1>1, <1>2 DEF RoutingTypes, RoutingTypeOK

LEMMA LimiterShape == LimiterInv => LimiterTypeOK
<1> SUFFICES ASSUME LimiterInv PROVE LimiterTypeOK
  OBVIOUS
<1>1. WindowsInv /\ ChecksInv /\ CleanerInv
  BY DEF LimiterInv
<1>2. now \in 0..MaxNow /\ heap \in Seq(WindowRecords) /\ windows \in [Ids -> 0..Len(heap)] /\ MaxNow \in Nat
  BY <1>1, LimiterAssumption DEF WindowsInv
<1>3. Len(heap) \in Nat /\ DOMAIN heap = 1..Len(heap)
  BY <1>2
<1>4. ASSUME NEW n \in DOMAIN heap
      PROVE  LET b == heap[n].buckets
             IN  /\ heap[n].total = FoldSeq(LAMBDA x, sum : sum + x.count, 0, b)
                 /\ \A j \in DOMAIN b : b[j].count > 0
                 /\ \A j \in 2..Len(b) : b[j-1].second < b[j].second
                 /\ heap[n].lastUsed \in 0..now
  <2> DEFINE b == heap[n].buckets
             w == heap[n]
  <2>1. WindowIsGood(heap[n])
    BY <1>1, <1>3 DEF WindowsInv
  <2>2. b \in Seq(Bucket) /\ Ordered(b) /\ w.total = Cardinality(Slots(b))
    BY <2>1 DEF WindowIsGood, Tallied
  <2>3. w.lastUsed \in 0..MaxNow /\ w.lastUsed <= now
    BY <2>1 DEF WindowIsGood, WindowRecords
  <2>4. w.lastUsed \in 0..now
    BY <1>2, <2>3
  <2> HIDE DEF b
  <2>5. w.total = FoldSeq(LAMBDA x, sum : sum + x.count, 0, b)
    BY <2>2, TotalIs
  <2>6. ASSUME NEW j \in DOMAIN b PROVE b[j].count > 0
    <3>1. b[j] \in Bucket
      BY <2>2
    <3>2. b[j].count \in Nat \ {0}
      BY <3>1 DEF Bucket
    <3> QED
      BY <3>2
  <2>7. ASSUME NEW j \in 2..Len(b) PROVE b[j-1].second < b[j].second
    <3>1. j \in DOMAIN b /\ j - 1 \in DOMAIN b /\ j - 1 < j
      BY <2>2
    <3> QED
      BY <2>2, <3>1 DEF Ordered
  <2> QED
    BY <2>4, <2>5, <2>6, <2>7 DEF b
<1>5. ASSUME NEW c \in Checks
      PROVE  /\ check[c].pc \in {"idle", "lookup", "create", "decide"}
             /\ check[c].pc = "decide" => check[c].window \in DOMAIN heap
  BY <1>1, <1>3 DEF ChecksInv, CheckRecords
<1>6. cleaner.pc \in {"idle", "prune", "reclaim"} /\ cleaner.tracked \cup cleaner.reclaim \subseteq {i \in Ids : windows[i] # 0}
  <2>1. cleaner \in CleanerRecords
    BY <1>1 DEF CleanerInv
  <2>2. cleaner.pc \in {"idle", "prune", "reclaim"} /\ cleaner.tracked \subseteq Ids /\ cleaner.reclaim \subseteq Ids
    BY <2>1 DEF CleanerRecords
  <2> QED
    BY <1>1, <2>2 DEF CleanerInv
<1> QED
  BY <1>2, <1>4, <1>5, <1>6 DEF LimiterTypeOK

\* The map of callers keeps its bound.
Room == Cardinality(DOMAIN clients) <= MaxTracked

LEMMA RoomStays ==
    ASSUME PenaltiesInv, Room, DOMAIN clients' \subseteq DOMAIN clients
    PROVE  Room'
<1>1. IsFiniteSet(DOMAIN clients)
  BY ThrottleAssumption, FS_Subset DEF PenaltiesInv
<1>2. IsFiniteSet(DOMAIN clients') /\ Cardinality(DOMAIN clients') <= Cardinality(DOMAIN clients)
  BY <1>1, FS_Subset
<1>3. Cardinality(DOMAIN clients) \in Nat /\ Cardinality(DOMAIN clients') \in Nat /\ MaxTracked \in Nat
  BY <1>1, <1>2, FS_CardinalityType, ThrottleAssumption
<1> QED
  BY <1>2, <1>3 DEF Room

LEMMA EnrolledHasRoom ==
    ASSUME PenaltiesInv, Room, NEW c \in Clients, DOMAIN clients' = DOMAIN Enrolled(c)
    PROVE  Room'
<1> DEFINE p == Pruned
           e == Enrolled(c)
<1>1. DOMAIN p \subseteq DOMAIN clients /\ IsFiniteSet(DOMAIN p)
  BY PrunedIs, ThrottleAssumption, FS_Subset DEF PenaltiesInv
<1>2. e = p \/ (~(Cardinality(DOMAIN p) >= MaxTracked) /\ DOMAIN e = DOMAIN p \cup {c})
  BY DEF Enrolled
<1> HIDE DEF p, e
<1>3. CASE e = p
  BY <1>1, <1>3, RoomStays DEF e
<1>4. CASE ~(Cardinality(DOMAIN p) >= MaxTracked) /\ DOMAIN e = DOMAIN p \cup {c}
  <2> DEFINE n == Cardinality(DOMAIN p)
             m == Cardinality(DOMAIN p \cup {c})
  <2>1. n \in Nat /\ (m = n \/ m = n + 1) /\ MaxTracked \in Nat
    BY <1>1, FS_CardinalityType, FS_AddElement, ThrottleAssumption
  <2>2. ~(n >= MaxTracked)
    BY <1>4
  <2> HIDE DEF n, m
  <2>3. m <= MaxTracked
    BY <2>1, <2>2
  <2> QED
    BY <1>4, <2>3 DEF Room, m, e
<1> QED
  BY <1>2, <1>3, <1>4

LEMMA RoomKeeps == ThrottleInv /\ Room /\ [ThrottleNext]_throttleVars => Room'
<1> SUFFICES ASSUME ThrottleInv, Room, [ThrottleNext]_throttleVars PROVE Room'
  OBVIOUS
<1>1. PenaltiesInv
  BY DEF ThrottleInv
<1>2. CASE clients' = clients
  BY <1>2 DEF Room
<1>3. ASSUME NEW c \in Clients, RecordFailure(c) PROVE Room'
  <2>1. clients' = clients \/ DOMAIN clients' = DOMAIN Enrolled(c)
    BY <1>3 DEF RecordFailure
  <2> QED
    BY <1>1, <1>2, <2>1, EnrolledHasRoom
<1>4. ASSUME NEW c \in Clients, RecordSuccess(c) PROVE Room'
  <2>1. DOMAIN clients' \subseteq DOMAIN clients
    BY <1>4 DEF RecordSuccess
  <2> QED
    BY <1>1, <2>1, RoomStays
<1>5. CASE ThrottleNext
  BY <1>2, <1>3, <1>4, <1>5 DEF ThrottleNext, Admit, Unjudged, Tick
<1>6. CASE UNCHANGED throttleVars
  BY <1>2, <1>6 DEF throttleVars
<1> QED
  BY <1>5, <1>6

LEMMA ThrottleShape == ThrottleInv /\ Room => ThrottleTypeOK
<1> SUFFICES ASSUME ThrottleInv, Room PROVE ThrottleTypeOK
  OBVIOUS
<1>1. GuessersInv /\ GatesInv /\ PenaltiesInv
  BY DEF ThrottleInv
<1>2. clock \in 1..MaxClock /\ clock \in Nat /\ MaxClock \in Nat /\ GlobalThreshold \in Nat
  BY <1>1, CallerNumbers, ThrottleNumbers
<1>3. ASSUME NEW c \in DOMAIN clients
      PROVE  clients[c] \in [failures : Nat \ {0}, lastFailure : 1..clock, blockedUntil : Nat]
  <2>1. clients[c] \in ClientRecords /\ clients[c].lastFailure <= clock
    BY <1>1 DEF PenaltiesInv, HeldBack
  <2>2. clients[c].lastFailure \in 1..MaxClock
    BY <2>1 DEF ClientRecords
  <2>3. clients[c].lastFailure \in 1..clock
    BY <1>2, <2>1, <2>2
  <2> QED
    BY <2>1, <2>3 DEF ClientRecords
<1>4. gates \in [Gates -> [windowStart : 1..clock, failures : 0..GlobalThreshold-1, cooldownUntil : Nat]]
  <2>1. gates \in [Gates -> GateRecords]
    BY <1>1 DEF GatesInv
  <2>2. ASSUME NEW g \in Gates
        PROVE  gates[g] \in [windowStart : 1..clock, failures : 0..GlobalThreshold-1, cooldownUntil : Nat]
    <3>1. gates[g] \in GateRecords /\ gates[g].windowStart <= clock
      BY <1>1, <2>1 DEF GatesInv
    <3>2. gates[g].windowStart \in 1..MaxClock
      BY <3>1 DEF GateRecords
    <3>3. gates[g].windowStart \in 1..clock
      BY <1>2, <3>1, <3>2
    <3> QED
      BY <3>1, <3>3 DEF GateRecords
  <2> QED
    BY <2>1, <2>2
<1>5. verifying \in [Clients -> Nat] /\ Verifying <= MaxVerifying /\ failed \in [Gates -> [1..MaxClock -> Nat]]
  <2>1. Verifying = Amount(verifying, Clients)
    BY <1>1, CallerNumbers, AmountIs DEF Verifying
  <2> QED
    BY <1>1, <2>1 DEF GuessersInv
<1> QED
  BY <1>1, <1>2, <1>3, <1>4, <1>5 DEF ThrottleTypeOK, PenaltiesInv, Room

-----------------------------------------------------------------------------
(* The components beside each other: what one of them does, the others do  *)
(* not see.                                                                *)
LEMMA EditorsStep ==
    ASSUME [Next]_vars
    PROVE  /\ [SettingsNext]_settingsVars /\ [RecordsNext]_recordVars /\ [GroupsNext]_groupVars
<1>1. CASE DoorsNext \/ DiskNext \/ UNCHANGED vars
  <2>1. editVars' = editVars
    BY <1>1 DEF DoorsNext, DiskNext, vars
  <2>2. QED
    BY <2>1 DEF editVars
<1>2. CASE EditsNext
  BY <1>2 DEF EditsNext
<1>3. QED
  BY <1>1, <1>2 DEF Next

(* A save that committed later is never rolled back, however many operators *)
(* save at once (handlers/admin.go:134-138).                               *)
THEOREM SettingsOnlyGrow == Spec => NeverRolledBack
<1>1. Init => SettingsInv
  BY SettingsStart DEF Init
<1>2. SettingsInv /\ [Next]_vars => SettingsInv'
  BY EditorsStep, SettingsKeep
<1>3. SettingsInv /\ [Next]_vars => [boots' = boots => runtime'.revision >= runtime.revision]_settingsVars
  BY EditorsStep, SettingsKeep
<1>4. QED
  BY <1>1, <1>2, <1>3, PTL DEF Spec, NeverRolledBack

(* Whatever the console edits agrees with itself, for any number of        *)
(* channels, keys, groups and tokens (db/upstream_keys.go:276-283,         *)
(* db/group.go:160-222).                                                   *)
THEOREM EditsAgree == Spec => []RecordsAgree
<1>1. Init => RecordsInv /\ GroupsInv
  BY RecordsStart, GroupsStart DEF Init
<1>2. RecordsInv /\ GroupsInv /\ [Next]_vars => RecordsInv' /\ GroupsInv'
  BY EditorsStep, RecordsKeep, GroupsKeep
<1>3. RecordsInv /\ GroupsInv => RecordsAgree
  BY UpAgrees, GroupsHold DEF RecordsAgree, MirrorIsFirstKey, MirrorsAgree
<1>4. QED
  BY <1>1, <1>2, <1>3, PTL DEF Spec

LEMMA DisksStep ==
    ASSUME [Next]_vars
    PROVE  [SecretsNext]_secretVars /\ [ImagesNext]_imageVars /\ [FilesNext]_fileVars
<1>1. CASE DoorsNext \/ EditsNext \/ UNCHANGED vars
  <2>1. diskVars' = diskVars
    BY <1>1 DEF DoorsNext, EditsNext, vars
  <2>2. QED
    BY <2>1 DEF diskVars
<1>2. CASE DiskNext
  BY <1>2 DEF DiskNext
<1>3. QED
  BY <1>1, <1>2 DEF Next

(* What is on disk survives whoever dies writing it, for any credentials,  *)
(* keys, backups, images and runs (db/secret.go:125-185,                   *)
(* imagestore/store.go:168-201, localfile/file.go:123-177).                *)
THEOREM DiskStaysWhole == Spec => []DiskIsWhole
<1>1. Init => SecretsInv /\ ImagesInv /\ FilesInv
  BY SecretsStart, ImagesStart, FilesStart DEF Init
<1>2. SecretsInv /\ ImagesInv /\ FilesInv /\ [Next]_vars => SecretsInv' /\ ImagesInv' /\ FilesInv'
  BY DisksStep, SecretsKeep, ImagesKeep, FilesKeep
<1>3. SecretsInv /\ ImagesInv /\ FilesInv => DiskIsWhole
  BY SecretsHold DEF DiskIsWhole, ImagesInv, FilesInv
<1>4. QED
  BY <1>1, <1>2, <1>3, PTL DEF Spec

LEMMA RequestsStep ==
    ASSUME [Next]_vars
    PROVE  /\ [ThrottleNext]_throttleVars /\ [LimiterNext]_limiterVars
           /\ [RoutingNext]_routeVars /\ [ResponsesNext]_responseVars
<1>1. CASE EditsNext \/ DiskNext \/ UNCHANGED vars
  <2>1. doorVars' = doorVars
    BY <1>1 DEF EditsNext, DiskNext, vars
  <2>2. QED
    BY <2>1 DEF doorVars
<1>2. CASE DoorsNext
  BY <1>2 DEF DoorsNext
<1>3. QED
  BY <1>1, <1>2 DEF Next

(* A request is drawn from better to worse channels of its token's group   *)
(* and a stored response goes only to the account that made it for that    *)
(* token, for any routing table, keys, providers and edits                 *)
(* (proxy/matcher.go:303-457, db/response.go:41-58).                       *)
THEOREM RequestsStayRouted == Spec => []RequestsAreRouted
<1>1. Init => RoutingInv /\ IInv
  BY RoutingStart, InitIInv DEF Init, OneRoute
<1>2. RoutingInv /\ IInv /\ [Next]_vars => RoutingInv' /\ IInv'
  BY RequestsStep, RoutingKeeps, NextIInv
<1>3. IInv => ResponsesStayHome
  BY DEF IInv, RowsInv, CallersInv, Rightful, Bound, Sent, ResponsesStayHome
<1>4. RoutingInv /\ IInv => RequestsAreRouted
  BY <1>3, RoutingHolds DEF RequestsAreRouted
<1>5. QED
  BY <1>1, <1>2, <1>4, PTL DEF Spec

(* A window admits less than its limit in the span that limit names,       *)
(* counted to the moment, for any clock, windows, limits, checks and       *)
(* cleanups in between (ratelimit/limiter.go:75-98, 149-163, 194-224).     *)
THEOREM WindowsStayStrict == Spec => WindowsAreStrict
<1>1. Init => LimiterInv
  BY LimiterStart DEF Init
<1>2. LimiterInv /\ [Next]_vars => LimiterInv'
  BY RequestsStep, LimiterKeeps
<1>3. LimiterInv => [\A c \in Checks : Decide(c) /\ Admits(c) =>
                       Precise(Asked(c).seen) < check[c].limit.requests]_limiterVars
  BY AdmissionsAreFew
<1>4. QED
  BY <1>1, <1>2, <1>3, PTL DEF Spec, WindowsAreStrict

(* No penalty ends before its time and no more wrong tokens are verified in *)
(* the span of a gate's window than its rounds let through, for any callers *)
(* verified at once, windows, thresholds and delays                         *)
(* (authstate/throttle.go:143-167, 183-232, 262-274).                       *)
THEOREM GuessersStayHeldBack == Spec => GuessersAreHeldBack
<1>1. Init => ThrottleInv
  BY ThrottleStart DEF Init
<1>2. ThrottleInv /\ [Next]_vars => ThrottleInv' /\ [KeepsPenalties]_throttleVars
  BY RequestsStep, ThrottleKeeps
<1>3. ThrottleInv => GuessesAreBounded
  BY GuessesStayBounded
<1>4. ThrottleInv' => GuessesAreBounded'
  BY <1>3, PTL
<1>5. ThrottleInv /\ [Next]_vars => [KeepsPenalties /\ GuessesAreBounded']_throttleVars
  BY <1>2, <1>4
<1>6. QED
  BY <1>1, <1>2, <1>5, PTL DEF Spec, GuessersAreHeldBack

(* Every variable of the doors, of what the console edits and of what is on *)
(* disk keeps its shape: a window's total is that of its buckets, a gate    *)
(* counts below its threshold, and the map of callers stays in its bound    *)
(* (ratelimit/limiter.go:36-38, 126-150, authstate/throttle.go:190-199,     *)
(* 262-274).                                                                *)
THEOREM ConsoleTypesCorrect == Spec => []TypeOK
<1> DEFINE Doors == ThrottleInv /\ Room /\ LimiterInv /\ RoutingInv /\ IInv
           Edits == SettingsInv /\ RecordsInv /\ GroupsInv
           Disks == SecretsInv /\ ImagesInv /\ FilesInv
<1>1. ThrottleInit => Room
  <2> SUFFICES ASSUME ThrottleInit PROVE Room
    OBVIOUS
  <2>1. DOMAIN clients = {}
    BY DEF ThrottleInit
  <2> QED
    BY <2>1, FS_EmptySet, ThrottleAssumption DEF Room
<1>2. Init => Doors
  BY <1>1, ThrottleStart, LimiterStart, RoutingStart, InitIInv DEF Init, OneRoute
<1>3. Init => Edits
  BY SettingsStart, RecordsStart, GroupsStart DEF Init
<1>4. Init => Disks
  BY SecretsStart, ImagesStart, FilesStart DEF Init
<1>5. Doors /\ [Next]_vars => Doors'
  BY RequestsStep, ThrottleKeeps, RoomKeeps, LimiterKeeps, RoutingKeeps, NextIInv
<1>6. Edits /\ [Next]_vars => Edits'
  BY EditorsStep, SettingsKeep, RecordsKeep, GroupsKeep
<1>7. Disks /\ [Next]_vars => Disks'
  BY DisksStep, SecretsKeep, ImagesKeep, FilesKeep
<1>8. IInv => ResponsesTypeOK
  BY ResponsesShape
<1>9. Doors /\ Edits /\ Disks => TypeOK
  BY <1>8, ThrottleShape, LimiterShape, RoutingShape, SettingsShape, RecordsShape, GroupsShape,
     SecretsShape, ImagesShape, FilesShape DEF TypeOK
<1>10. QED
  BY <1>2, <1>3, <1>4, <1>5, <1>6, <1>7, <1>9, PTL DEF Spec
=============================================================================

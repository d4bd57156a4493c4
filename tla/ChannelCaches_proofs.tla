------------------------ MODULE ChannelCaches_proofs ------------------------
(***************************************************************************)
(* No cache entry and no answer predates an acknowledged edit, for any     *)
(* number of editors, readers and groups.                                  *)
(***************************************************************************)
EXTENDS ChannelCaches, TLAPS

\* The tables a reader has read by the time it is at a step of its load.
Read(step) ==
    {t \in Tables : \/ step \in {"loaded", "routed"}
                    \/ step = "keys" /\ t # "keys"
                    \/ step = "membership" /\ t = "upstreams"}

Loading == Tables \cup {"loaded"}
Listing == {"listing", "list loaded", "setting"}

\* n includes every edit an Invalidate has announced to RoutingCache, or to
\* ModelsListCache.
Covered(n) ==
    /\ n >= acked
    /\ \A e \in Editors : epc[e] = "announced" => n >= wrote[e]
ListCovered(n) ==
    /\ n >= acked
    /\ \A e \in Editors : epc[e] \in {"listed", "announced"} => n >= wrote[e]

\* Edits are answered after they commit; readers begin after that.
EditInv ==
    /\ acked <= db
    /\ \A e \in Editors : wrote[e] <= db
    /\ \A r \in Readers : floor[r] <= acked

\* Every edit committed is answered or on its way to the caches, unless a handler
\* gave up.
InProgress == {"reloading", "importing", "committed", "listed", "announced"}
Pending == failures = 0 =>
             acked = db \/ \E e \in Editors : epc[e] \in InProgress /\ wrote[e] = db

CacheInv ==
    /\ value # Nothing => \A t \in Tables : value[t] \in acked..db
    /\ \A g \in Groups : byGroup[g] # Nothing =>
                           byGroup[g] \in acked..db /\ ListCovered(byGroup[g])

\* A load whose revision still stands has read what the revision announced.
LoadInv ==
    \A r \in Readers :
        /\ \A t \in Read(pc[r]) : view[r][t] \in floor[r]..db
        /\ pc[r] \in Loading => observed[r] <= rev
        /\ pc[r] \in Loading /\ observed[r] = rev =>
             \A t \in Read(pc[r]) : Covered(view[r][t])

ListInv ==
    \A r \in Readers :
        /\ pc[r] \in {"list loaded", "setting", "listed"} => list[r] \in floor[r]..db
        /\ pc[r] \in Listing => observed[r] <= mrev
        /\ pc[r] \in {"list loaded", "setting"} /\ observed[r] = mrev => ListCovered(list[r])

IInv == TypeOK /\ EditInv /\ Pending /\ CacheInv /\ LoadInv /\ ListInv

(* Caches start empty and nothing is in flight.                             *)
LEMMA InitIInv == Init => IInv
<1> SUFFICES ASSUME Init PROVE IInv
  OBVIOUS
<1>0. MaxWrites \in Nat /\ MaxFailures \in Nat
  BY CachesAssumption
<1>1. TypeOK
  BY <1>0 DEF Init, TypeOK, EditType, CacheType, ReadType, Unread
<1>2. EditInv /\ Pending
  BY DEF Init, EditInv, Pending
<1>3. CacheInv
  BY DEF Init, CacheInv
<1>4. LoadInv /\ ListInv
  BY DEF Init, LoadInv, ListInv, Read, Loading, Listing, Tables
<1>5. QED
  BY <1>1, <1>2, <1>3, <1>4 DEF IInv

-----------------------------------------------------------------------------
(* Edits: what they leave alone, and how they move.                         *)

(* An edit touches no reader.                                               *)
LEMMA EditFrame ==
    ASSUME NEW e \in Editors, Edit(e)
    PROVE  UNCHANGED readVars
BY DEF Edit, UpdateChannel, CreateOrDelete, ImportChannel, CommitTo, ImportDone, Reload,
   ReloadFails, RenameGroup, InvalidateModels, AdvanceRevision, DropSnapshot

(* A reader touches no edit and neither revision.                           *)
LEMMA ReaderFrame ==
    ASSUME NEW r \in Readers, Route(r) \/ ListModels(r)
    PROVE  UNCHANGED <<editVars, rev, mrev>>
BY DEF Route, Get, Observe, ListEnabledUpstreams, UpstreamGroupMembership,
   ListEnabledUpstreamKeys, Query, QueryFails, Publish, ListModels, ListGet, ListObserve,
   ListEnabledUpstreamsInGroup, ListQueryFails, ListGetAgain, ListSet, CachedList, cacheVars

(* The counters are natural numbers.                                        *)
LEMMA Counters ==
    ASSUME TypeOK
    PROVE  /\ db \in Nat /\ acked \in Nat /\ rev \in Nat /\ mrev \in Nat
           /\ \A e \in Editors : wrote[e] \in Nat
           /\ \A r \in Readers : floor[r] \in Nat /\ observed[r] \in Nat
<1>1. MaxWrites \in Nat
  BY CachesAssumption
<1>2. db \in Nat /\ acked \in Nat
  BY <1>1 DEF TypeOK, EditType
<1>3. \A e \in Editors : wrote[e] \in Nat
  <2>1. wrote \in [Editors -> 0..MaxWrites]
    BY DEF TypeOK, EditType
  <2>2. QED
    BY <1>1, <2>1
<1>4. \A r \in Readers : floor[r] \in Nat
  <2>1. floor \in [Readers -> 0..MaxWrites]
    BY DEF TypeOK, ReadType
  <2>2. QED
    BY <1>1, <2>1
<1>5. rev \in Nat /\ mrev \in Nat /\ \A r \in Readers : observed[r] \in Nat
  BY DEF TypeOK, CacheType, ReadType
<1>6. QED
  BY <1>2, <1>3, <1>4, <1>5

(* Every step keeps the types: a snapshot is published with all its tables  *)
(* read (getOrLoad), a list once it was loaded (ListModelsHandler).         *)
LEMMA TypeStep == IInv /\ [Next]_vars => TypeOK'
<1> SUFFICES ASSUME IInv, [Next]_vars PROVE TypeOK'
  OBVIOUS
<1>0. MaxWrites \in Nat /\ MaxFailures \in Nat /\ EditType /\ CacheType /\ ReadType
  BY CachesAssumption DEF IInv, TypeOK
<1>1. ASSUME NEW e \in Editors, Edit(e) PROVE TypeOK'
  <2>1. ReadType'
    BY <1>0, <1>1, EditFrame DEF ReadType, readVars
  <2>2. EditType'
    BY <1>0, <1>1 DEF EditType, Edit, UpdateChannel, CreateOrDelete, ImportChannel,
       CommitTo, EditorMoves, ImportDone, Reload, ReloadFails, RenameGroup,
       InvalidateModels, AdvanceRevision, DropSnapshot
  <2>3. CacheType'
    BY <1>0, <1>1 DEF CacheType, Edit, UpdateChannel, CreateOrDelete, ImportChannel,
       CommitTo, ImportDone, Reload, ReloadFails, RenameGroup, InvalidateModels,
       AdvanceRevision, DropSnapshot, cacheVars
  <2>4. QED
    BY <2>1, <2>2, <2>3 DEF TypeOK
<1>2. ASSUME NEW r \in Readers, Route(r) PROVE TypeOK'
  <2>1. EditType'
    BY <1>0, <1>2, ReaderFrame DEF EditType, editVars
  <2>2. CacheType'
    <3>1. CASE Publish(r) /\ value = Nothing /\ rev = observed[r]
      <4>1. pc[r] = "loaded" /\ value' = view[r] /\ UNCHANGED <<rev, byGroup, mrev>>
        BY <3>1 DEF Publish, ReaderMoves
      <4>2. \A t \in Tables : view[r][t] \in floor[r]..db
        BY <4>1 DEF IInv, LoadInv, Read
      <4>3. view[r] \in Snapshots
        <5>1. floor[r] \in Nat /\ db \in Nat /\ view[r] \in [Tables -> Int]
          BY <1>0, Counters DEF IInv, ReadType
        <5>2. \A t \in Tables : view[r][t] \in Nat
          BY <4>2, <5>1
        <5>3. QED
          BY <5>1, <5>2 DEF Snapshots
      <4>4. QED
        BY <1>0, <4>1, <4>3 DEF CacheType
    <3>2. CASE ~(Publish(r) /\ value = Nothing /\ rev = observed[r])
      <4>1. UNCHANGED cacheVars
        BY <1>2, <3>2 DEF Route, Get, Observe, ListEnabledUpstreams,
           UpstreamGroupMembership, ListEnabledUpstreamKeys, Query, QueryFails, Publish,
           cacheVars
      <4>2. QED
        BY <1>0, <4>1 DEF CacheType, cacheVars
    <3>3. QED
      BY <3>1, <3>2
  <2>3. ReadType'
    <3> USE DEF Route, Get, Observe, ListEnabledUpstreams, UpstreamGroupMembership,
       ListEnabledUpstreamKeys, Query, QueryFails, Publish
    <3>1. pc' \in [Readers -> Tables \cup {"idle", "missed", "loaded", "again", "routed",
                      "list missed", "listing", "list loaded", "setting", "listed", "failed"}]
      BY <1>0, <1>2 DEF ReadType, ReaderMoves, Tables
    <3>2. observed' \in [Readers -> Nat] /\ floor' \in [Readers -> 0..MaxWrites]
      BY <1>0, <1>2 DEF ReadType, CacheType, EditType
    <3>3. view' \in [Readers -> [Tables -> Int]]
      <4>1. view \in [Readers -> [Tables -> Int]] /\ db \in Int
        <5>1. db \in Int
          BY Counters DEF IInv
        <5>2. view \in [Readers -> [Tables -> Int]]
          BY <1>0 DEF ReadType
        <5>3. QED
          BY <5>1, <5>2
      <4>2. Unread \in [Tables -> Int]
        BY DEF Unread
      <4>3. value # Nothing => value \in [Tables -> Int]
        BY <1>0 DEF CacheType, Snapshots
      <4>4. ASSUME pc[r] \in Tables, view' = [view EXCEPT ![r][pc[r]] = db]
            PROVE  view' \in [Readers -> [Tables -> Int]]
        <5>1. [view[r] EXCEPT ![pc[r]] = db] \in [Tables -> Int]
          BY <4>1, <4>4
        <5>2. QED
          BY <4>1, <4>4, <5>1
      <4>5. QED
        BY <1>2, <4>1, <4>2, <4>3, <4>4 DEF ReaderMoves
    <3>4. list' = list /\ group' = group
      BY <1>2
    <3>5. QED
      BY <1>0, <3>1, <3>2, <3>3, <3>4 DEF ReadType
  <2>4. QED
    BY <2>1, <2>2, <2>3 DEF TypeOK
<1>3. ASSUME NEW r \in Readers, ListModels(r) PROVE TypeOK'
  <2>1. EditType'
    BY <1>0, <1>3, ReaderFrame DEF EditType, editVars
  <2>2. CacheType'
    <3>1. CASE ListSet(r)
      <4>1. list[r] \in floor[r]..db
        BY <3>1 DEF IInv, ListInv, ListSet, ReaderMoves
      <4>2. list[r] \in Nat
        BY <1>0, <4>1, Counters DEF IInv
      <4>3. QED
        BY <1>0, <3>1, <4>2 DEF CacheType, ListSet
    <3>2. CASE ~ListSet(r)
      <4>1. UNCHANGED cacheVars
        BY <1>3, <3>2 DEF ListModels, ListGet, ListObserve, ListEnabledUpstreamsInGroup,
           ListQueryFails, ListGetAgain, CachedList
      <4>2. QED
        BY <1>0, <4>1 DEF CacheType, cacheVars
    <3>3. QED
      BY <3>1, <3>2
  <2>3. ReadType'
    <3> USE DEF ListModels, ListGet, ListObserve, ListEnabledUpstreamsInGroup,
       ListQueryFails, ListGetAgain, ListSet, CachedList
    <3>1. pc' \in [Readers -> Tables \cup {"idle", "missed", "loaded", "again", "routed",
                      "list missed", "listing", "list loaded", "setting", "listed", "failed"}]
      BY <1>0, <1>3 DEF ReadType, ReaderMoves, Tables
    <3>2. observed' \in [Readers -> Nat] /\ floor' \in [Readers -> 0..MaxWrites]
      BY <1>0, <1>3 DEF ReadType, CacheType, EditType
    <3>3. list' \in [Readers -> Int]
      <4>1. list \in [Readers -> Int] /\ db \in Int /\ group[r] \in Groups
        <5>1. db \in Int
          BY Counters DEF IInv
        <5>2. list \in [Readers -> Int] /\ group[r] \in Groups
          BY <1>0 DEF ReadType
        <5>3. QED
          BY <5>1, <5>2
      <4>2. byGroup[group[r]] # Nothing => byGroup[group[r]] \in Int
        BY <1>0, <4>1 DEF CacheType
      <4>3. QED
        BY <1>3, <4>1, <4>2 DEF Serve
    <3>4. view' = view /\ group' = group
      BY <1>3
    <3>5. QED
      BY <1>0, <3>1, <3>2, <3>3, <3>4 DEF ReadType
  <2>4. QED
    BY <2>1, <2>2, <2>3 DEF TypeOK
<1>4. CASE UNCHANGED vars
  BY <1>0, <1>4 DEF vars, editVars, cacheVars, readVars, TypeOK, EditType, CacheType,
     ReadType
<1>5. QED
  BY <1>1, <1>2, <1>3, <1>4 DEF Next
-----------------------------------------------------------------------------
(* Edits and the caches.                                                    *)

(* Commits raise db past what they record; an answer acknowledges no more   *)
(* than was committed, and a reader begins with what is acknowledged.       *)
LEMMA EditStep == IInv /\ [Next]_vars => EditInv'
<1> SUFFICES ASSUME IInv, [Next]_vars PROVE EditInv'
  OBVIOUS
<1>0. /\ TypeOK /\ EditInv /\ EditType /\ ReadType
      /\ db \in Nat /\ acked \in Nat /\ \A e \in Editors : wrote[e] \in Nat
      /\ \A r \in Readers : floor[r] \in Nat
  BY Counters DEF IInv, TypeOK
<1>1. ASSUME NEW e \in Editors, Edit(e) PROVE EditInv'
  <2>1. floor' = floor
    BY <1>1, EditFrame DEF readVars
  <2>2. CASE \E step : CommitTo(e, step)
    <3>1. /\ db' = db + 1 /\ acked' = acked
          /\ wrote' = [wrote EXCEPT ![e] = db + 1]
      BY <2>2 DEF CommitTo
    <3>2. \A f \in Editors : wrote'[f] <= db'
      BY <1>0, <3>1 DEF EditInv, EditType
    <3>3. QED
      BY <1>0, <2>1, <3>1, <3>2 DEF EditInv
  <2>3. CASE DropSnapshot(e)
    <3>1. /\ db' = db /\ wrote' = wrote
          /\ acked' = IF wrote[e] > acked THEN wrote[e] ELSE acked
      BY <2>3 DEF DropSnapshot
    <3>2. QED
      BY <1>0, <2>1, <3>1 DEF EditInv
  <2>4. CASE UNCHANGED <<db, wrote, acked>>
    BY <1>0, <2>1, <2>4 DEF EditInv
  <2>5. QED
    BY <1>1, <2>2, <2>3, <2>4 DEF Edit, UpdateChannel, CreateOrDelete, ImportChannel,
       ImportDone, Reload, ReloadFails, RenameGroup, InvalidateModels, AdvanceRevision
<1>2. ASSUME NEW r \in Readers, Route(r) \/ ListModels(r) PROVE EditInv'
  <2>1. UNCHANGED <<db, wrote, acked>>
    BY <1>2, ReaderFrame DEF editVars
  <2>2. floor' = floor \/ floor' = [floor EXCEPT ![r] = acked]
    BY <1>2 DEF Route, Get, Observe, ListEnabledUpstreams, UpstreamGroupMembership,
       ListEnabledUpstreamKeys, Query, QueryFails, Publish, ListModels, ListGet,
       ListObserve, ListEnabledUpstreamsInGroup, ListQueryFails, ListGetAgain, ListSet
  <2>3. \A q \in Readers : floor'[q] = floor[q] \/ floor'[q] = acked
    BY <1>0, <2>2 DEF ReadType
  <2>4. QED
    BY <1>0, <2>1, <2>3 DEF EditInv
<1>3. CASE UNCHANGED vars
  BY <1>0, <1>3 DEF vars, editVars, readVars, EditInv
<1>4. QED
  BY <1>1, <1>2, <1>3 DEF Next

(* While no handler gives up, the latest commit is answered or still has    *)
(* its Invalidate to come.                                                  *)
LEMMA PendingStep == IInv /\ [Next]_vars => Pending'
<1> SUFFICES ASSUME IInv, [Next]_vars, failures' = 0
             PROVE  acked' = db' \/ \E e \in Editors : epc'[e] \in InProgress /\ wrote'[e] = db'
  BY DEF Pending
<1>0. /\ EditInv /\ Pending /\ EditType /\ db \in Nat /\ acked \in Nat
      /\ \A e \in Editors : wrote[e] \in Nat
      /\ epc \in [Editors -> {"idle", "importing", "reloading", "committed", "renamed",
                              "listed", "announced"}]
  BY Counters DEF IInv, TypeOK, EditType
<1>1. ASSUME NEW e \in Editors, CommitTo(e, "reloading") \/ CommitTo(e, "committed")
                                  \/ CommitTo(e, "importing")
      PROVE  epc'[e] \in InProgress /\ wrote'[e] = db'
  BY <1>0, <1>1 DEF CommitTo, EditType, InProgress
<1>2. ASSUME NEW e \in Editors, DropSnapshot(e)
      PROVE  acked' = db' \/ \E f \in Editors : epc'[f] \in InProgress /\ wrote'[f] = db'
  <2>1. /\ db' = db /\ wrote' = wrote /\ failures' = failures
        /\ acked' = IF wrote[e] > acked THEN wrote[e] ELSE acked
        /\ epc' = [epc EXCEPT ![e] = "idle"]
    BY <1>2 DEF DropSnapshot, EditorMoves
  <2>2. acked <= db /\ wrote[e] <= db
    BY <1>0 DEF EditInv
  <2>3. CASE wrote[e] = db \/ acked = db
    BY <1>0, <2>1, <2>2, <2>3
  <2>4. CASE wrote[e] # db /\ acked # db
    <3>1. PICK f \in Editors : epc[f] \in InProgress /\ wrote[f] = db
      BY <1>0, <2>1, <2>4 DEF Pending
    <3>2. f # e /\ epc'[f] = epc[f]
      BY <1>0, <2>1, <2>4, <3>1
    <3>3. QED
      BY <2>1, <3>1, <3>2
  <2>5. QED
    BY <2>3, <2>4
<1>3. ASSUME NEW e \in Editors, Edit(e), UNCHANGED <<db, wrote, acked, failures>>
      PROVE  acked' = db' \/ \E f \in Editors : epc'[f] \in InProgress /\ wrote'[f] = db'
  <2>1. ~ReloadFails(e)
    BY <1>3 DEF ReloadFails, TypeOK, EditType, IInv
  <2>2. epc[e] \in InProgress /\ ~DropSnapshot(e) => epc'[e] \in InProgress
    BY <1>0, <1>3, <2>1 DEF InProgress, Edit, UpdateChannel, CreateOrDelete,
       ImportChannel, CommitTo, ImportDone, Reload, RenameGroup, InvalidateModels,
       AdvanceRevision, EditorMoves
  <2>3. \A f \in Editors : f # e => epc'[f] = epc[f]
    BY <1>0, <1>3 DEF Edit, UpdateChannel, CreateOrDelete, ImportChannel, CommitTo,
       ImportDone, Reload, ReloadFails, RenameGroup, InvalidateModels, AdvanceRevision,
       DropSnapshot, EditorMoves
  <2>4. QED
    BY <1>0, <1>2, <1>3, <2>2, <2>3 DEF Pending
<1>4. ASSUME NEW e \in Editors, Edit(e)
      PROVE  acked' = db' \/ \E f \in Editors : epc'[f] \in InProgress /\ wrote'[f] = db'
  <2>1. CASE ReloadFails(e)
    BY <2>1, <1>0 DEF ReloadFails, EditType
  <2>2. CASE ~ReloadFails(e)
    BY <1>1, <1>2, <1>3, <1>4, <2>2 DEF Edit, UpdateChannel, CreateOrDelete,
       ImportChannel, ImportDone, Reload, RenameGroup, InvalidateModels, AdvanceRevision
  <2>3. QED
    BY <2>1, <2>2
<1>5. CASE UNCHANGED editVars
  BY <1>0, <1>5 DEF editVars, Pending
<1>6. QED
  BY <1>4, <1>5, ReaderFrame DEF Next, vars
(* Announcing an edit, and answering it, asks no more of data that the      *)
(* previous steps covered.                                                  *)
LEMMA CoveredKept ==
    ASSUME IInv, NEW e \in Editors, Edit(e), NEW n \in Nat
    PROVE  /\ Covered(n) /\ ~AdvanceRevision(e) => Covered(n)'
           /\ ListCovered(n) /\ ~InvalidateModels(e) => ListCovered(n)'
<1>0. /\ acked \in Nat /\ \A f \in Editors : wrote[f] \in Nat
      /\ epc \in [Editors -> {"idle", "importing", "reloading", "committed", "renamed",
                              "listed", "announced"}]
      /\ DOMAIN wrote = Editors
  BY Counters DEF IInv, TypeOK, EditType
<1>1. CASE \E step \in {"reloading", "committed", "importing"} : CommitTo(e, step)
  <2>1. PICK step \in {"reloading", "committed", "importing"} : CommitTo(e, step)
    BY <1>1
  <2>2. acked' = acked /\ epc'[e] = step /\ \A f \in Editors : f # e =>
          epc'[f] = epc[f] /\ wrote'[f] = wrote[f]
    BY <1>0, <2>1 DEF CommitTo
  <2>3. QED
    BY <2>1, <2>2 DEF Covered, ListCovered
<1>2. CASE DropSnapshot(e)
  <2>1. /\ wrote' = wrote /\ epc[e] = "announced" /\ epc'[e] = "idle"
        /\ acked' = IF wrote[e] > acked THEN wrote[e] ELSE acked
        /\ \A f \in Editors : f # e => epc'[f] = epc[f]
    BY <1>0, <1>2 DEF DropSnapshot, EditorMoves
  <2>2. QED
    BY <2>1 DEF Covered, ListCovered
<1>3. CASE AdvanceRevision(e)
  <2>1. /\ wrote' = wrote /\ acked' = acked /\ epc[e] = "listed"
        /\ \A f \in Editors : f # e => epc'[f] = epc[f]
    BY <1>0, <1>3 DEF AdvanceRevision, EditorMoves
  <2>2. QED
    BY <1>3, <2>1 DEF ListCovered
<1>4. CASE InvalidateModels(e)
  <2>1. /\ wrote' = wrote /\ acked' = acked /\ epc'[e] \in {"listed", "idle"}
        /\ \A f \in Editors : f # e => epc'[f] = epc[f]
    BY <1>0, <1>4 DEF InvalidateModels, EditorMoves
  <2>2. QED
    BY <1>4, <2>1 DEF Covered
<1>5. CASE ImportDone(e) \/ Reload(e) \/ ReloadFails(e) \/ RenameGroup(e)
  <2>1. /\ wrote' = wrote /\ acked' = acked /\ epc'[e] \in {"committed", "idle", "renamed"}
        /\ \A f \in Editors : f # e => epc'[f] = epc[f]
    BY <1>0, <1>5 DEF ImportDone, Reload, ReloadFails, RenameGroup, EditorMoves
  <2>2. QED
    BY <2>1 DEF Covered, ListCovered
<1>6. QED
  BY <1>1, <1>2, <1>3, <1>4, <1>5 DEF Edit, UpdateChannel, CreateOrDelete, ImportChannel

(* Edits only raise db and acked, and acked only when the snapshot goes.    *)
LEMMA EditMonotone ==
    ASSUME IInv, NEW e \in Editors, Edit(e)
    PROVE  /\ db' \in Nat /\ db' >= db /\ acked' \in Nat
           /\ acked' = acked \/ value' = Nothing
           /\ value' = value \/ value' = Nothing
           /\ InvalidateModels(e) => \A g \in Groups : byGroup'[g] = Nothing
           /\ ~InvalidateModels(e) => UNCHANGED <<byGroup, mrev>>
           /\ AdvanceRevision(e) => rev' = rev + 1
           /\ InvalidateModels(e) => mrev' = mrev + 1
           /\ ~AdvanceRevision(e) => rev' = rev
<1>0. db \in Nat /\ acked \in Nat /\ \A f \in Editors : wrote[f] \in Nat
  BY Counters DEF IInv
<1>1. QED
  BY <1>0 DEF Edit, UpdateChannel, CreateOrDelete, ImportChannel, CommitTo, ImportDone,
     Reload, ReloadFails, RenameGroup, InvalidateModels, AdvanceRevision, DropSnapshot,
     cacheVars

(* What was read stays within what is committed, and covered unless the     *)
(* revision moved.                                                          *)
LEMMA LoadEditStep ==
    ASSUME IInv, NEW e \in Editors, Edit(e)
    PROVE  LoadInv' /\ ListInv' /\ CacheInv'
<1>0. /\ UNCHANGED readVars /\ TypeOK /\ CacheInv /\ LoadInv /\ ListInv
      /\ db \in Nat /\ acked \in Nat /\ rev \in Nat /\ mrev \in Nat
      /\ \A r \in Readers : floor[r] \in Nat /\ observed[r] \in Nat
  BY EditFrame, Counters DEF IInv
<1>1. LoadInv'
  <2>1. ASSUME NEW r \in Readers, NEW t \in Read(pc[r])
        PROVE  /\ view[r][t] \in floor[r]..db' /\ view[r][t] \in Nat
    BY <1>0, <2>1, EditMonotone DEF LoadInv
  <2>2. ASSUME NEW r \in Readers, pc[r] \in Loading
        PROVE  observed[r] <= rev' /\ (observed[r] = rev' => rev' = rev /\ ~AdvanceRevision(e))
    BY <1>0, <2>2, EditMonotone DEF LoadInv
  <2>3. ASSUME NEW r \in Readers, pc[r] \in Loading, observed[r] = rev', NEW t \in Read(pc[r])
        PROVE  Covered(view[r][t])'
    <3>1. Covered(view[r][t]) /\ view[r][t] \in Nat /\ ~AdvanceRevision(e)
      BY <1>0, <2>1, <2>2, <2>3 DEF LoadInv
    <3>2. view' = view
      BY <1>0 DEF readVars
    <3>3. \A n \in Nat : Covered(n) => Covered(n)'
      BY <3>1, CoveredKept
    <3>4. QED
      BY <3>1, <3>2, <3>3 DEF Covered
  <2>4. QED
    BY <1>0, <2>1, <2>2, <2>3 DEF LoadInv, readVars, Read
<1>2. ListInv'
  <2>1. ASSUME NEW r \in Readers, pc[r] \in {"list loaded", "setting", "listed"}
        PROVE  list[r] \in floor[r]..db' /\ list[r] \in Nat
    <3>1. list[r] \in floor[r]..db
      BY <1>0, <2>1 DEF ListInv
    <3>2. QED
      BY <1>0, <3>1, EditMonotone
  <2>2. ASSUME NEW r \in Readers, pc[r] \in Listing
        PROVE  /\ observed[r] <= mrev'
               /\ observed[r] = mrev' => mrev' = mrev /\ ~InvalidateModels(e)
    <3>1. observed[r] <= mrev
      BY <1>0, <2>2 DEF ListInv
    <3>2. QED
      BY <1>0, <3>1, EditMonotone
  <2>3. ASSUME NEW r \in Readers, pc[r] \in {"list loaded", "setting"}, observed[r] = mrev'
        PROVE  ListCovered(list[r])'
    <3>1. ListCovered(list[r]) /\ list[r] \in Nat /\ ~InvalidateModels(e)
      BY <1>0, <2>1, <2>2, <2>3 DEF ListInv, Listing
    <3>2. list' = list
      BY <1>0 DEF readVars
    <3>3. \A n \in Nat : ListCovered(n) => ListCovered(n)'
      BY <3>1, CoveredKept
    <3>4. QED
      BY <3>1, <3>2, <3>3 DEF ListCovered
  <2>4. QED
    BY <1>0, <2>1, <2>2, <2>3 DEF ListInv, readVars
<1>3. CacheInv'
  <2>1. ASSUME value' # Nothing, NEW t \in Tables PROVE value'[t] \in acked'..db'
    <3>1. value' = value /\ acked' = acked /\ value # Nothing
      BY <2>1, EditMonotone
    <3>2. value[t] \in acked..db
      BY <1>0, <3>1 DEF CacheInv
    <3>3. QED
      BY <1>0, <3>1, <3>2, EditMonotone
  <2>2. ASSUME NEW g \in Groups, byGroup'[g] # Nothing
        PROVE  byGroup'[g] \in acked'..db' /\ ListCovered(byGroup[g])' /\ byGroup' = byGroup
    <3>1. ~InvalidateModels(e) /\ byGroup' = byGroup
      BY <2>2, EditMonotone
    <3>2. byGroup[g] \in acked..db /\ ListCovered(byGroup[g])
      BY <1>0, <2>2, <3>1 DEF CacheInv
    <3>3. \A n \in Nat : ListCovered(n) => ListCovered(n)'
      BY <3>1, CoveredKept
    <3>4. byGroup[g] \in Nat
      BY <1>0, <3>2
    <3>5. ListCovered(byGroup[g])'
      BY <3>1, <3>2, <3>3, <3>4 DEF ListCovered
    <3>6. QED
      BY <1>0, <3>1, <3>2, <3>4, <3>5, EditMonotone DEF ListCovered
  <2>3. QED
    BY <2>1, <2>2 DEF CacheInv
<1>4. QED
  BY <1>1, <1>2, <1>3
-----------------------------------------------------------------------------
(* Readers and the caches.                                                  *)

(* A reader moves itself alone.                                             *)
LEMMA OtherReaders ==
    ASSUME IInv, NEW r \in Readers, Route(r) \/ ListModels(r), NEW q \in Readers, q # r
    PROVE  /\ pc'[q] = pc[q] /\ observed'[q] = observed[q] /\ view'[q] = view[q]
           /\ list'[q] = list[q] /\ floor'[q] = floor[q]
<1>1. \/ pc' = pc
      \/ \E step : pc' = [pc EXCEPT ![r] = step]
  BY DEF Route, Get, Observe, ListEnabledUpstreams, UpstreamGroupMembership,
     ListEnabledUpstreamKeys, Query, QueryFails, Publish, ListModels, ListGet, ListObserve,
     ListEnabledUpstreamsInGroup, ListQueryFails, ListGetAgain, ListSet, CachedList,
     ReaderMoves
<1>2. \/ observed' = observed
      \/ \E n : observed' = [observed EXCEPT ![r] = n]
  BY DEF Route, Get, Observe, ListEnabledUpstreams, UpstreamGroupMembership,
     ListEnabledUpstreamKeys, Query, QueryFails, Publish, ListModels, ListGet, ListObserve,
     ListEnabledUpstreamsInGroup, ListQueryFails, ListGetAgain, ListSet, CachedList
<1>3. \/ view' = view
      \/ \E v : view' = [view EXCEPT ![r] = v]
      \/ view' = [view EXCEPT ![r][pc[r]] = db]
  BY DEF Route, Get, Observe, ListEnabledUpstreams, UpstreamGroupMembership,
     ListEnabledUpstreamKeys, Query, QueryFails, Publish, ListModels, ListGet, ListObserve,
     ListEnabledUpstreamsInGroup, ListQueryFails, ListGetAgain, ListSet, CachedList
<1>4. \/ list' = list
      \/ \E n : list' = [list EXCEPT ![r] = n]
  BY DEF Route, Get, Observe, ListEnabledUpstreams, UpstreamGroupMembership,
     ListEnabledUpstreamKeys, Query, QueryFails, Publish, ListModels, ListGet, ListObserve,
     ListEnabledUpstreamsInGroup, ListQueryFails, ListGetAgain, ListSet, CachedList, Serve
<1>5. floor' = floor \/ floor' = [floor EXCEPT ![r] = acked]
  BY DEF Route, Get, Observe, ListEnabledUpstreams, UpstreamGroupMembership,
     ListEnabledUpstreamKeys, Query, QueryFails, Publish, ListModels, ListGet, ListObserve,
     ListEnabledUpstreamsInGroup, ListQueryFails, ListGetAgain, ListSet
<1>6. /\ DOMAIN pc = Readers /\ DOMAIN observed = Readers /\ DOMAIN view = Readers
      /\ DOMAIN list = Readers /\ DOMAIN floor = Readers
  BY DEF IInv, TypeOK, ReadType
<1>7. QED
  BY <1>1, <1>2, <1>3, <1>4, <1>5, <1>6

(* What the database holds now includes every edit committed.               *)
LEMMA CoveredNow ==
    ASSUME IInv
    PROVE  Covered(db) /\ ListCovered(db)
BY DEF IInv, EditInv, Covered, ListCovered

(* A snapshot is loaded, or taken from the cache, no older than what was    *)
(* acknowledged when the request began (getOrLoad).                         *)
LEMMA RouteStep ==
    ASSUME IInv, NEW r \in Readers, Route(r)
    PROVE  LoadInv' /\ ListInv' /\ CacheInv'
<1>0. /\ EditInv /\ CacheInv /\ LoadInv /\ ListInv
      /\ db \in Nat /\ acked \in Nat /\ rev \in Nat
      /\ floor[r] \in Nat /\ floor[r] <= acked /\ acked <= db
      /\ DOMAIN pc = Readers /\ DOMAIN observed = Readers /\ DOMAIN floor = Readers
      /\ DOMAIN view = Readers
  BY Counters DEF IInv, EditInv, TypeOK, ReadType
<1>1. /\ UNCHANGED <<epc, wrote, acked, db, rev, mrev>>
      /\ byGroup' = byGroup /\ list' = list
  <2>1. UNCHANGED <<epc, wrote, acked, db, rev, mrev>>
    BY ReaderFrame DEF editVars
  <2>2. byGroup' = byGroup /\ list' = list
    BY DEF Route, Get, Observe, ListEnabledUpstreams, UpstreamGroupMembership,
       ListEnabledUpstreamKeys, Query, QueryFails, Publish, cacheVars
  <2>3. QED
    BY <2>1, <2>2
<1>2. \A n : (Covered(n) <=> Covered(n)') /\ (ListCovered(n) <=> ListCovered(n)')
  BY <1>1 DEF Covered, ListCovered
<1>3. pc'[r] \notin Listing \cup {"listed"}
  BY <1>0 DEF Route, Get, Observe, ListEnabledUpstreams, UpstreamGroupMembership,
     ListEnabledUpstreamKeys, Query, QueryFails, Publish, ReaderMoves, Listing, Tables
<1>4. ListInv'
  <2>1. ASSUME NEW q \in Readers, q # r
        PROVE  /\ pc'[q] = pc[q] /\ list'[q] = list[q] /\ floor'[q] = floor[q]
               /\ observed'[q] = observed[q]
    BY <2>1, OtherReaders
  <2>2. QED
    BY <1>0, <1>1, <1>2, <1>3, <2>1 DEF ListInv, ListCovered, Listing
<1>5. /\ \A t \in Read(pc'[r]) : view'[r][t] \in floor'[r]..db
      /\ pc'[r] \in Loading => observed'[r] <= rev
      /\ pc'[r] \in Loading /\ observed'[r] = rev => \A t \in Read(pc'[r]) : Covered(view'[r][t])
  <2>1. CASE Get(r) /\ value # Nothing
    <3>1. /\ pc'[r] = "routed" /\ view'[r] = value /\ floor'[r] \in {floor[r], acked}
      BY <1>0, <2>1 DEF Get, ReaderMoves
    <3>2. \A t \in Tables : value[t] \in acked..db
      BY <1>0, <2>1 DEF CacheInv
    <3>3. QED
      BY <1>0, <3>1, <3>2 DEF Read, Loading, Tables
  <2>2. CASE (Get(r) /\ value = Nothing) \/ QueryFails(r)
    <3>1. pc'[r] \in {"missed", "failed"}
      BY <1>0, <2>2 DEF Get, QueryFails, ReaderMoves
    <3>2. QED
      BY <3>1 DEF Read, Loading, Tables
  <2>3. CASE Observe(r)
    <3>1. pc'[r] = "upstreams" /\ observed'[r] = rev
      BY <1>0, <2>3 DEF Observe, ReaderMoves
    <3>2. QED
      BY <1>0, <3>1 DEF Read, Loading, Tables
  <2>4. CASE ListEnabledUpstreams(r) \/ UpstreamGroupMembership(r) \/ ListEnabledUpstreamKeys(r)
    <3>1. /\ pc[r] \in Tables /\ floor' = floor /\ observed' = observed
          /\ view' = [view EXCEPT ![r][pc[r]] = db]
          /\ pc'[r] = IF pc[r] = "upstreams" THEN "membership"
                      ELSE IF pc[r] = "membership" THEN "keys" ELSE "loaded"
      BY <1>0, <2>4 DEF ListEnabledUpstreams, UpstreamGroupMembership,
         ListEnabledUpstreamKeys, Query, ReaderMoves
    <3>2. view[r] \in [Tables -> Int]
      BY DEF IInv, TypeOK, ReadType
    <3>3. \A t \in Tables : view'[r][t] = IF t = pc[r] THEN db ELSE view[r][t]
      BY <1>0, <3>1, <3>2
    <3>4. \A t \in Read(pc'[r]) : t # pc[r] => t \in Read(pc[r])
      BY <3>1 DEF Read, Tables
    <3>5. pc[r] \in Loading /\ pc'[r] \in Loading /\ Read(pc'[r]) \subseteq Tables
      BY <3>1 DEF Loading, Tables, Read
    <3>6. db \in floor[r]..db /\ Covered(db)
      BY <1>0, CoveredNow
    <3>7. \A t \in Read(pc'[r]) : view'[r][t] \in floor[r]..db
      BY <1>0, <3>3, <3>4, <3>5, <3>6 DEF LoadInv
    <3>8. observed[r] <= rev
      BY <1>0, <3>5 DEF LoadInv
    <3>9. observed[r] = rev => \A t \in Read(pc'[r]) : Covered(view'[r][t])
      <4>1. observed[r] = rev => \A t \in Read(pc[r]) : Covered(view[r][t])
        BY <1>0, <3>5 DEF LoadInv
      <4>2. QED
        BY <3>3, <3>4, <3>5, <3>6, <4>1
    <3>10. QED
      BY <3>1, <3>7, <3>8, <3>9
  <2>5. CASE Publish(r)
    <3>1. pc[r] = "loaded" /\ floor' = floor /\ \A t \in Tables : view[r][t] \in floor[r]..db
      BY <1>0, <2>5 DEF Publish, ReaderMoves, LoadInv, Read
    <3>2. CASE value # Nothing
      <4>1. pc'[r] = "routed" /\ view'[r] = value
        BY <1>0, <2>5, <3>2 DEF Publish, ReaderMoves
      <4>2. \A t \in Tables : value[t] \in acked..db
        BY <1>0, <3>2 DEF CacheInv
      <4>3. QED
        BY <1>0, <3>1, <4>1, <4>2 DEF Read, Loading, Tables
    <3>3. CASE value = Nothing
      <4>1. pc'[r] \in {"routed", "again"} /\ view' = view
        BY <1>0, <2>5, <3>3 DEF Publish, ReaderMoves
      <4>2. QED
        BY <3>1, <4>1 DEF Read, Loading, Tables
    <3>4. QED
      BY <3>2, <3>3
  <2>6. QED
    BY <2>1, <2>2, <2>3, <2>4, <2>5 DEF Route
<1>6. LoadInv'
  <2>1. ASSUME NEW q \in Readers, q # r
        PROVE  /\ pc'[q] = pc[q] /\ view'[q] = view[q] /\ floor'[q] = floor[q]
               /\ observed'[q] = observed[q]
    BY <2>1, OtherReaders
  <2>2. ASSUME NEW q \in Readers
        PROVE  /\ \A t \in Read(pc'[q]) : view'[q][t] \in floor'[q]..db
               /\ pc'[q] \in Loading => observed'[q] <= rev
               /\ pc'[q] \in Loading /\ observed'[q] = rev =>
                    \A t \in Read(pc'[q]) : Covered(view'[q][t])
    BY <1>0, <1>5, <2>1 DEF LoadInv
  <2>3. QED
    BY <1>1, <2>2 DEF LoadInv, Read, Loading, Covered
<1>7. CacheInv'
  <2>1. CASE Publish(r) /\ value = Nothing /\ rev = observed[r]
    <3>1. pc[r] = "loaded" /\ value' = view[r]
      BY <2>1 DEF Publish, ReaderMoves
    <3>2. ASSUME NEW t \in Tables PROVE value'[t] \in acked..db
      <4>1. t \in Read(pc[r]) /\ pc[r] \in Loading
        BY <3>1 DEF Read, Loading
      <4>2. view[r][t] \in floor[r]..db /\ Covered(view[r][t])
        BY <1>0, <2>1, <4>1 DEF LoadInv
      <4>3. QED
        BY <1>0, <3>1, <4>2 DEF Covered
    <3>3. QED
      BY <1>0, <1>1, <1>2, <3>2 DEF CacheInv, ListCovered
  <2>2. CASE ~(Publish(r) /\ value = Nothing /\ rev = observed[r])
    <3>1. value' = value
      BY <2>2 DEF Route, Get, Observe, ListEnabledUpstreams, UpstreamGroupMembership,
         ListEnabledUpstreamKeys, Query, QueryFails, Publish, cacheVars
    <3>2. QED
      BY <1>0, <1>1, <3>1 DEF CacheInv, ListCovered
  <2>3. QED
    BY <2>1, <2>2
<1>8. QED
  BY <1>4, <1>6, <1>7
(* A list is loaded, or taken from the cache, no older than what was        *)
(* acknowledged when the request began (ListModelsHandler).                 *)
LEMMA ListModelsStep ==
    ASSUME IInv, NEW r \in Readers, ListModels(r)
    PROVE  LoadInv' /\ ListInv' /\ CacheInv'
<1>0. /\ EditInv /\ CacheInv /\ LoadInv /\ ListInv
      /\ db \in Nat /\ acked \in Nat /\ mrev \in Nat
      /\ floor[r] \in Nat /\ floor[r] <= acked /\ acked <= db /\ group[r] \in Groups
      /\ DOMAIN pc = Readers /\ DOMAIN observed = Readers /\ DOMAIN floor = Readers
      /\ DOMAIN list = Readers /\ DOMAIN byGroup = Groups
  BY Counters DEF IInv, EditInv, TypeOK, ReadType, CacheType
<1>1. /\ UNCHANGED <<epc, wrote, acked, db, rev, mrev>>
      /\ value' = value /\ view' = view
  <2>1. UNCHANGED <<epc, wrote, acked, db, rev, mrev>>
    BY ReaderFrame DEF editVars
  <2>2. value' = value /\ view' = view
    BY DEF ListModels, ListGet, ListObserve, ListEnabledUpstreamsInGroup, ListQueryFails,
       ListGetAgain, ListSet, CachedList, cacheVars
  <2>3. QED
    BY <2>1, <2>2
<1>2. \A n : (Covered(n) <=> Covered(n)') /\ (ListCovered(n) <=> ListCovered(n)')
  BY <1>1 DEF Covered, ListCovered
<1>3. pc'[r] \notin Loading \cup {"routed"}
  BY <1>0 DEF ListModels, ListGet, ListObserve, ListEnabledUpstreamsInGroup, ListQueryFails,
     ListGetAgain, ListSet, CachedList, ReaderMoves, Loading, Tables
<1>4. LoadInv'
  <2>1. ASSUME NEW q \in Readers, q # r
        PROVE  /\ pc'[q] = pc[q] /\ floor'[q] = floor[q] /\ observed'[q] = observed[q]
    BY <2>1, OtherReaders
  <2>2. ASSUME NEW q \in Readers
        PROVE  /\ \A t \in Read(pc'[q]) : view[q][t] \in floor'[q]..db
               /\ pc'[q] \in Loading => observed'[q] <= rev
               /\ pc'[q] \in Loading /\ observed'[q] = rev =>
                    \A t \in Read(pc'[q]) : Covered(view[q][t])
    <3>1. CASE q = r
      <4>1. Read(pc'[r]) = {}
        BY <1>3 DEF Read, Loading, Tables
      <4>2. QED
        BY <1>3, <3>1, <4>1
    <3>2. CASE q # r
      BY <1>0, <2>1, <3>2 DEF LoadInv
    <3>3. QED
      BY <3>1, <3>2
  <2>3. QED
    BY <1>1, <2>2 DEF LoadInv, Read, Loading, Covered
<1>5. /\ pc'[r] \in {"list loaded", "setting", "listed"} => list'[r] \in floor'[r]..db
      /\ pc'[r] \in Listing => observed'[r] <= mrev
      /\ pc'[r] \in {"list loaded", "setting"} /\ observed'[r] = mrev => ListCovered(list'[r])
  <2>1. CASE ListGet(r) \/ ListQueryFails(r)
    <3>1. CASE pc'[r] = "listed"
      <4>1. /\ list'[r] = byGroup[group[r]] /\ byGroup[group[r]] # Nothing
            /\ floor'[r] = acked
        BY <1>0, <2>1, <3>1 DEF ListGet, ListQueryFails, CachedList, ReaderMoves, Serve
      <4>2. byGroup[group[r]] \in acked..db
        BY <1>0, <4>1 DEF CacheInv
      <4>3. QED
        BY <3>1, <4>1, <4>2 DEF Listing
    <3>2. CASE pc'[r] # "listed"
      <4>1. pc'[r] \in {"list missed", "failed"}
        BY <1>0, <2>1, <3>2 DEF ListGet, ListQueryFails, CachedList, ReaderMoves
      <4>2. QED
        BY <4>1 DEF Listing
    <3>3. QED
      BY <3>1, <3>2
  <2>2. CASE ListObserve(r)
    <3>1. pc'[r] = "listing" /\ observed'[r] = mrev
      BY <1>0, <2>2 DEF ListObserve, ReaderMoves
    <3>2. QED
      BY <1>0, <3>1 DEF Listing
  <2>3. CASE ListEnabledUpstreamsInGroup(r)
    <3>1. /\ pc[r] = "listing" /\ pc'[r] = "list loaded" /\ list'[r] = db
          /\ floor' = floor /\ observed' = observed
      BY <1>0, <2>3 DEF ListEnabledUpstreamsInGroup, ReaderMoves, Serve
    <3>2. observed[r] <= mrev
      BY <1>0, <3>1 DEF ListInv, Listing
    <3>3. db \in floor[r]..db
      BY <1>0
    <3>4. QED
      BY <3>1, <3>2, <3>3, CoveredNow DEF Listing
  <2>4. CASE ListGetAgain(r)
    <3>1. pc[r] = "list loaded" /\ floor' = floor /\ observed' = observed
      BY <2>4 DEF ListGetAgain, CachedList, ReaderMoves
    <3>2. CASE byGroup[group[r]] # Nothing
      <4>1. pc'[r] = "listed" /\ list'[r] = byGroup[group[r]]
        BY <1>0, <2>4, <3>2 DEF ListGetAgain, CachedList, ReaderMoves, Serve
      <4>2. byGroup[group[r]] \in acked..db
        BY <1>0, <3>2 DEF CacheInv
      <4>3. \A n \in acked..db : n \in floor[r]..db
        BY <1>0
      <4>4. list'[r] \in floor'[r]..db
        BY <3>1, <4>1, <4>2, <4>3
      <4>5. QED
        BY <4>1, <4>4 DEF Listing
    <3>3. CASE byGroup[group[r]] = Nothing
      <4>1. pc'[r] = "setting" /\ list' = list
        BY <1>0, <2>4, <3>3 DEF ListGetAgain, CachedList, ReaderMoves
      <4>2. QED
        BY <1>0, <3>1, <4>1 DEF ListInv, Listing
    <3>4. QED
      BY <3>2, <3>3
  <2>5. CASE ListSet(r)
    <3>1. pc[r] = "setting" /\ pc'[r] = "listed" /\ list' = list /\ floor' = floor
      BY <1>0, <2>5 DEF ListSet, ReaderMoves
    <3>2. QED
      BY <1>0, <3>1 DEF ListInv, Listing
  <2>6. QED
    BY <2>1, <2>2, <2>3, <2>4, <2>5 DEF ListModels
<1>6. ListInv'
  <2>1. ASSUME NEW q \in Readers, q # r
        PROVE  /\ pc'[q] = pc[q] /\ list'[q] = list[q] /\ floor'[q] = floor[q]
               /\ observed'[q] = observed[q]
    BY <2>1, OtherReaders
  <2>2. ASSUME NEW q \in Readers
        PROVE  /\ pc'[q] \in {"list loaded", "setting", "listed"} =>
                    list'[q] \in floor'[q]..db
               /\ pc'[q] \in Listing => observed'[q] <= mrev
               /\ pc'[q] \in {"list loaded", "setting"} /\ observed'[q] = mrev =>
                    ListCovered(list'[q])
    BY <1>0, <1>5, <2>1 DEF ListInv
  <2>3. QED
    BY <1>1, <2>2 DEF ListInv, ListCovered
<1>7. CacheInv'
  <2>1. CASE ListSet(r) /\ observed[r] = mrev
    <3>1. /\ pc[r] = "setting" /\ byGroup' = [byGroup EXCEPT ![group[r]] = list[r]]
      BY <2>1 DEF ListSet, ReaderMoves
    <3>2. list[r] \in floor[r]..db /\ ListCovered(list[r])
      BY <1>0, <2>1, <3>1 DEF ListInv
    <3>3. list[r] \in acked..db
      BY <1>0, <3>2 DEF ListCovered
    <3>4. ASSUME NEW g \in Groups, byGroup'[g] # Nothing
          PROVE  byGroup'[g] \in acked..db /\ ListCovered(byGroup'[g])
      BY <1>0, <3>1, <3>2, <3>3, <3>4 DEF CacheInv
    <3>5. QED
      BY <1>0, <1>1, <3>4 DEF CacheInv, ListCovered
  <2>2. CASE ~(ListSet(r) /\ observed[r] = mrev)
    <3>1. byGroup' = byGroup
      BY <2>2 DEF ListModels, ListGet, ListObserve, ListEnabledUpstreamsInGroup,
         ListQueryFails, ListGetAgain, ListSet, CachedList, cacheVars
    <3>2. QED
      BY <1>0, <1>1, <3>1 DEF CacheInv, ListCovered
  <2>3. QED
    BY <2>1, <2>2
<1>8. QED
  BY <1>4, <1>6, <1>7

(* Every step of editors and readers keeps the invariant.                   *)
LEMMA StepIInv == IInv /\ [Next]_vars => IInv'
<1> SUFFICES ASSUME IInv, [Next]_vars PROVE IInv'
  OBVIOUS
<1>1. TypeOK' /\ EditInv' /\ Pending'
  BY TypeStep, EditStep, PendingStep
<1>2. CASE UNCHANGED vars
  BY <1>1, <1>2 DEF vars, editVars, cacheVars, readVars, IInv, LoadInv, ListInv, CacheInv,
     Covered, ListCovered, Read, Loading, Listing
<1>3. CASE Next
  BY <1>1, <1>3, LoadEditStep, RouteStep, ListModelsStep DEF Next, IInv
<1>4. QED
  BY <1>2, <1>3

(* What the theorems below rest on.                                         *)
LEMMA Invariance == Spec => []IInv
BY InitIInv, StepIInv, PTL DEF Spec

(* Type correctness; in particular a published snapshot holds the answer of *)
(* every query of its load (matcher.go getOrLoad).                          *)
THEOREM TypeCorrect == Spec => []TypeOK
<1>1. IInv => TypeOK
  BY DEF IInv
<1>2. QED
  BY <1>1, Invariance, PTL

(* Neither cache holds data from before an acknowledged edit, however loads *)
(* and invalidations interleave (RoutingCache.Invalidate, getOrLoad;        *)
(* ModelsListCache.Set, Invalidate).                                        *)
THEOREM CachesAreFresh == Spec => []CachedIncludesAcknowledged
<1>1. IInv => CachedIncludesAcknowledged
  <2> SUFFICES ASSUME IInv PROVE CachedIncludesAcknowledged
    OBVIOUS
  <2>1. acked \in Nat /\ db \in Nat /\ CacheInv
    BY Counters DEF IInv
  <2>2. QED
    BY <2>1 DEF CacheInv, CachedIncludesAcknowledged
<1>2. QED
  BY <1>1, Invariance, PTL

(* No request is routed, and no model list answered, by data from before an *)
(* edit that was acknowledged when the request began.                       *)
THEOREM ReadersAreFresh == Spec => []ServedIncludesAcknowledged
<1>1. IInv => ServedIncludesAcknowledged
  <2> SUFFICES ASSUME IInv, NEW r \in Readers
               PROVE  /\ pc[r] = "routed" => \A t \in Tables : view[r][t] >= floor[r]
                      /\ pc[r] = "listed" => list[r] >= floor[r]
    BY DEF ServedIncludesAcknowledged
  <2>1. floor[r] \in Nat /\ db \in Nat
    BY Counters DEF IInv
  <2>2. pc[r] = "routed" => \A t \in Tables : view[r][t] \in floor[r]..db
    BY DEF IInv, LoadInv, Read
  <2>3. pc[r] = "listed" => list[r] \in floor[r]..db
    BY DEF IInv, ListInv
  <2>4. QED
    BY <2>1, <2>2, <2>3
<1>2. QED
  BY <1>1, Invariance, PTL

(* With every edit over and none given up after its commit, what is cached  *)
(* is what the tables hold: no snapshot torn between commits stays.         *)
THEOREM SettledCachesAreCurrent == Spec => []SettledIsCurrent
<1>1. IInv => SettledIsCurrent
  <2> SUFFICES ASSUME IInv, AllIdle, failures = 0 PROVE Current
    BY DEF SettledIsCurrent
  <2>1. acked \in Nat /\ db \in Nat /\ CacheInv
    BY Counters DEF IInv
  <2>2. acked = db
    BY DEF IInv, Pending, AllIdle, InProgress
  <2>3. QED
    BY <2>1, <2>2 DEF CacheInv, Current
<1>2. QED
  BY <1>1, Invariance, PTL
=============================================================================

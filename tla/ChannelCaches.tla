---------------------------- MODULE ChannelCaches ---------------------------
(***************************************************************************)
(* The two caches in front of the channel tables, the console handlers     *)
(* that change the tables, and the requests that read through the caches.  *)
(*                                                                         *)
(*   proxy/matcher.go      RoutingCache: the parsed enabled channels       *)
(*   appstate/state.go     ModelsListCache: GET /v1/models, per group      *)
(*   handlers/upstreams.go, groups.go, db/upstream.go   the edits          *)
(*   handlers/proxy.go     ListModelsHandler                               *)
(*                                                                         *)
(* The content of the tables is the number of edits committed to them: a   *)
(* query reads the edits committed before it. A snapshot holds one such    *)
(* number per query it was loaded with, which need not agree.              *)
(***************************************************************************)
EXTENDS Integers

CONSTANTS Editors,      \* console requests that change channels or groups
          Readers,      \* requests of clients: proxied ones, and GET /v1/models
          Groups,       \* token groups
          Nothing,      \* an empty cache entry (nil)
          MaxWrites,    \* bound: committed edits; invalidated model lists for a rename
          MaxFailures   \* bound: reads that fail after their edit committed

\* The queries a snapshot is loaded with; a model list takes the first alone.
Tables == {"upstreams", "membership", "keys"}
Snapshots == [Tables -> Nat]

ASSUME CachesAssumption ==
    /\ MaxWrites \in Nat /\ MaxFailures \in Nat
    /\ Nothing \notin Snapshots /\ Nothing \notin Nat

VARIABLES
    db,               \* edits committed to the channel tables
    epc, wrote,       \* per editor: step, db as it committed
    acked,            \* db as of the latest edit answered as done
    failures,         \* counted against MaxFailures
    value, rev,       \* RoutingCache.value, .revision
    byGroup, mrev,    \* ModelsListCache.byGroup, .revision
    pc, observed,     \* per reader: step, revision observed
    view, list,       \* per reader the snapshot, or the list, it was given
    group, floor      \* per reader its token's group, and acked as it began

editVars  == <<db, epc, wrote, acked, failures>>
cacheVars == <<value, rev, byGroup, mrev>>
readVars  == <<pc, observed, view, list, group, floor>>
vars == <<editVars, cacheVars, readVars>>

Unread == [t \in Tables |-> -1]

Init ==
    /\ db = 0 /\ acked = 0 /\ failures = 0
    /\ epc = [e \in Editors |-> "idle"] /\ wrote = [e \in Editors |-> 0]
    /\ value = Nothing /\ rev = 0
    /\ byGroup = [g \in Groups |-> Nothing] /\ mrev = 0
    /\ pc = [r \in Readers |-> "idle"] /\ observed = [r \in Readers |-> 0]
    /\ view = [r \in Readers |-> Unread] /\ list = [r \in Readers |-> -1]
    /\ group \in [Readers -> Groups]
    /\ floor = [r \in Readers |-> 0]
-----------------------------------------------------------------------------
(* Edits. The handlers commit, then invalidate both caches, then answer.    *)

CommitTo(e, step) ==
    /\ db < MaxWrites
    /\ db' = db + 1
    /\ wrote' = [wrote EXCEPT ![e] = db + 1]
    /\ epc' = [epc EXCEPT ![e] = step]
    /\ UNCHANGED <<acked, failures, cacheVars, readVars>>

\* UpdateUpstream, SetUpstreamEnabled, SetUpstreamArchived, SetUpstreamPriority:
\* the row is read back after the commit, outside the transaction.
UpdateChannel(e) == epc[e] = "idle" /\ CommitTo(e, "reloading")

\* CreateUpstream reads back before it commits, DeleteUpstream and DeleteGroup
\* have nothing to read back.
CreateOrDelete(e) == epc[e] = "idle" /\ CommitTo(e, "committed")

\* AdminImportUpstreams commits channel by channel and passes over the ones that
\* fail; the caches are invalidated once, at the end.
ImportChannel(e) == epc[e] \in {"idle", "importing"} /\ CommitTo(e, "importing")

EditorMoves(e, from, to) ==
    /\ epc[e] = from
    /\ epc' = [epc EXCEPT ![e] = to]

ImportDone(e) ==
    /\ EditorMoves(e, "importing", "committed")
    /\ UNCHANGED <<db, wrote, acked, failures, cacheVars, readVars>>

\* reloadUpstreamOut finds the row ...
Reload(e) ==
    /\ EditorMoves(e, "reloading", "committed")
    /\ UNCHANGED <<db, wrote, acked, failures, cacheVars, readVars>>

\* ... or fails, the console's request cancelled for one, and the handler answers
\* the error without coming to the caches.
ReloadFails(e) ==
    /\ failures < MaxFailures
    /\ EditorMoves(e, "reloading", "idle")
    /\ failures' = failures + 1
    /\ UNCHANGED <<db, wrote, acked, cacheVars, readVars>>

\* UpdateGroup renames a group: no channel changes, the model lists are dropped.
RenameGroup(e) ==
    /\ EditorMoves(e, "idle", "renamed")
    /\ mrev < MaxWrites
    /\ UNCHANGED <<db, wrote, acked, failures, cacheVars, readVars>>

\* ModelsListCache.Invalidate, under its lock.
InvalidateModels(e) ==
    /\ \/ EditorMoves(e, "committed", "listed")
       \/ EditorMoves(e, "renamed", "idle")
    /\ mrev' = mrev + 1
    /\ byGroup' = [g \in Groups |-> Nothing]
    /\ UNCHANGED <<db, wrote, acked, failures, value, rev, readVars>>

\* Mutant: the revision stays, and loads in flight are not told.
AdvanceNothing(e) ==
    /\ EditorMoves(e, "listed", "announced")
    /\ UNCHANGED <<db, wrote, acked, failures, cacheVars, readVars>>

\* RoutingCache.Invalidate: the revision moves first, without the lock ...
AdvanceRevision(e) ==
    /\ EditorMoves(e, "listed", "announced")
    /\ rev' = rev + 1
    /\ UNCHANGED <<db, wrote, acked, failures, value, byGroup, mrev, readVars>>

\* ... and the snapshot is dropped under it. The edit is answered as done.
DropSnapshot(e) ==
    /\ EditorMoves(e, "announced", "idle")
    /\ value' = Nothing
    /\ acked' = IF wrote[e] > acked THEN wrote[e] ELSE acked
    /\ UNCHANGED <<db, wrote, failures, rev, byGroup, mrev, readVars>>
-----------------------------------------------------------------------------
(* RoutingCache.getOrLoad.                                                  *)

ReaderMoves(r, from, to) ==
    /\ pc[r] \in from
    /\ pc' = [pc EXCEPT ![r] = to]

\* The lookup a request begins with; floor is what was answered as done by then.
\* A load that lost its race comes back here.
Get(r) ==
    /\ IF value # Nothing
       THEN /\ ReaderMoves(r, {"idle", "again"}, "routed")
            /\ view' = [view EXCEPT ![r] = value]
       ELSE /\ ReaderMoves(r, {"idle", "again"}, "missed")
            /\ UNCHANGED view
    /\ floor' = IF pc[r] = "idle" THEN [floor EXCEPT ![r] = acked] ELSE floor
    /\ UNCHANGED <<editVars, cacheVars, observed, list, group>>

Observe(r) ==
    /\ ReaderMoves(r, {"missed"}, "upstreams")
    /\ observed' = [observed EXCEPT ![r] = rev]
    /\ view' = [view EXCEPT ![r] = Unread]
    /\ UNCHANGED <<editVars, cacheVars, list, group, floor>>

\* One query of the three; the step a request is at names the one it does next.
Query(r, next) ==
    /\ ReaderMoves(r, Tables, next)
    /\ view' = [view EXCEPT ![r][pc[r]] = db]
    /\ UNCHANGED <<editVars, cacheVars, observed, list, group, floor>>

ListEnabledUpstreams(r)    == pc[r] = "upstreams" /\ Query(r, "membership")
UpstreamGroupMembership(r) == pc[r] = "membership" /\ Query(r, "keys")
ListEnabledUpstreamKeys(r) == pc[r] = "keys" /\ Query(r, "loaded")

\* Mutant: a failed last query leaves its part of the snapshot empty.
QueryErrorIgnored(r) ==
    /\ ReaderMoves(r, {"keys"}, "loaded")
    /\ UNCHANGED <<editVars, cacheVars, observed, view, list, group, floor>>

QueryFails(r) ==
    /\ ReaderMoves(r, Tables, "failed")
    /\ UNCHANGED <<editVars, cacheVars, observed, view, list, group, floor>>

\* Mutant: the load is published without a look at the revision.
PublishUnchecked(r) ==
    /\ ReaderMoves(r, {"loaded"}, "routed")
    /\ value' = view[r]
    /\ UNCHANGED <<editVars, rev, byGroup, mrev, observed, view, list, group, floor>>

\* Under the lock: another load's snapshot is taken, this one is published when
\* the revision has not moved, and is discarded for another round otherwise.
Publish(r) ==
    /\ \/ /\ value # Nothing
          /\ ReaderMoves(r, {"loaded"}, "routed")
          /\ view' = [view EXCEPT ![r] = value]
          /\ UNCHANGED value
       \/ /\ value = Nothing /\ rev = observed[r]
          /\ ReaderMoves(r, {"loaded"}, "routed")
          /\ value' = view[r]
          /\ UNCHANGED view
       \/ /\ value = Nothing /\ rev # observed[r]
          /\ ReaderMoves(r, {"loaded"}, "again")
          /\ UNCHANGED <<value, view>>
    /\ UNCHANGED <<editVars, rev, byGroup, mrev, observed, list, group, floor>>
-----------------------------------------------------------------------------
(* ListModelsHandler, for a token without an allowlist and no channel named. *)

Serve(l, models) == list' = [list EXCEPT ![l] = models]

\* ModelsListCache.Get, before the query and again after it.
CachedList(l, from, miss) ==
    /\ IF byGroup[group[l]] # Nothing
       THEN ReaderMoves(l, from, "listed") /\ Serve(l, byGroup[group[l]])
       ELSE ReaderMoves(l, from, miss) /\ UNCHANGED list
    /\ UNCHANGED <<editVars, cacheVars, observed, view, group>>

ListGet(l) ==
    /\ CachedList(l, {"idle"}, "list missed")
    /\ floor' = [floor EXCEPT ![l] = acked]

ListObserve(l) ==
    /\ ReaderMoves(l, {"list missed"}, "listing")
    /\ observed' = [observed EXCEPT ![l] = mrev]
    /\ UNCHANGED <<editVars, cacheVars, view, list, group, floor>>

ListEnabledUpstreamsInGroup(l) ==
    /\ ReaderMoves(l, {"listing"}, "list loaded")
    /\ Serve(l, db)
    /\ UNCHANGED <<editVars, cacheVars, observed, view, group, floor>>

ListQueryFails(l) ==
    /\ ReaderMoves(l, {"listing"}, "failed")
    /\ UNCHANGED <<editVars, cacheVars, observed, view, list, group, floor>>

ListGetAgain(l) ==
    /\ CachedList(l, {"list loaded"}, "setting")
    /\ UNCHANGED floor

\* Mutant: the list is stored whatever happened since it was read.
StoreList(l) ==
    /\ ReaderMoves(l, {"setting"}, "listed")
    /\ byGroup' = [byGroup EXCEPT ![group[l]] = list[l]]
    /\ UNCHANGED <<editVars, value, rev, mrev, observed, view, list, group, floor>>

\* ModelsListCache.Set; the response is served whether or not it was stored.
ListSet(l) ==
    /\ ReaderMoves(l, {"setting"}, "listed")
    /\ byGroup' = IF observed[l] = mrev
                  THEN [byGroup EXCEPT ![group[l]] = list[l]] ELSE byGroup
    /\ UNCHANGED <<editVars, value, rev, mrev, observed, view, list, group, floor>>
-----------------------------------------------------------------------------
Edit(e) ==
    \/ UpdateChannel(e) \/ CreateOrDelete(e) \/ ImportChannel(e) \/ ImportDone(e)
    \/ Reload(e) \/ ReloadFails(e) \/ RenameGroup(e)
    \/ InvalidateModels(e) \/ AdvanceRevision(e) \/ DropSnapshot(e)

Route(r) ==
    \/ Get(r) \/ Observe(r)
    \/ ListEnabledUpstreams(r) \/ UpstreamGroupMembership(r) \/ ListEnabledUpstreamKeys(r)
    \/ QueryFails(r) \/ Publish(r)

ListModels(l) ==
    \/ ListGet(l) \/ ListObserve(l) \/ ListEnabledUpstreamsInGroup(l) \/ ListQueryFails(l)
    \/ ListGetAgain(l) \/ ListSet(l)

Next ==
    \/ \E e \in Editors : Edit(e)
    \/ \E r \in Readers : Route(r) \/ ListModels(r)

Spec == Init /\ [][Next]_vars
-----------------------------------------------------------------------------
EditType ==
    /\ db \in 0..MaxWrites /\ acked \in 0..MaxWrites /\ failures \in 0..MaxFailures
    /\ epc \in [Editors -> {"idle", "importing", "reloading", "committed", "renamed",
                            "listed", "announced"}]
    /\ wrote \in [Editors -> 0..MaxWrites]

CacheType ==
    /\ value \in Snapshots \cup {Nothing} /\ rev \in Nat
    /\ byGroup \in [Groups -> Nat \cup {Nothing}] /\ mrev \in Nat

ReadType ==
    /\ pc \in [Readers -> Tables \cup {"idle", "missed", "loaded", "again", "routed",
                 "list missed", "listing", "list loaded", "setting", "listed", "failed"}]
    /\ observed \in [Readers -> Nat]
    /\ view \in [Readers -> [Tables -> Int]]
    /\ list \in [Readers -> Int]
    /\ group \in [Readers -> Groups]
    /\ floor \in [Readers -> 0..MaxWrites]

(* Every variable has its type; a cached snapshot was loaded by all three   *)
(* queries.                                                                 *)
TypeOK == EditType /\ CacheType /\ ReadType

(* What is cached includes every edit that was answered as done: a load in  *)
(* flight does not publish data that predates an Invalidate                 *)
(* (matcher.go:138-142, appstate/state.go:57-58).                           *)
CachedIncludesAcknowledged ==
    /\ value # Nothing => \A t \in Tables : value[t] >= acked
    /\ \A g \in Groups : byGroup[g] # Nothing => byGroup[g] >= acked

(* A request routes by, and a model list shows, every edit answered before  *)
(* it began, whichever cached or loaded data it ends up with                *)
(* (matcher.go:121-123).                                                    *)
ServedIncludesAcknowledged ==
    \A r \in Readers :
        /\ pc[r] = "routed" => \A t \in Tables : view[r][t] >= floor[r]
        /\ pc[r] = "listed" => list[r] >= floor[r]

AllIdle == \A e \in Editors : epc[e] = "idle"
Current ==
    /\ value # Nothing => \A t \in Tables : value[t] = db
    /\ \A g \in Groups : byGroup[g] # Nothing => byGroup[g] = db

(* Once the edits are over, what stays cached is what the tables hold, also *)
(* when the three queries of a load ran between different commits, provided *)
(* no edit ended in an error after its commit (matcher.go:150-184).         *)
SettledIsCurrent == AllIdle /\ failures = 0 => Current

(* The claim of matcher.go:121-123 and appstate/state.go:54: channel edits  *)
(* invalidate the caches, and the next request reloads.                     *)
EditsReachCaches == AllIdle => Current
=============================================================================

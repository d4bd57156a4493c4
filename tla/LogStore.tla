------------------------------ MODULE LogStore ------------------------------
(***************************************************************************)
(* The stored request logs: the rows a batch commits with their captured   *)
(* snapshots cut into shared chunks, the hourly totals kept beside them,   *)
(* the cleanup pass (keep-count, retention, metadata, chunk collector) and *)
(* the start-up that moves an older database over, cut short and resumed   *)
(* at any point.                                                           *)
(*   db/logbody.go, db/logbody_migrate.go, db/log.go, db/stats.go,         *)
(*   db/usage.go, logbody/prepare.go, logbody/record.go and the cleanup    *)
(*   loop of proxy/logging.go.                                             *)
(* SQLite write transactions do not overlap, so each is one action; a read *)
(* transaction sees one snapshot, so it is one action or one operator.     *)
(***************************************************************************)
EXTENDS Integers, Sequences, FiniteSets, FiniteSetsExt

CONSTANTS
    Batches,        \* sequences of rows the log writer may be handed at once
    OldLogs,        \* id -> row: the logs an older database already holds
    OldOrphans,     \* id -> row: old payload rows whose log is gone
    OldCleared,     \* the old rows whose bodies were already dropped
    MetaValues,     \* the metadata a snapshot may have
    ChunkValues,    \* the pieces a body may be cut into
    NoMeta,         \* marks a slot without a snapshot
    KeepCount,      \* RuntimeSettings.LogBodyKeepCount
    Retention,      \* RuntimeSettings.LogRetentionDays, in units of now
    HourLength,     \* 3600, in units of now
    ClearBatch, DeleteBatch, SweepBatch, ScanFactor, MigrateBatch,
    MaxNow,         \* bound on the clock
    MaxLogs,        \* bound on the log ids handed out
    MaxFaults       \* bound on crashes and failed statements

ASSUME KeepAssumption == KeepCount \in Nat \ {0}
ASSUME BatchAssumption ==
    /\ ClearBatch \in Nat \ {0} /\ DeleteBatch \in Nat \ {0}
    /\ SweepBatch \in Nat \ {0} /\ ScanFactor \in Nat \ {0}
    /\ MigrateBatch \in Nat \ {0}
ASSUME ClockAssumption ==
    /\ HourLength \in Nat \ {0} /\ MaxNow \in Nat /\ Retention \in Nat
    /\ HourLength <= MaxNow
    /\ MaxLogs \in Nat /\ MaxFaults \in Nat

VARIABLES
    now,        \* the clock
    process,    \* "down", a step of db.Init, or "up"
    history,    \* id -> [at, row]: every log row ever committed
    logs,       \* ids in request_logs
    lastLog,    \* sqlite_sequence of request_logs
    snapshots,  \* request_log_snapshots: id -> [metas, cleared]
    bodies,     \* request_log_bodies: id -> encoded record
    metas,      \* log_metas: id -> value
    chunks,     \* log_chunks: id -> piece
    lastMeta, lastChunk,    \* their sqlite_sequence
    legacy,     \* request_log_payloads: id -> row
    oldTable,   \* that table exists
    usage,      \* usage_hourly: [table, hours]
    stats,      \* stats_hourly: [table, hours]
    writer,     \* the batch being written: [rows, known]
    cleanup,    \* the pass under way
    faults      \* crashes and failures so far

clockVars == <<now, faults>>
logVars == <<history, logs, lastLog>>
payloadVars == <<snapshots, bodies, metas, chunks, lastMeta, lastChunk>>
oldVars == <<legacy, oldTable>>
totalVars == <<usage, stats>>
vars == <<now, process, history, logs, lastLog, snapshots, bodies, metas, chunks,
          lastMeta, lastChunk, legacy, oldTable, usage, stats, writer, cleanup, faults>>

-----------------------------------------------------------------------------
(* Rows and what they hold. The four snapshots are two pairs that work the *)
(* same way; a row here has one pair, slots 1 and 2.                       *)
Slots == 1..2

HasSnapshot(slot) == slot.meta # NoMeta
NoSnapshot == [meta |-> NoMeta, kind |-> "none", pieces |-> <<>>]

\* Only a text has pieces, and only a snapshot a body.
Snapshots ==
    {slot \in [meta : MetaValues, kind : {"none", "omitted", "text"}, pieces : Seq(ChunkValues)] :
       slot.kind = "text" \/ slot.pieces = <<>>}
LogRows == [slots : [Slots -> Snapshots \cup {NoSnapshot}], status : STRING, retried : BOOLEAN]

ASSUME RowAssumption ==
    /\ NoMeta \notin MetaValues \cup ChunkValues
    /\ \A rows \in Batches : rows \in Seq(LogRows)
    /\ OldLogs \in [DOMAIN OldLogs -> LogRows] /\ OldOrphans \in [DOMAIN OldOrphans -> LogRows]
    /\ IsFiniteSet(DOMAIN OldLogs) /\ IsFiniteSet(DOMAIN OldOrphans)
    /\ DOMAIN OldLogs \subseteq Nat \ {0} /\ DOMAIN OldOrphans \subseteq Nat \ {0}
    /\ DOMAIN OldLogs \cap DOMAIN OldOrphans = {}

Values(s) == {s[i] : i \in DOMAIN s}

\* Where the pieces of some rows (id -> row) are cut, and their metadata asked
\* for: row by row, slot by slot. Batch.Prepare cuts in this order.
Pieces(rows) ==
    [p \in UNION {{<<l, s, j>> : j \in DOMAIN rows[l].slots[s].pieces} :
                    l \in DOMAIN rows, s \in Slots}
       |-> rows[p[1]].slots[p[2]].pieces[p[3]]]
Metadata(rows) ==
    [p \in {<<l, s, 1>> : l \in DOMAIN rows, s \in Slots} |-> rows[p[1]].slots[p[2]].meta]

Precedes(p, q) ==
    \/ p[1] < q[1]
    \/ p[1] = q[1] /\ p[2] < q[2]
    \/ p[1] = q[1] /\ p[2] = q[2] /\ p[3] < q[3]

\* A value that is not stored yet is given the next id of the sequence when it
\* first comes up.
Assignments(table, last, asked) ==
    LET fresh == (Values(asked) \ Values(table)) \ {NoMeta}
        First(v) == CHOOSE p \in DOMAIN asked :
                      asked[p] = v /\ \A q \in DOMAIN asked : asked[q] = v => ~Precedes(q, p)
    IN  {ids \in [fresh -> last + 1 .. last + Cardinality(fresh)] :
           \A v, w \in fresh : v # w => (ids[v] < ids[w] <=> Precedes(First(v), First(w)))}

\* The id a value has, or is given.
IdOf(table, ids, v) ==
    IF v \in DOMAIN ids THEN ids[v] ELSE CHOOSE id \in DOMAIN table : table[id] = v

WithNew(table, ids) ==
    [id \in DOMAIN table \cup Values(ids) |->
       IF id \in DOMAIN table THEN table[id] ELSE CHOOSE v \in DOMAIN ids : ids[v] = id]

Extend(f, g) == [x \in DOMAIN f \cup DOMAIN g |-> IF x \in DOMAIN g THEN g[x] ELSE f[x]]
Keep(f, S) == [x \in DOMAIN f \cap S |-> f[x]]
-----------------------------------------------------------------------------
(* Body records. *)
RecordOf(row, ids) ==
    [i \in Slots |->
       [kind   |-> row.slots[i].kind,
        chunks |-> [j \in DOMAIN row.slots[i].pieces |->
                      IdOf(chunks, ids, row.slots[i].pieces[j])]]]

EmptyRecord(record) == \A i \in Slots : record[i].kind = "none"

\* A slot whose bytes the previous one already lists.
SameChunks(record, i) ==
    /\ i > 1
    /\ record[i].kind = "text" /\ record[i-1].kind = "text"
    /\ record[i].chunks # <<>>
    /\ record[i].chunks = record[i-1].chunks

\* The ids of a slot are written as differences.
AppendRecord(record) ==
    [i \in Slots |->
       [kind   |-> record[i].kind,
        same   |-> SameChunks(record, i),
        deltas |-> IF SameChunks(record, i) THEN <<>>
                   ELSE [j \in DOMAIN record[i].chunks |->
                           record[i].chunks[j] - IF j = 1 THEN 0 ELSE record[i].chunks[j-1]]]]

RunningSum(deltas) ==
    LET sum[j \in 0..Len(deltas)] == IF j = 0 THEN 0 ELSE sum[j-1] + deltas[j]
    IN  [j \in 1..Len(deltas) |-> sum[j]]

DecodeRecord(encoded) ==
    LET slot[i \in Slots] ==
          [kind   |-> encoded[i].kind,
           chunks |-> IF encoded[i].same THEN slot[i-1].chunks
                      ELSE RunningSum(encoded[i].deltas)]
    IN  slot

\* The chunks a stored record lists.
Listed(encoded) == UNION {Values(DecodeRecord(encoded)[i].chunks) : i \in Slots}
-----------------------------------------------------------------------------
(* Hourly totals. *)
Hour(t) == t \div HourLength
Hours == 0..Hour(MaxNow)
Times == 0..MaxNow

Rows(S) == [l \in S |-> history[l].row]

\* What log rows add to one hour. A retried attempt is not a request; a 499 is
\* the client's own doing, not an error.
StatsOf(rows) ==
    LET asked == {l \in DOMAIN rows : ~rows[l].retried}
        With(status) == Cardinality({l \in asked : rows[l].status = status})
    IN  [requests |-> Cardinality(asked), errors |-> With("failed"),
         cancelled |-> With("cancelled"), attempts |-> Cardinality(DOMAIN rows)]

\* usage_hourly does not count attempts.
UsageOf(rows) == [StatsOf(rows) EXCEPT !.attempts = 0]

\* An older usage_hourly had no cancelled column and counted a 499 as an error.
OldUsageOf(rows) ==
    [UsageOf(rows) EXCEPT !.errors = UsageOf(rows).errors + UsageOf(rows).cancelled,
                          !.cancelled = 0]

Plus(a, b) ==
    [requests |-> a.requests + b.requests, errors |-> a.errors + b.errors,
     cancelled |-> a.cancelled + b.cancelled, attempts |-> a.attempts + b.attempts]

InHour(past, S, h) == {l \in S : Hour(past[l].at) = h}

\* The rows of S, filed by hour.
FileRows(past, S) == [h \in Hours |-> [l \in InHour(past, S, h) |-> past[l].row]]
FileStats(past, S) == [h \in Hours |-> StatsOf(FileRows(past, S)[h])]
FileUsage(past, S) == [h \in Hours |-> UsageOf(FileRows(past, S)[h])]
FileOldUsage(past, S) == [h \in Hours |-> OldUsageOf(FileRows(past, S)[h])]

NoHours == [h \in Hours |-> StatsOf(<<>>)]
AddHours(f, g) == [h \in Hours |-> Plus(f[h], g[h])]

\* statsFacts: stats_hourly for the whole hours of [start, end), the logs for
\* the part hours at its edges. start 0 and end 0 leave it unbounded.
\* Mutant: the hour the window starts in is read whole.
HourOf(start) == (start \div HourLength) * HourLength
WholeFrom(start) ==
    IF start % HourLength # 0 THEN (start \div HourLength + 1) * HourLength ELSE start
WholeTo(end) == (end \div HourLength) * HourLength

RawIn(start, end) == {l \in logs : history[l].at >= start /\ history[l].at < end}

WindowTotal(start, end) ==
    LET from == WholeFrom(start)
        to == WholeTo(end)
        hours == {h \in Hours : h * HourLength >= from /\ (to # 0 => h * HourLength < to)}
        Raw(a, b) == Cardinality(RawIn(a, b))
    IN  IF to # 0 /\ from >= to
        THEN Raw(start, end)
        ELSE MapThenSumSet(LAMBDA h : stats.hours[h].attempts, hours)
             + (IF start # 0 /\ start < from THEN Raw(start, from) ELSE 0)
             + (IF to # 0 /\ to < end THEN Raw(to, end) ELSE 0)
-----------------------------------------------------------------------------
Idle == [pc |-> "idle", retention |-> FALSE, collect |-> FALSE,
         marks |-> {}, seen |-> 0, last |-> 0, cursor |-> 0]
NoBatch == [rows |-> <<>>, known |-> {}]

Init ==
    /\ now = HourLength
    /\ process = "down"
    /\ history = [l \in DOMAIN OldLogs |-> [at |-> HourLength, row |-> OldLogs[l]]]
    /\ logs = DOMAIN OldLogs
    /\ lastLog = Max({0} \cup DOMAIN OldLogs \cup DOMAIN OldOrphans)
    /\ snapshots = <<>> /\ bodies = <<>> /\ metas = <<>> /\ chunks = <<>>
    /\ lastMeta = 0 /\ lastChunk = 0
    /\ oldTable = (logs # {})
    /\ legacy = Extend(OldLogs, OldOrphans)
    /\ \/ usage = [table |-> "absent", hours |-> NoHours]
       \/ usage = [table |-> "old", hours |-> FileOldUsage(history, logs)]
    /\ stats = [table |-> "absent", hours |-> NoHours]
    /\ writer = NoBatch
    /\ cleanup = Idle
    /\ faults = 0

Fault == faults < MaxFaults /\ faults' = faults + 1

-----------------------------------------------------------------------------
(* db.Init: each step runs in a transaction of its own, and the next start *)
(* runs them all again.                                                    *)
Step(from, to) == process = from /\ process' = to

Start ==
    /\ Step("down", "usage")
    /\ UNCHANGED <<clockVars, logVars, payloadVars, oldVars, totalVars, writer, cleanup>>

\* ensureUsageHourly fills a table it makes, and only one it makes.
EnsureUsageHourly ==
    /\ Step("usage", "split")
    /\ usage' = IF usage.table # "absent" THEN usage
                ELSE [table |-> "current", hours |-> FileUsage(history, logs)]
    /\ UNCHANGED <<clockVars, logVars, payloadVars, oldVars, stats, writer, cleanup>>

\* splitCancelled moves the 499s of the logs still on disk to their own column.
SplitCancelled ==
    /\ Step("split", "stats")
    /\ usage' = IF usage.table # "old" THEN usage
                ELSE [table |-> "current",
                      hours |-> [h \in Hours |->
                        LET n == UsageOf(Rows(InHour(history, logs, h))).cancelled
                            kept == usage.hours[h].errors - n
                        IN  [usage.hours[h] EXCEPT !.cancelled = n,
                               !.errors = IF kept > 0 THEN kept ELSE 0]]]
    /\ UNCHANGED <<clockVars, logVars, payloadVars, oldVars, stats, writer, cleanup>>

\* Mutant: the fill does not ask whether the table was there.
RefillStatsHourly ==
    /\ Step("stats", "orphans")
    /\ stats' = [table |-> "current",
                 hours |-> AddHours(stats.hours, FileStats(history, logs))]
    /\ UNCHANGED <<clockVars, logVars, payloadVars, oldVars, usage, writer, cleanup>>

EnsureStatsHourly ==
    /\ Step("stats", "orphans")
    /\ stats' = IF stats.table # "absent" THEN stats
                ELSE [table |-> "current", hours |-> FileStats(history, logs)]
    /\ UNCHANGED <<clockVars, logVars, payloadVars, oldVars, usage, writer, cleanup>>

\* migrateLegacyLogPayloads begins: no old table, nothing to move.
DropOrphans ==
    /\ process = "orphans"
    /\ process' = IF oldTable THEN "migrate" ELSE "up"
    /\ legacy' = IF oldTable THEN Keep(legacy, logs) ELSE legacy
    /\ UNCHANGED <<clockVars, logVars, payloadVars, oldTable, totalVars, writer, cleanup>>

\* PayloadStore.Store for the rows (id -> row) of one transaction. Chunks and
\* metadata are looked up in it, whatever was seen before it began; a cleared
\* row keeps only its metadata.
StoreRows(rows, cleared) ==
    LET present == {l \in DOMAIN rows : \E s \in Slots : HasSnapshot(rows[l].slots[s])}
        cut == present \ cleared
    IN  \E metaIDs \in Assignments(metas, lastMeta, Metadata(rows)),
           chunkIDs \in Assignments(chunks, lastChunk, Pieces(Keep(rows, cut))) :
          LET record == [l \in cut |-> RecordOf(rows[l], chunkIDs)]
          IN  /\ metas' = WithNew(metas, metaIDs)
              /\ lastMeta' = lastMeta + Cardinality(DOMAIN metaIDs)
              /\ chunks' = WithNew(chunks, chunkIDs)
              /\ lastChunk' = lastChunk + Cardinality(DOMAIN chunkIDs)
              /\ bodies' = Extend(bodies, [l \in {x \in cut : ~EmptyRecord(record[x])} |->
                                          AppendRecord(record[l])])
              /\ snapshots' = Extend(snapshots, [l \in present |->
                   [metas |-> [s \in Slots |->
                      IF HasSnapshot(rows[l].slots[s])
                      THEN IdOf(metas, metaIDs, rows[l].slots[s].meta) ELSE 0],
                    cleared |-> l \in cleared]])

\* nextMigrationBatch: the oldest rows left.
NextMigrationBatch ==
    {l \in DOMAIN legacy : Cardinality({k \in DOMAIN legacy : k < l}) < MigrateBatch}

\* migrateLogPayloadBatch stores a batch and deletes it from the old table.
MigrateLogPayloads ==
    /\ process = "migrate" /\ DOMAIN legacy # {}
    /\ StoreRows(Keep(legacy, NextMigrationBatch), OldCleared)
    /\ legacy' = Keep(legacy, DOMAIN legacy \ NextMigrationBatch)
    /\ UNCHANGED <<clockVars, process, logVars, oldTable, totalVars, writer, cleanup>>

DropOldTable ==
    /\ Step("migrate", "up") /\ DOMAIN legacy = {}
    /\ oldTable' = FALSE
    /\ UNCHANGED <<clockVars, logVars, payloadVars, legacy, totalVars, writer, cleanup>>

-----------------------------------------------------------------------------
(* The log writer. *)

\* prepareLogBatch cuts a batch and looks up which chunks are stored, so that
\* only the others are compressed before the transaction.
PrepareBatch ==
    /\ process = "up" /\ writer = NoBatch
    /\ \E rows \in Batches :
         /\ lastLog + Len(rows) <= MaxLogs
         /\ writer' = [rows |-> rows,
                       known |-> Values(chunks) \cap
                                   UNION {Values(r.slots[s].pieces) : r \in Values(rows), s \in Slots}]
    /\ UNCHANGED <<clockVars, process, logVars, payloadVars, oldVars, totalVars, cleanup>>

\* insertLogBatch: the rows, their snapshots and both hourly totals, at once.
CommitBatch ==
    /\ process = "up" /\ writer # NoBatch
    /\ LET ids == lastLog + 1 .. lastLog + Len(writer.rows)
           rows == [l \in ids |-> writer.rows[l - lastLog]]
       IN  /\ history' = Extend(history, [l \in ids |-> [at |-> now, row |-> rows[l]]])
           /\ logs' = logs \cup ids
           /\ lastLog' = lastLog + Len(writer.rows)
           /\ StoreRows(rows, {})
           /\ usage' = [usage EXCEPT !.hours[Hour(now)] = Plus(@, UsageOf(rows))]
           /\ stats' = [stats EXCEPT !.hours[Hour(now)] = Plus(@, StatsOf(rows))]
    /\ writer' = NoBatch
    /\ UNCHANGED <<clockVars, process, oldVars, cleanup>>

\* insertLogBatchWithRetry gives up: nothing of the batch is stored.
BatchFails ==
    /\ process = "up" /\ writer # NoBatch /\ Fault
    /\ writer' = NoBatch
    /\ UNCHANGED <<now, process, logVars, payloadVars, oldVars, totalVars, cleanup>>

-----------------------------------------------------------------------------
(* The cleanup pass: clear, then retention, then collection, in batches.   *)
At(pc) == process = "up" /\ cleanup.pc = pc

AfterClear == IF cleanup.retention THEN "delete" ELSE IF cleanup.collect THEN "mark" ELSE "idle"
AfterMetas == IF cleanup.collect THEN "mark" ELSE "idle"
GoTo(pc) == cleanup' = IF pc = "idle" THEN Idle ELSE [cleanup EXCEPT !.pc = pc]

StartPass(retention, collect) ==
    /\ At("idle")
    /\ cleanup' = [Idle EXCEPT !.pc = "clear", !.retention = retention, !.collect = collect]
    /\ UNCHANGED <<clockVars, process, logVars, payloadVars, oldVars, totalVars, writer>>

WithBodies == {l \in DOMAIN snapshots : ~snapshots[l].cleared}

\* Mutant: the threshold row itself goes too.
FromKeepCount == {l \in WithBodies : Cardinality({k \in WithBodies : k > l}) >= KeepCount - 1}

\* The rows past the keepCount newest that still have bodies.
PastKeepCount == {l \in WithBodies : Cardinality({k \in WithBodies : k > l}) >= KeepCount}

Oldest(S, n) == {l \in S : Cardinality({k \in S : k < l}) < n}

\* Mutant: the flag is set and the body record left behind.
FlagOldLogBodies ==
    /\ At("clear")
    /\ LET gone == Oldest(PastKeepCount, ClearBatch)
       IN  /\ snapshots' = [l \in DOMAIN snapshots |->
                IF l \in gone THEN [snapshots[l] EXCEPT !.cleared = TRUE] ELSE snapshots[l]]
           /\ GoTo(IF Cardinality(gone) < ClearBatch THEN AfterClear ELSE "clear")
    /\ UNCHANGED <<clockVars, process, logVars, bodies, metas, chunks, lastMeta, lastChunk,
                   oldVars, totalVars, writer>>

ClearOldLogBodies ==
    /\ At("clear")
    /\ LET gone == Oldest(PastKeepCount, ClearBatch)
       IN  /\ bodies' = Keep(bodies, DOMAIN bodies \ gone)
           /\ snapshots' = [l \in DOMAIN snapshots |->
                IF l \in gone THEN [snapshots[l] EXCEPT !.cleared = TRUE] ELSE snapshots[l]]
           /\ GoTo(IF Cardinality(gone) < ClearBatch THEN AfterClear ELSE "clear")
    /\ UNCHANGED <<clockVars, process, logVars, metas, chunks, lastMeta, lastChunk,
                   oldVars, totalVars, writer>>

\* The delete takes the snapshot and body rows of a log with it.
DeleteOldLogs ==
    /\ At("delete")
    /\ LET expired == {l \in logs : history[l].at + Retention < now}
       IN  \E gone \in SUBSET expired :
             /\ Cardinality(gone) = IF Cardinality(expired) < DeleteBatch
                                    THEN Cardinality(expired) ELSE DeleteBatch
             /\ logs' = logs \ gone
             /\ snapshots' = Keep(snapshots, DOMAIN snapshots \ gone)
             /\ bodies' = Keep(bodies, DOMAIN bodies \ gone)
             /\ GoTo(IF Cardinality(gone) < DeleteBatch THEN "metas" ELSE "delete")
    /\ UNCHANGED <<clockVars, process, history, lastLog, metas, chunks, lastMeta, lastChunk,
                   oldVars, totalVars, writer>>

CollectLogMetas ==
    /\ At("metas")
    /\ metas' = Keep(metas, UNION {Values(snapshots[l].metas) : l \in DOMAIN snapshots})
    /\ GoTo(AfterMetas)
    /\ UNCHANGED <<clockVars, process, logVars, snapshots, bodies, chunks, lastMeta, lastChunk,
                   oldVars, totalVars, writer>>

\* What the records of some logs list, among the chunks a mark can hold.
MarksOf(S, last) == (UNION {Listed(bodies[l]) : l \in S}) \cap 1..last

\* markLogChunks, in one read snapshot.
MarkLogChunks ==
    /\ At("mark")
    /\ cleanup' = IF lastChunk = 0 THEN Idle
                  ELSE [cleanup EXCEPT !.pc = "sweep", !.marks = MarksOf(DOMAIN bodies, lastChunk),
                                       !.seen = lastLog, !.last = lastChunk, !.cursor = 0]
    /\ UNCHANGED <<clockVars, process, logVars, payloadVars, oldVars, totalVars, writer>>

\* The ids a sweep looks at: it stops where its batch is full or its scan ends.
SweepStop(marks) ==
    LET ahead == {id \in DOMAIN chunks : id > cleanup.cursor /\ id <= cleanup.last}
        UpTo(id) == {k \in ahead : k <= id}
        full == {id \in ahead : \/ Cardinality(UpTo(id) \ marks) >= SweepBatch
                                \/ Cardinality(UpTo(id)) >= ScanFactor * SweepBatch}
    IN  IF full = {} THEN cleanup.last ELSE CHOOSE id \in full : \A k \in full : id <= k

\* Mutant: the marks of the read snapshot are all there is.
SweepByFirstMarks ==
    /\ At("sweep")
    /\ LET stop == SweepStop(cleanup.marks)
           doomed == {id \in DOMAIN chunks :
                        id > cleanup.cursor /\ id <= stop /\ id \notin cleanup.marks}
       IN  /\ chunks' = Keep(chunks, DOMAIN chunks \ doomed)
           /\ cleanup' = IF stop >= cleanup.last THEN Idle ELSE [cleanup EXCEPT !.cursor = stop]
    /\ UNCHANGED <<clockVars, process, logVars, snapshots, bodies, metas, lastMeta, lastChunk,
                   oldVars, totalVars, writer>>

\* Mutant: one batch a pass, always from the first chunk.
SweepOnce ==
    /\ At("sweep")
    /\ LET since == {l \in DOMAIN bodies : l > cleanup.seen}
           marks == cleanup.marks \cup MarksOf(since, cleanup.last)
           doomed == {id \in DOMAIN chunks : id <= SweepStop(marks) /\ id \notin marks}
       IN  chunks' = Keep(chunks, DOMAIN chunks \ doomed)
    /\ cleanup' = Idle
    /\ UNCHANGED <<clockVars, process, logVars, snapshots, bodies, metas, lastMeta, lastChunk,
                   oldVars, totalVars, writer>>

\* sweepLogChunks marks what records written since list, then deletes.
SweepLogChunks ==
    /\ At("sweep")
    /\ LET since == {l \in DOMAIN bodies : l > cleanup.seen}
           marks == cleanup.marks \cup MarksOf(since, cleanup.last)
           stop == SweepStop(marks)
           doomed == {id \in DOMAIN chunks :
                        id > cleanup.cursor /\ id <= stop /\ id \notin marks}
       IN  /\ chunks' = Keep(chunks, DOMAIN chunks \ doomed)
           /\ cleanup' = IF stop >= cleanup.last THEN Idle
                         ELSE [cleanup EXCEPT !.marks = marks, !.cursor = stop,
                                 !.seen = IF since = {} THEN @
                                          ELSE CHOOSE l \in since : \A k \in since : k <= l]
    /\ UNCHANGED <<clockVars, process, logVars, snapshots, bodies, metas, lastMeta, lastChunk,
                   oldVars, totalVars, writer>>

\* A failed statement ends its step; the pass goes on with the next one.
PassFails ==
    /\ process = "up" /\ cleanup.pc # "idle" /\ Fault
    /\ GoTo(CASE cleanup.pc = "clear" -> AfterClear
              [] cleanup.pc = "delete" -> "metas"
              [] cleanup.pc = "metas" -> AfterMetas
              [] OTHER -> "idle")
    /\ UNCHANGED <<now, process, logVars, payloadVars, oldVars, totalVars, writer>>

-----------------------------------------------------------------------------
\* The process ends, wherever it is: what is not committed is gone.
Crash ==
    /\ process # "down" /\ Fault
    /\ process' = "down" /\ writer' = NoBatch /\ cleanup' = Idle
    /\ UNCHANGED <<now, logVars, payloadVars, oldVars, totalVars>>

Tick ==
    /\ now < MaxNow /\ now' = now + 1
    /\ UNCHANGED <<process, logVars, payloadVars, oldVars, totalVars, writer, cleanup, faults>>

StartUp ==
    \/ Start \/ EnsureUsageHourly \/ SplitCancelled \/ EnsureStatsHourly
    \/ DropOrphans \/ MigrateLogPayloads \/ DropOldTable

PassStep ==
    \/ ClearOldLogBodies \/ DeleteOldLogs \/ CollectLogMetas
    \/ MarkLogChunks \/ SweepLogChunks

Next ==
    \/ StartUp
    \/ PrepareBatch \/ CommitBatch \/ BatchFails
    \/ \E retention, collect \in BOOLEAN : StartPass(retention, collect)
    \/ PassStep \/ PassFails
    \/ Crash \/ Tick

\* A start goes through, a pass under way goes on, and the loop's tickers come
\* round to a pass that collects chunks.
Fairness ==
    /\ WF_vars(StartUp)
    /\ WF_vars(PassStep)
    /\ SF_vars(\E retention \in BOOLEAN : StartPass(retention, TRUE))

Spec == Init /\ [][Next]_vars /\ Fairness
-----------------------------------------------------------------------------
(* What the console reads: loadLogSnapshots, in one read snapshot. *)
ClearedBody(meta) == [meta |-> meta, kind |-> "cleared", pieces |-> <<>>]

\* assembleBody: a body with a missing chunk is not shown at all.
AssembleBody(meta, slot) ==
    IF Values(slot.chunks) \subseteq DOMAIN chunks
    THEN [meta |-> meta, kind |-> slot.kind,
          pieces |-> [j \in DOMAIN slot.chunks |-> chunks[slot.chunks[j]]]]
    ELSE ClearedBody(meta)

LoadLogSnapshots(l) ==
    [s \in Slots |->
       IF l \notin DOMAIN snapshots \/ snapshots[l].metas[s] \notin DOMAIN metas
       THEN NoSnapshot
       ELSE LET meta == metas[snapshots[l].metas[s]]
            IN  IF snapshots[l].cleared THEN ClearedBody(meta)
                ELSE IF l \notin DOMAIN bodies
                THEN [meta |-> meta, kind |-> "none", pieces |-> <<>>]
                ELSE AssembleBody(meta, DecodeRecord(bodies[l])[s])]

\* What the row was committed with, or only its metadata once it is cleared.
Captured(l) ==
    [s \in Slots |->
       LET slot == history[l].row.slots[s]
       IN  IF HasSnapshot(slot) /\ snapshots[l].cleared THEN ClearedBody(slot.meta) ELSE slot]

HasSnapshots(l) == \E s \in Slots : HasSnapshot(history[l].row.slots[s])
-----------------------------------------------------------------------------
(* Every variable has its shape; ids handed out bound the ids in use. *)
TypeOK ==
    /\ now \in Times /\ faults \in 0..MaxFaults
    /\ process \in {"down", "usage", "split", "stats", "orphans", "migrate", "up"}
    /\ logs \subseteq DOMAIN history /\ DOMAIN history \subseteq 1..lastLog
    /\ DOMAIN snapshots \subseteq logs /\ DOMAIN bodies \subseteq DOMAIN snapshots
    /\ DOMAIN metas \subseteq 1..lastMeta /\ DOMAIN chunks \subseteq 1..lastChunk
    /\ \A l \in DOMAIN snapshots : /\ snapshots[l].cleared \in BOOLEAN
                                   /\ snapshots[l].metas \in [Slots -> 0..lastMeta]
    /\ \A l \in DOMAIN bodies : ~snapshots[l].cleared /\ Listed(bodies[l]) \subseteq 1..lastChunk
    /\ cleanup.pc \in {"idle", "clear", "delete", "metas", "mark", "sweep"}
    /\ cleanup.marks \subseteq 1..cleanup.last /\ cleanup.seen \in 0..lastLog
    /\ cleanup.last \in 0..lastChunk /\ cleanup.cursor \in 0..cleanup.last

(* A log reads back what it was committed with, whole, for as long as its  *)
(* bodies are kept, and its metadata afterwards: whatever the writer, the  *)
(* keep-count, retention and the two collectors did meanwhile, wherever a  *)
(* pass or a start-up was cut off. An old row reads back from the moment   *)
(* it is moved, and is still in the old table until then; slots that share *)
(* their chunks and ids stored as differences come back as they were       *)
(* (db/logbody.go:437-447, db/logbody_migrate.go:31-33,                    *)
(* logbody/record.go:55-64).                                               *)
ReadsBack ==
    \A l \in logs :
      IF HasSnapshots(l) /\ l \notin DOMAIN legacy
      THEN l \in DOMAIN snapshots /\ LoadLogSnapshots(l) = Captured(l)
      ELSE LoadLogSnapshots(l) = [s \in Slots |-> NoSnapshot]

(* The keep-count policy never takes the bodies of one of the newest       *)
(* LogBodyKeepCount rows that have them, whatever was written between its  *)
(* batches (db/log.go:645-651).                                            *)
NewestBodiesKept ==
    [][\A l \in DOMAIN snapshots \cap DOMAIN snapshots' :
         ~snapshots[l].cleared /\ snapshots'[l].cleared =>
           Cardinality({k \in WithBodies' : k > l}) >= KeepCount]_vars

(* Each table of hourly totals holds every row ever committed exactly once *)
(* — before the upgrade or after, through any number of starts cut short — *)
(* and goes on holding the rows retention has deleted (db/stats.go:149-151,*)
(* db/usage.go:112-115, 149-152).                                          *)
TotalsCountEachRowOnce ==
    LET ever == DOMAIN history
    IN  /\ stats.table = "current" => stats.hours = FileStats(history, ever)
        /\ usage.table = "current" => usage.hours = FileUsage(history, ever)
        /\ usage.table = "old" => usage.hours = FileOldUsage(history, ever)

(* A window read from whole hours and part hours counts every row in it    *)
(* that is still there, no row twice, and none outside it: between the     *)
(* rows left and the rows ever committed (db/stats.go:234-240).            *)
WindowsAgree ==
    stats.table = "current" =>
      \A start \in {0} \cup HourLength..MaxNow, end \in {0} \cup HourLength..MaxNow+1 :
        end = 0 \/ start < end =>
          LET In(S) == Cardinality({l \in S : history[l].at >= start /\ (end # 0 => history[l].at < end)})
          IN  WindowTotal(start, end) \in In(logs)..In(DOMAIN history)

(* The hourly totals are exact, and so is what is read from them           *)
(* (db/stats.go:149-151, 234-252).                                         *)
TotalsAreExact == TotalsCountEachRowOnce /\ WindowsAgree

(* A chunk that no record lists is collected in the end, or listed again:  *)
(* passes cut short and failed ones leave nothing behind for good          *)
(* (proxy/logging.go:856-866).                                             *)
ChunkIds == 1..2 * MaxLogs
Unlisted(id) ==
    id \in DOMAIN chunks /\ \A l \in DOMAIN bodies : id \notin Listed(bodies[l])
UnlistedChunksCollected ==
    \A id \in ChunkIds : Unlisted(id) ~> ~Unlisted(id)
=============================================================================

----------------------------- MODULE QuotaLedger ----------------------------
(***************************************************************************)
(* Token quota: admission, the in-memory tracker of usage the database     *)
(* does not show yet, and the log writer that commits it.                  *)
(*                                                                         *)
(*   middleware/auth.go   RequireDownstream: lookup, admit, run, release   *)
(*   quota/tracker.go     Tracker: provisional and metered usage           *)
(*   proxy/logging.go     LogWriter: queue, carried usage, batches         *)
(*   db/token.go          edits of the api_tokens row                      *)
(*                                                                         *)
(* A request is one pass through RequireDownstream; it schedules up to     *)
(* MaxLogs log entries, one per upstream attempt, and then releases its    *)
(* reservation. A log entry is named <<request, n>>; its body and its      *)
(* columns are left out, its usage is use[<<request, n>>].                 *)
(***************************************************************************)
EXTENDS Integers, Sequences, FiniteSets, UsageAmounts

CONSTANTS Requests,         \* downstream requests
          Tokens,           \* api_tokens rows present at the start
          Costs,            \* what an attempt may report; 0 reports nothing
          Limits,           \* limit_tokens values; 0 is "no limit" (auth.go:502)
          ProvisionalCost,  \* weight of a running request (tracker.go:24)
          QueueCapacity,    \* capacity of LogWriter.entries
          BatchSize,        \* logWriteBatchSize
          MaxWriteAttempts, \* logWriteMaxAttempts
          MaxLogs,          \* bound: log entries per request
          MaxFaults,        \* bound: failed write attempts
          MaxEdits          \* bound: operator edits of token rows

ASSUME QuotaAssumption ==
    /\ IsFiniteSet(Requests) /\ Tokens # {}
    /\ Costs \subseteq 0..MaxUse
    /\ Limits \subseteq Nat /\ 0 \in Limits
    /\ {ProvisionalCost, QueueCapacity, BatchSize, MaxWriteAttempts} \subseteq Nat \ {0}
    /\ {MaxLogs, MaxFaults, MaxEdits} \subseteq Nat

VARIABLES
    rows, used, limit,            \* api_tokens: ids, used_tokens, limit_tokens
    requests, metered, tracked,   \* Tracker.tokens: counters, keys of the map
    pc, cred, reserved,           \* per request: step, credential read, Reservation.held
    logged, use,                  \* entries scheduled so far, and their usage
    queue, closed,                \* LogWriter.entries, LogWriter.closed
    carried,                      \* LogWriter.carried
    writer, batch, taken,         \* the writer goroutine, what its flush holds
    attempt, final,               \* insert attempt, whether run returns after flush
    faults, edits                 \* counted against MaxFaults and MaxEdits

dbVars      == <<rows, used, limit>>
trackerVars == <<requests, metered, tracked>>
requestVars == <<pc, cred, reserved, logged, use>>
queueVars   == <<queue, closed>>
writerVars  == <<writer, batch, taken, attempt, final>>
vars == <<dbVars, trackerVars, requestVars, queueVars, carried, writerVars,
          faults, edits>>

Entries == Requests \X (1..MaxLogs)
NoUsage == [t \in Tokens |-> 0]

\* The token each entry is charged to: its request's credential.
Owner == [e \in Entries |-> cred[e[1]].token]

\* The usage a set of entries carries for t (quotaUsage, summed).
AmountOf(S, t) == Amount(S, Owner, use, t)

Queued == {queue[i] : i \in DOMAIN queue}

Init ==
    /\ rows = Tokens /\ used = NoUsage /\ limit \in [Tokens -> Limits]
    /\ requests = NoUsage /\ metered = NoUsage /\ tracked = {}
    /\ pc = [r \in Requests |-> "idle"]
    /\ cred = [r \in Requests |->
                 [token |-> CHOOSE t \in Tokens : TRUE, used |-> 0, limit |-> 0]]
    /\ reserved = {}
    /\ logged = [r \in Requests |-> 0] /\ use = [e \in Entries |-> 0]
    /\ queue = <<>> /\ closed = FALSE /\ carried = NoUsage
    /\ writer = "idle" /\ batch = {} /\ taken = NoUsage
    /\ attempt = 0 /\ final = FALSE
    /\ faults = 0 /\ edits = 0
-----------------------------------------------------------------------------
(* quota.Tracker. Each operation runs under Tracker.mu and is one step.     *)

\* Mutant: admission forgets the usage the stored total does not show.
ProjectedStored(t, stored) == stored + requests[t] * ProvisionalCost

\* What admission weighs: the stored total it was given, plus what the tracker
\* holds.
Projected(t, stored) == stored + metered[t] + requests[t] * ProvisionalCost

\* Mutant: a token that has gone idle keeps its key.
DiscardNever(t) == tracked' = tracked

\* discardIfIdle: the map keeps a key only while it holds something.
DiscardIfIdle(t) ==
    tracked' = IF requests'[t] = 0 /\ metered'[t] = 0 THEN tracked \ {t} ELSE tracked

\* Reserve room for one request.
Reserve(t) ==
    /\ requests' = [requests EXCEPT ![t] = @ + 1]
    /\ tracked' = tracked \cup {t}
    /\ UNCHANGED metered

\* Hold usage that is known but not committed. Usage of 0 is not metered.
Meter(t, u) ==
    /\ metered' = [metered EXCEPT ![t] = @ + u]
    /\ tracked' = IF u > 0 THEN tracked \cup {t} ELSE tracked
    /\ UNCHANGED requests

AtLeastZero(n) == IF n > 0 THEN n ELSE 0

\* Drop a hold whose usage the stored total now carries.
Settle(t, u) ==
    IF u > 0 /\ t \in tracked
    THEN /\ metered' = [metered EXCEPT ![t] = AtLeastZero(@ - u)]
         /\ UNCHANGED requests
         /\ DiscardIfIdle(t)
    ELSE UNCHANGED trackerVars

\* Return one reservation.
ReleaseHold(t) ==
    IF t \in tracked
    THEN /\ requests' = [requests EXCEPT ![t] = AtLeastZero(@ - 1)]
         /\ UNCHANGED metered
         /\ DiscardIfIdle(t)
    ELSE UNCHANGED trackerVars
-----------------------------------------------------------------------------
(* RequireDownstream, one request.                                          *)

\* LookupEnabledDownstreamToken: one SELECT reads the total and the limit.
Lookup(r) ==
    /\ pc[r] = "idle"
    /\ \E t \in rows :
         cred' = [cred EXCEPT ![r] = [token |-> t, used |-> used[t], limit |-> limit[t]]]
    /\ pc' = [pc EXCEPT ![r] = "looked"]
    /\ UNCHANGED <<dbVars, trackerVars, reserved, logged, use, queueVars, carried,
                   writerVars, faults, edits>>

\* Tracker.Admit without a limit: the zero Reservation, which holds nothing.
AdmitUnlimited(r) ==
    /\ pc[r] = "looked" /\ cred[r].limit = 0
    /\ pc' = [pc EXCEPT ![r] = "running"]
    /\ UNCHANGED <<dbVars, trackerVars, cred, reserved, logged, use, queueVars,
                   carried, writerVars, faults, edits>>

\* Tracker.Admit with a limit there is room under.
Admit(r) ==
    /\ pc[r] = "looked" /\ cred[r].limit # 0
    /\ Projected(cred[r].token, cred[r].used) < cred[r].limit
    /\ Reserve(cred[r].token)
    /\ reserved' = reserved \cup {r}
    /\ pc' = [pc EXCEPT ![r] = "running"]
    /\ UNCHANGED <<dbVars, cred, logged, use, queueVars, carried, writerVars,
                   faults, edits>>

\* Tracker.Admit with the budget spent: the quota refusal is answered.
Refuse(r) ==
    /\ pc[r] = "looked" /\ cred[r].limit # 0
    /\ Projected(cred[r].token, cred[r].used) >= cred[r].limit
    /\ pc' = [pc EXCEPT ![r] = "done"]
    /\ UNCHANGED <<dbVars, trackerVars, cred, reserved, logged, use, queueVars,
                   carried, writerVars, faults, edits>>

\* Mutant: the handler returns without the deferred release.
ReleaseForgotten(r) ==
    /\ pc[r] = "running"
    /\ pc' = [pc EXCEPT ![r] = "done"]
    /\ reserved' = reserved \ {r}
    /\ UNCHANGED <<dbVars, trackerVars, cred, logged, use, queueVars, carried,
                   writerVars, faults, edits>>

\* The deferred Reservation.Release, once the handler below has returned: every
\* entry the request logs is scheduled before it.
Release(r) ==
    /\ pc[r] = "running"
    /\ pc' = [pc EXCEPT ![r] = "done"]
    /\ reserved' = reserved \ {r}
    /\ IF r \in reserved THEN ReleaseHold(cred[r].token) ELSE UNCHANGED trackerVars
    /\ UNCHANGED <<dbVars, cred, logged, use, queueVars, carried, writerVars,
                   faults, edits>>
-----------------------------------------------------------------------------
(* LogWriter.Schedule: the hold is taken first, then the entry is sent.     *)
(* closeMu is read-locked from before the hold until after the send.        *)

Current(r) == <<r, logged[r]>>

\* The first half: an attempt of r ended having used u, and the usage is metered.
Hold(r) ==
    /\ pc[r] = "running" /\ logged[r] < MaxLogs
    /\ \E u \in Costs :
         /\ use' = [use EXCEPT ![<<r, logged[r] + 1>>] = u]
         /\ Meter(cred[r].token, u)
    /\ logged' = [logged EXCEPT ![r] = @ + 1]
    /\ pc' = [pc EXCEPT ![r] = "holding"]
    /\ UNCHANGED <<dbVars, cred, reserved, queueVars, carried, writerVars, faults, edits>>

\* Mutant: the room left on the queue is off by one.
EnqueueOnePastFull(r) ==
    /\ pc[r] = "holding" /\ ~closed /\ Len(queue) <= QueueCapacity
    /\ queue' = Append(queue, Current(r))
    /\ pc' = [pc EXCEPT ![r] = "running"]
    /\ UNCHANGED <<dbVars, trackerVars, cred, reserved, logged, use, closed, carried,
                   writerVars, faults, edits>>

\* The second half: the entry goes onto the queue ...
Enqueue(r) ==
    /\ pc[r] = "holding" /\ ~closed /\ Len(queue) < QueueCapacity
    /\ queue' = Append(queue, Current(r))
    /\ pc' = [pc EXCEPT ![r] = "running"]
    /\ UNCHANGED <<dbVars, trackerVars, cred, reserved, logged, use, closed, carried,
                   writerVars, faults, edits>>

\* Mutant: a dropped row takes its usage with it.
DropRowAndUsage(r) ==
    /\ pc[r] = "holding" /\ (closed \/ Len(queue) >= QueueCapacity)
    /\ pc' = [pc EXCEPT ![r] = "running"]
    /\ UNCHANGED <<dbVars, trackerVars, cred, reserved, logged, use, queueVars, carried,
                   writerVars, faults, edits>>

\* ... or the queue is full or closed: the row is dropped, its usage carried.
Drop(r) ==
    /\ pc[r] = "holding" /\ (closed \/ Len(queue) >= QueueCapacity)
    /\ carried' = [carried EXCEPT ![cred[r].token] = @ + use[Current(r)]]
    /\ pc' = [pc EXCEPT ![r] = "running"]
    /\ UNCHANGED <<dbVars, trackerVars, cred, reserved, logged, use, queueVars,
                   writerVars, faults, edits>>

\* CloseWithin: closeMu keeps it out of a Schedule in progress. Setting the flag
\* and closing the channel are one step: between them a Schedule sees what it
\* sees afterwards, and the writer what it saw before.
Close ==
    /\ ~closed /\ \A r \in Requests : pc[r] # "holding"
    /\ closed' = TRUE
    /\ UNCHANGED <<dbVars, trackerVars, requestVars, queue, carried, writerVars,
                   faults, edits>>
-----------------------------------------------------------------------------
(* LogWriter.run, the single writer goroutine.                              *)

HasCarried == carried # NoUsage

\* flush begins: the batch takes everything carried with it.
TakeCarried ==
    /\ taken' = carried
    /\ carried' = NoUsage
    /\ attempt' = 0

\* run receives the first entry of a batch, or a further one.
Receive ==
    /\ writer \in {"idle", "collecting"} /\ queue # <<>>
    /\ Cardinality(batch) < BatchSize
    /\ batch' = batch \cup {Head(queue)}
    /\ queue' = Tail(queue)
    /\ writer' = "collecting"
    /\ UNCHANGED <<dbVars, trackerVars, requestVars, closed, carried, taken, attempt,
                   final, faults, edits>>

\* The batch is full, or its window closed.
FlushBatch ==
    /\ writer = "collecting"
    /\ TakeCarried
    /\ writer' = "writing"
    /\ UNCHANGED <<dbVars, trackerVars, requestVars, queueVars, batch, final, faults,
                   edits>>

\* Collecting found the channel closed: run returns after this flush.
FlushLastBatch ==
    /\ writer = "collecting" /\ closed /\ queue = <<>> /\ Cardinality(batch) < BatchSize
    /\ TakeCarried
    /\ writer' = "writing" /\ final' = TRUE
    /\ UNCHANGED <<dbVars, trackerVars, requestVars, queueVars, batch, faults, edits>>

\* Mutant: carried usage waits for the shutdown instead of the next tick.
FlushCarriedLate ==
    /\ writer = "idle" /\ HasCarried /\ closed
    /\ TakeCarried
    /\ writer' = "writing"
    /\ UNCHANGED <<dbVars, trackerVars, requestVars, queueVars, batch, final, faults,
                   edits>>

\* carriedRetry ticks: carried usage is applied without rows.
FlushCarried ==
    /\ writer = "idle" /\ HasCarried
    /\ TakeCarried
    /\ writer' = "writing"
    /\ UNCHANGED <<dbVars, trackerVars, requestVars, queueVars, batch, final, faults,
                   edits>>

\* Mutant: the writer returns when the queue is closed, before it is drained.
FlushAtCloseUndrained ==
    /\ writer = "idle" /\ closed
    /\ TakeCarried
    /\ writer' = IF HasCarried THEN "writing" ELSE "done"
    /\ final' = TRUE
    /\ UNCHANGED <<dbVars, trackerVars, requestVars, queueVars, batch, faults, edits>>

\* Mutant: the writer goes on waiting when there is nothing left to flush.
FlushAtCloseOwing ==
    /\ writer = "idle" /\ closed /\ queue = <<>> /\ HasCarried
    /\ TakeCarried
    /\ writer' = "writing"
    /\ final' = TRUE
    /\ UNCHANGED <<dbVars, trackerVars, requestVars, queueVars, batch, faults, edits>>

\* The channel is closed and drained: one last flush of what is carried.
FlushAtClose ==
    /\ writer = "idle" /\ closed /\ queue = <<>>
    /\ TakeCarried
    /\ writer' = IF HasCarried THEN "writing" ELSE "done"
    /\ final' = TRUE
    /\ UNCHANGED <<dbVars, trackerVars, requestVars, queueVars, batch, faults, edits>>

AfterFlush == IF final THEN "done" ELSE "idle"

\* An insert attempt finds the database locked and is retried.
RetryLocked ==
    /\ writer = "writing" /\ attempt + 1 < MaxWriteAttempts /\ faults < MaxFaults
    /\ attempt' = attempt + 1
    /\ faults' = faults + 1
    /\ UNCHANGED <<dbVars, trackerVars, requestVars, queueVars, carried, writer, batch,
                   taken, final, edits>>

\* Mutant: a failed batch carries its entries' usage and loses what it had taken.
FailBatchTaken ==
    /\ writer = "writing" /\ faults < MaxFaults
    /\ carried' = [t \in Tokens |-> carried[t] + AmountOf(batch, t)]
    /\ batch' = {} /\ taken' = NoUsage
    /\ writer' = AfterFlush
    /\ faults' = faults + 1
    /\ UNCHANGED <<dbVars, trackerVars, requestVars, queueVars, attempt, final, edits>>

\* The batch is given up: rolled back, its rows lost, its usage carried again.
FailBatch ==
    /\ writer = "writing" /\ faults < MaxFaults
    /\ carried' = [t \in Tokens |-> carried[t] + AmountOf(batch, t) + taken[t]]
    /\ batch' = {} /\ taken' = NoUsage
    /\ writer' = AfterFlush
    /\ faults' = faults + 1
    /\ UNCHANGED <<dbVars, trackerVars, requestVars, queueVars, attempt, final, edits>>

\* insertLogBatch commits. The total of a deleted token is not there to advance;
\* its row is stored with a NULL parent.
CommitBatch ==
    /\ writer = "writing"
    /\ used' = [t \in Tokens |->
                  IF t \in rows THEN used[t] + AmountOf(batch, t) + taken[t] ELSE used[t]]
    /\ writer' = "settling"
    /\ UNCHANGED <<rows, limit, trackerVars, requestVars, queueVars, carried, batch,
                   taken, attempt, final, faults, edits>>

\* After the commit the holds are settled one Settle call at a time, the entries'
\* and then the carried usage's.
SettleEntry ==
    /\ writer = "settling"
    /\ \E e \in batch :
         /\ batch' = batch \ {e}
         /\ Settle(Owner[e], use[e])
    /\ UNCHANGED <<dbVars, requestVars, queueVars, carried, writer, taken, attempt,
                   final, faults, edits>>

SettleCarried ==
    /\ writer = "settling" /\ batch = {}
    /\ \E t \in Tokens :
         /\ taken[t] # 0
         /\ taken' = [taken EXCEPT ![t] = 0]
         /\ Settle(t, taken[t])
    /\ UNCHANGED <<dbVars, requestVars, queueVars, carried, writer, batch, attempt,
                   final, faults, edits>>

SettleDone ==
    /\ writer = "settling" /\ batch = {} /\ taken = NoUsage
    /\ writer' = AfterFlush
    /\ UNCHANGED <<dbVars, trackerVars, requestVars, queueVars, carried, batch, taken,
                   attempt, final, faults, edits>>
-----------------------------------------------------------------------------
(* The operator edits token rows through the console.                       *)

ResetTokenUsage(t) ==
    /\ t \in rows /\ edits < MaxEdits
    /\ used' = [used EXCEPT ![t] = 0]
    /\ edits' = edits + 1
    /\ UNCHANGED <<rows, limit, trackerVars, requestVars, queueVars, carried,
                   writerVars, faults>>

\* UpdateToken changes the limit. Ids are never reused (AUTOINCREMENT).
UpdateToken(t) ==
    /\ t \in rows /\ edits < MaxEdits
    /\ \E l \in Limits : limit' = [limit EXCEPT ![t] = l]
    /\ edits' = edits + 1
    /\ UNCHANGED <<rows, used, trackerVars, requestVars, queueVars, carried,
                   writerVars, faults>>

DeleteToken(t) ==
    /\ t \in rows /\ edits < MaxEdits
    /\ rows' = rows \ {t}
    /\ edits' = edits + 1
    /\ UNCHANGED <<used, limit, trackerVars, requestVars, queueVars, carried,
                   writerVars, faults>>
-----------------------------------------------------------------------------
RequestStep(r) ==
    \/ Lookup(r) \/ AdmitUnlimited(r) \/ Admit(r) \/ Refuse(r) \/ Release(r)
    \/ Hold(r) \/ Enqueue(r) \/ Drop(r)

WriterStep ==
    \/ Receive \/ FlushBatch \/ FlushLastBatch \/ FlushCarried \/ FlushAtClose
    \/ RetryLocked \/ FailBatch \/ CommitBatch
    \/ SettleEntry \/ SettleCarried \/ SettleDone

EditToken(t) == ResetTokenUsage(t) \/ UpdateToken(t) \/ DeleteToken(t)

Next ==
    \/ \E r \in Requests : RequestStep(r)
    \/ Close
    \/ WriterStep
    \/ \E t \in Tokens : EditToken(t)

\* The writer goroutine keeps running, its timers fire, and a Schedule in
\* progress, which never blocks, completes. Nothing makes a client send
\* requests, a handler finish, the operator edit or the server shut down.
Fairness ==
    /\ WF_vars(WriterStep)
    /\ \A r \in Requests : WF_vars(Enqueue(r) \/ Drop(r))

Spec == Init /\ [][Next]_vars

FairSpec == Spec /\ Fairness
-----------------------------------------------------------------------------
(* What the ledger owes.                                                    *)

\* Entries whose usage is metered and not settled, and those of them that no
\* commit has stored.
InSchedule == {Current(r) : r \in {q \in Requests : pc[q] = "holding"}}
Unsettled  == InSchedule \cup Queued \cup batch
Committed  == writer = "settling"
Unstored   == InSchedule \cup Queued \cup (IF Committed THEN {} ELSE batch)

\* Usage incurred for t that its stored total does not show.
Owed(t) ==
    AmountOf(Unstored, t) + carried[t] + (IF Committed THEN 0 ELSE taken[t])

\* The admitted requests of t that have not returned.
RunningOn(t) == {r \in reserved : cred[r].token = t}

DbType ==
    /\ rows \subseteq Tokens
    /\ used \in [Tokens -> Nat]
    /\ limit \in [Tokens -> Limits]

TrackerType ==
    /\ requests \in [Tokens -> Nat]
    /\ metered \in [Tokens -> Nat]
    /\ tracked \subseteq Tokens

RequestType ==
    /\ pc \in [Requests -> {"idle", "looked", "running", "holding", "done"}]
    /\ cred \in [Requests -> [token : Tokens, used : Nat, limit : Limits]]
    /\ reserved \subseteq Requests
    /\ logged \in [Requests -> 0..MaxLogs]
    /\ use \in [Entries -> 0..MaxUse]

QueueType ==
    /\ queue \in Seq(Entries)
    /\ Len(queue) <= QueueCapacity
    /\ closed \in BOOLEAN
    /\ carried \in [Tokens -> Nat]

WriterType ==
    /\ writer \in {"idle", "collecting", "writing", "settling", "done"}
    /\ batch \subseteq Entries
    /\ taken \in [Tokens -> Nat]
    /\ attempt \in 0..(MaxWriteAttempts - 1)
    /\ final \in BOOLEAN

(* Every variable has its type; the tracker's counters and what the batch   *)
(* holds never go below zero (tracker.go:144, 177).                         *)
TypeOK ==
    /\ DbType /\ TrackerType /\ RequestType /\ QueueType /\ WriterType
    /\ faults \in 0..MaxFaults /\ edits \in 0..MaxEdits

(* The tracker holds exactly the usage that is in flight between the        *)
(* handler and the settled commit, entry by entry: nothing metered is lost  *)
(* when a row is dropped or a batch fails, and no hold outlives its commit  *)
(* to refuse the token until a restart (logging.go:233-236, 271-278,        *)
(* 425-440).                                                                *)
HeldExactly ==
    \A t \in Tokens : metered[t] = AmountOf(Unsettled, t) + carried[t] + taken[t]

(* Every admitted request that is still running weighs on its own token     *)
(* once, through every outcome, and stops weighing when it returns          *)
(* (tracker.go:68-85).                                                      *)
ReservationsExact == \A t \in Tokens : requests[t] = Cardinality(RunningOn(t))

(* The tracker keeps a key exactly for the tokens that hold something, the  *)
(* leak Tracked() is there to show (tracker.go:161-187).                    *)
TrackedExactly == tracked = {t \in Tokens : requests[t] > 0 \/ metered[t] > 0}

(* The writer never returns with an entry left on the queue, however the    *)
(* close interleaves with the handlers still scheduling (logging.go:174-179, *)
(* 325-331, 380-401).                                                       *)
NothingStranded == writer = "done" => closed /\ queue = <<>>

Admitted(r) == pc[r] = "looked" /\ pc'[r] = "running" /\ cred[r].limit # 0

(* When the total a request read is still the stored one, it is admitted    *)
(* only if everything spent on the token, stored or not, and a provisional  *)
(* charge for each request running on it leave room below its limit: the    *)
(* overshoot of a burst is bounded (tracker.go:7-33).                       *)
AdmissionSound ==
    [][\A r \in Requests :
         LET t == cred[r].token IN
         Admitted(r) /\ cred[r].used = used[t]
           => used[t] + Owed(t) + Cardinality(RunningOn(t)) * ProvisionalCost
                < cred[r].limit]_vars

(* The stronger claim of tracker.go:28-32 and auth.go:225-231: admission    *)
(* weighs both kinds of usage the stored total does not show, so it never   *)
(* hands out budget that is already spent.                                  *)
NoSpentBudgetHandedOut ==
    [][\A r \in Requests :
         LET t == cred[r].token IN
         Admitted(r) => used[t] + Owed(t) < cred[r].limit]_vars

(* The accounting implements the abstract ledger: usage is stored exactly   *)
(* once, whether its row is written, dropped or rolled back                 *)
(* (logging.go:626-640, 271-274, 425-434).                                  *)
Abstract == INSTANCE Ledger WITH owed <- [t \in Tokens |-> Owed(t)]
ImplementsLedger == Abstract!Spec

(* Closing the queue ends the writer, whatever the database does            *)
(* (logging.go:311-348).                                                    *)
WriterStops == closed ~> writer = "done"

(* Usage owed to a total is stored while the writer lives, even when no     *)
(* further request brings a batch along (logging.go:353-356).               *)
DebtIsStored ==
    \A t \in Tokens : Owed(t) > 0 ~> (Owed(t) = 0 \/ writer = "done")
=============================================================================

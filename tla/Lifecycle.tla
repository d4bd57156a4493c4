----------------------------- MODULE Lifecycle ------------------------------
(***************************************************************************)
(* The life of the process: it listens, answers, and on a signal or a      *)
(* broken listener drains the requests and the log queue before the jobs   *)
(* are cancelled and the database closed, each wait with a bound.          *)
(*   app/server.go, proxy/logging.go LogWriter                             *)
(***************************************************************************)
EXTENDS Integers, Sequences, SequencesExt

CONSTANTS
    Handlers,       \* each answers one request and leaves one row
    QueueCapacity,  \* LogQueueCapacity
    BatchSize       \* logWriteBatchSize

ASSUME LifecycleAssumption == QueueCapacity \in Nat \ {0} /\ BatchSize \in Nat \ {0}

VARIABLES
    phase, jobsLive, databaseOpen,
    drained,            \* what CloseWithin returned
    handler,
    queue, queueOpen,
    logWriter,          \* [at, batch, last]: last, it saw the queue closed
    accepted,           \* history: the rows the queue took
    saved, lost,        \* of them, those the database wrote and refused
    cutOff              \* and those the shutdown failed

mainVars == <<phase, jobsLive, databaseOpen, drained>>
queueVars == <<queue, queueOpen>>
rowVars == <<accepted, saved, lost, cutOff>>
lifeVars == <<mainVars, handler, queueVars, logWriter, rowVars>>

WriterIdle == [at |-> "waiting", batch |-> <<>>, last |-> FALSE]

\* NewWithSettings up to the listener: database, writer and jobs are there.
LifeInit ==
    /\ phase = "starting" /\ jobsLive = TRUE /\ databaseOpen = TRUE /\ drained = FALSE
    /\ handler = [h \in Handlers |-> "none"]
    /\ queue = <<>> /\ queueOpen = TRUE /\ logWriter = WriterIdle
    /\ accepted = {} /\ saved = {} /\ lost = {} /\ cutOff = {}
-----------------------------------------------------------------------------
(* Serve and shutdownResources *)
Go(from, to) ==
    /\ phase = from /\ phase' = to
    /\ UNCHANGED <<handler, queueVars, logWriter, rowVars>>
KeepOpen == UNCHANGED <<jobsLive, databaseOpen, drained>>

Listen == Go("starting", "serving") /\ KeepOpen

\* The port is taken: the jobs go first, for the queue is empty.
BindFails == Go("starting", "unbound") /\ jobsLive' = FALSE /\ UNCHANGED <<databaseOpen, drained>>

Interrupt == Go("serving", "draining") /\ KeepOpen

\* The listener broke: nobody is waited for.
ListenerFails == Go("serving", "closing") /\ KeepOpen

\* Shutdown returns when no request is left, or after requestDrainTimeout.
RequestsDrained == (\A h \in Handlers : handler[h] # "running") /\ Go("draining", "closing") /\ KeepOpen
RequestsOutliveDrain == (\E h \in Handlers : handler[h] = "running") /\ Go("draining", "closing") /\ KeepOpen

CloseQueue ==
    /\ phase \in {"closing", "unbound"} /\ queueOpen /\ queueOpen' = FALSE
    /\ UNCHANGED <<mainVars, handler, queue, logWriter, rowVars>>

\* CloseWithin: the writer is done, or logDrainTimeout is over.
QueueDrained ==
    /\ logWriter.at = "done" /\ drained' = TRUE
    /\ Go("closing", "waited") \/ Go("unbound", "cancelled")
    /\ UNCHANGED <<jobsLive, databaseOpen>>
QueueOutlivesDrain ==
    /\ ~queueOpen /\ logWriter.at # "done" /\ drained' = FALSE
    /\ Go("closing", "waited")
    /\ UNCHANGED <<jobsLive, databaseOpen>>

CancelJobs == Go("waited", "cancelled") /\ jobsLive' = FALSE /\ UNCHANGED <<databaseOpen, drained>>

\* Mutant: the database is closed under a writer still at work.
CloseDatabaseAnyway == Go("cancelled", "closed") /\ databaseOpen' = FALSE /\ UNCHANGED <<jobsLive, drained>>

\* A writer that is still working keeps its database.
CloseDatabase == Go("cancelled", "closed") /\ databaseOpen' = ~drained /\ UNCHANGED <<jobsLive, drained>>

Exit == Go("closed", "exited") /\ KeepOpen
-----------------------------------------------------------------------------
(* The requests *)
Running == phase # "exited"

Accept(h) ==
    /\ phase = "serving" /\ handler[h] = "none"
    /\ handler' = [handler EXCEPT ![h] = "running"]
    /\ UNCHANGED <<mainVars, queueVars, logWriter, rowVars>>

\* An answer ends, whatever the process is at, and its row is scheduled: a
\* queue that is closed or full drops it.
Answered(h) ==
    /\ Running /\ handler[h] = "running"
    /\ handler' = [handler EXCEPT ![h] = "ended"]
    /\ IF queueOpen /\ Len(queue) < QueueCapacity
       THEN queue' = Append(queue, h) /\ accepted' = accepted \cup {h}
       ELSE UNCHANGED <<queue, accepted>>
    /\ UNCHANGED <<mainVars, queueOpen, logWriter, saved, lost, cutOff>>
-----------------------------------------------------------------------------
(* LogWriter.run *)
Work(at, batch, last) ==
    /\ Running /\ logWriter' = [at |-> at, batch |-> batch, last |-> last]
    /\ UNCHANGED <<mainVars, handler, queueOpen>>
TakeNext == queue # <<>> /\ queue' = Tail(queue) /\ UNCHANGED rowVars

TakeRow == logWriter.at = "waiting" /\ TakeNext /\ Work("collecting", <<Head(queue)>>, FALSE)

CollectRow ==
    /\ logWriter.at = "collecting" /\ Len(logWriter.batch) < BatchSize
    /\ TakeNext /\ Work("collecting", Append(logWriter.batch, Head(queue)), FALSE)

WriterReturns ==
    /\ logWriter.at = "waiting" /\ queue = <<>> /\ ~queueOpen
    /\ Work("done", <<>>, FALSE) /\ UNCHANGED <<queue, rowVars>>

\* The batch is full, its window closed, or the queue closed and empty.
FlushDue ==
    /\ logWriter.at = "collecting"
    /\ \E last \in {FALSE, queue = <<>> /\ ~queueOpen} : Work("writing", logWriter.batch, last)
    /\ UNCHANGED <<queue, rowVars>>

\* flush: the write goes on when the jobs are cancelled; it fails for reasons
\* of the database's own, or on one that was closed.
Flush ==
    /\ logWriter.at = "writing"
    /\ Work(IF logWriter.last THEN "done" ELSE "waiting", <<>>, FALSE)
    /\ LET rows == Range(logWriter.batch)
       IN  \/ databaseOpen /\ saved' = saved \cup rows /\ UNCHANGED <<lost, cutOff>>
           \/ databaseOpen /\ lost' = lost \cup rows /\ UNCHANGED <<saved, cutOff>>
           \/ ~databaseOpen /\ cutOff' = cutOff \cup rows /\ UNCHANGED <<saved, lost>>
    /\ UNCHANGED <<queue, accepted>>

LifeNext ==
    \/ Listen \/ BindFails \/ Interrupt \/ ListenerFails \/ RequestsDrained \/ RequestsOutliveDrain
    \/ CloseQueue \/ QueueDrained \/ QueueOutlivesDrain \/ CancelJobs \/ CloseDatabase \/ Exit
    \/ \E h \in Handlers : Accept(h) \/ Answered(h)
    \/ TakeRow \/ CollectRow \/ WriterReturns \/ FlushDue \/ Flush

LifeSpec == LifeInit /\ [][LifeNext]_lifeVars
-----------------------------------------------------------------------------
(* A row is queued, in the writer's hands, or decided, and only once.      *)
LifeTypeOK ==
    /\ phase \in {"starting", "unbound", "serving", "draining", "closing", "waited", "cancelled", "closed", "exited"}
    /\ jobsLive \in BOOLEAN /\ drained \in BOOLEAN
    /\ handler \in [Handlers -> {"none", "running", "ended"}]
    /\ Len(queue) <= QueueCapacity /\ Len(logWriter.batch) <= BatchSize
    /\ logWriter.at \in {"waiting", "collecting", "writing", "done"} /\ logWriter.last \in BOOLEAN
    /\ LET held == queue \o logWriter.batch
       IN  /\ \A i, j \in 1..Len(held) : held[i] = held[j] => i = j
           /\ accepted = Range(held) \cup saved \cup lost \cup cutOff
           /\ Range(held) \cap (saved \cup lost \cup cutOff) = {}

(* A shutdown loses no row it did not give up waiting for: no write is cut *)
(* off by it, and when the queue was drained in time every row accepted    *)
(* before it closed was written, or the database refused it                *)
(* (app/server.go:219-241, proxy/logging.go:424-430).                      *)
ShutdownKeepsRows ==
    /\ cutOff = {}
    /\ drained => accepted = saved \cup lost
    /\ phase = "exited" => databaseOpen = ~drained /\ ~jobsLive
=============================================================================

---------------------------- MODULE ConsoleFeed ----------------------------
(***************************************************************************)
(* The live log of the console: committed rows are offered to every open   *)
(* stream without waiting for any, a stream that had no room is told to    *)
(* read the listing again, and the requests in flight travel as a whole    *)
(* set with a version.                                                     *)
(*   proxy/logging.go, proxy/active.go, handlers/admin.go AdminStreamLogs  *)
(***************************************************************************)
EXTENDS Integers, Sequences, FiniteSets

CONSTANTS
    Viewers,
    FeedCapacity,           \* logEventChannelCapacity
    ActiveSnapshotLimit,
    Channels,
    MaxRows,                \* bounds
    MaxInFlight,
    MaxUpdates,
    MaxRotations

ASSUME FeedAssumption ==
    /\ FeedCapacity \in Nat \ {0} /\ ActiveSnapshotLimit \in Nat \ {0} /\ 0 \notin Channels
    /\ MaxRows \in Nat /\ MaxInFlight \in Nat /\ MaxUpdates \in Nat /\ MaxRotations \in Nat

VARIABLES
    committed,      \* the rows 1..committed are in the database
    published,      \* of them, those the writer has offered to the streams
    entries,        \* the requests in flight, by id: [channel, key, attempt]
    nextID, activeVersion,
    operatorVersion,
    stream,         \* the stream of each viewer
    console         \* what the viewer's page shows

writerVars == <<committed, published>>
activeVars == <<entries, nextID, activeVersion>>
feedVars == <<committed, published, entries, nextID, activeVersion, operatorVersion, stream, console>>

NoStream == [at |-> "closed", events |-> <<>>, missed |-> FALSE, since |-> 0, sentActive |-> 0, credential |-> 0]
EmptyConsole == [rows |-> {}, reload |-> FALSE, total |-> 0, list |-> <<>>]

FeedInit ==
    /\ committed = 0 /\ published = 0
    /\ entries = <<>> /\ nextID = 0 /\ activeVersion = 0
    /\ operatorVersion = 1
    /\ stream = [v \in Viewers |-> NoStream]
    /\ console = [v \in Viewers |-> EmptyConsole]
-----------------------------------------------------------------------------
(* The writer *)
CommitRows(n) ==
    /\ published = committed /\ committed + n <= MaxRows
    /\ committed' = committed + n
    /\ UNCHANGED <<published, activeVars, operatorVersion, stream, console>>

\* The queue of a stream takes a row, or remembers that it could not.
Offered(s, row) ==
    IF s.at = "closed" THEN s
    ELSE IF Len(s.events) < FeedCapacity THEN [s EXCEPT !.events = Append(@, row)]
    ELSE [s EXCEPT !.missed = TRUE]

\* publish: one row of the batch just committed.
PublishRow ==
    /\ published < committed
    /\ published' = published + 1
    /\ stream' = [v \in Viewers |-> Offered(stream[v], published + 1)]
    /\ UNCHANGED <<committed, activeVars, operatorVersion, console>>
-----------------------------------------------------------------------------
(* The registry of requests in flight *)
BeginRequest ==
    /\ nextID < MaxInFlight
    /\ nextID' = nextID + 1
    /\ entries' = [i \in DOMAIN entries \cup {nextID + 1} |->
                     IF i = nextID + 1 THEN [channel |-> 0, key |-> 0, attempt |-> 0] ELSE entries[i]]
    /\ activeVersion' = activeVersion + 1
    /\ UNCHANGED <<writerVars, operatorVersion, stream, console>>

\* update: a request that was released is not brought back.
Update(id, entry) ==
    /\ activeVersion < MaxUpdates
    /\ IF id \in DOMAIN entries
       THEN entries' = [entries EXCEPT ![id] = entry] /\ activeVersion' = activeVersion + 1
       ELSE UNCHANGED <<entries, activeVersion>>
    /\ UNCHANGED <<writerVars, nextID, operatorVersion, stream, console>>

\* The key goes with the channel it belongs to.
SetUpstream(id, channel) ==
    Update(id, [channel |-> channel, key |-> 0, attempt |-> entries[id].attempt + 1])

SetKey(id) == Update(id, [entries[id] EXCEPT !.key = entries[id].channel])

Release(id) ==
    /\ entries' = [i \in DOMAIN entries \ {id} |-> entries[i]]
    /\ activeVersion' = IF id \in DOMAIN entries THEN activeVersion + 1 ELSE activeVersion
    /\ UNCHANGED <<writerVars, nextID, operatorVersion, stream, console>>

\* ActiveRegistry.Snapshot: the newest first, capped; the count is not.
ActiveSnapshot ==
    LET total == Cardinality(DOMAIN entries)
        newest(n) == CHOOSE i \in DOMAIN entries : Cardinality({j \in DOMAIN entries : j >= i}) = n
    IN  [total |-> total,
         list |-> [n \in 1..(IF total < ActiveSnapshotLimit THEN total ELSE ActiveSnapshotLimit)
                    |-> [id |-> newest(n), entry |-> entries[newest(n)]]]]
-----------------------------------------------------------------------------
(* AdminStreamLogs *)
Streaming(v) == stream[v].at = "select"
Authorized(v) == operatorVersion = stream[v].credential

\* Subscribe and the opening set. A page that had lost its stream reads the
\* listing again; at first it is read beside the stream, before or after.
OpenStream(v, again) ==
    /\ stream[v].at = "closed"
    /\ stream' = [stream EXCEPT ![v] = [NoStream EXCEPT
                    !.at = "select", !.since = published, !.sentActive = activeVersion,
                    !.credential = operatorVersion]]
    /\ console' = [console EXCEPT ![v] = [@ EXCEPT !.reload = again,
                                                  !.total = ActiveSnapshot.total, !.list = ActiveSnapshot.list]]
    /\ UNCHANGED <<writerVars, activeVars, operatorVersion>>

\* What a page shows without a stream is not followed.
CloseStream(v) ==
    /\ stream' = [stream EXCEPT ![v] = NoStream]
    /\ console' = [console EXCEPT ![v] = EmptyConsole]
    /\ UNCHANGED <<writerVars, activeVars, operatorVersion>>

\* A committed row is written out, unless the operator's credential is spent.
SendRow(v) ==
    /\ Streaming(v) /\ stream[v].events # <<>>
    /\ IF Authorized(v)
       THEN /\ stream' = [stream EXCEPT ![v].events = Tail(@), ![v].at = "resync"]
            /\ console' = [console EXCEPT ![v].rows = @ \cup {Head(stream[v].events)}]
            /\ UNCHANGED <<writerVars, activeVars, operatorVersion>>
       ELSE CloseStream(v)

\* Mutant: the mark is taken as the news of a row that is already in hand.
ResyncWhenDrained(v, next) ==
    /\ stream' = [stream EXCEPT ![v].missed = FALSE, ![v].at = next]
    /\ console' = [console EXCEPT ![v].reload = @ \/ (stream[v].missed /\ stream[v].events = <<>>)]
    /\ UNCHANGED <<writerVars, activeVars, operatorVersion>>

\* resyncIfMissed: the mark is read and cleared at once.
ResyncIfMissed(v, next) ==
    /\ stream' = [stream EXCEPT ![v].missed = FALSE, ![v].at = next]
    /\ console' = [console EXCEPT ![v].reload = @ \/ stream[v].missed]
    /\ UNCHANGED <<writerVars, activeVars, operatorVersion>>

\* writeActiveRequests, when the version has moved.
WriteActive(v, next) ==
    /\ stream' = [stream EXCEPT ![v].sentActive = activeVersion, ![v].at = next]
    /\ console' = IF stream[v].sentActive = activeVersion THEN console
                  ELSE [console EXCEPT ![v].total = ActiveSnapshot.total, ![v].list = ActiveSnapshot.list]
    /\ UNCHANGED <<writerVars, activeVars, operatorVersion>>

AfterRow(v) ==
    \/ stream[v].at = "resync" /\ ResyncIfMissed(v, "active")
    \/ stream[v].at = "active" /\ WriteActive(v, "select")

\* The tick of a second: the requests in flight, then the mark.
Poll(v) ==
    \/ Streaming(v) /\ (IF Authorized(v) THEN WriteActive(v, "polled") ELSE CloseStream(v))
    \/ stream[v].at = "polled" /\ ResyncIfMissed(v, "select")

\* The check of every fifteen seconds.
AuthCheck(v) == Streaming(v) /\ ~Authorized(v) /\ CloseStream(v)

\* The viewer goes, or the process stops.
Hangup(v) == Streaming(v) /\ CloseStream(v)

\* The page reads the newest listing: AdminListLogs.
Reload(v) ==
    /\ console[v].reload
    /\ console' = [console EXCEPT ![v].reload = FALSE, ![v].rows = @ \cup 1..committed]
    /\ UNCHANGED <<writerVars, activeVars, operatorVersion, stream>>

RotateOperator ==
    /\ operatorVersion <= MaxRotations /\ operatorVersion' = operatorVersion + 1
    /\ UNCHANGED <<writerVars, activeVars, stream, console>>

FeedNext ==
    \/ \E n \in 1..2 : CommitRows(n)
    \/ PublishRow \/ BeginRequest \/ RotateOperator
    \/ \E id \in 1..nextID : Release(id) \/ SetKey(id) \/ \E channel \in Channels : SetUpstream(id, channel)
    \/ \E v \in Viewers : \/ \E again \in BOOLEAN : OpenStream(v, again)
                          \/ SendRow(v) \/ AfterRow(v) \/ Poll(v) \/ AuthCheck(v)
                          \/ Hangup(v) \/ Reload(v)

\* The writer publishes what it committed; a stream's select serves every
\* case that is ready, its ticks keep coming, and the page reads when told to.
FeedFairness ==
    /\ WF_feedVars(PublishRow)
    /\ \A v \in Viewers :
         /\ WF_feedVars(AfterRow(v)) /\ WF_feedVars(Reload(v))
         /\ SF_feedVars(SendRow(v)) /\ SF_feedVars(Poll(v)) /\ SF_feedVars(AuthCheck(v))

FeedSpec == FeedInit /\ [][FeedNext]_feedVars /\ FeedFairness
-----------------------------------------------------------------------------
Listed == [id : 1..MaxInFlight, entry : [channel : Channels \cup {0}, key : Channels \cup {0}, attempt : Nat]]

(* A queue holds rows already committed, in the order they were published, *)
(* and a key in the registry is a key of the channel beside it             *)
(* (proxy/active.go:228-245).                                              *)
FeedTypeOK ==
    /\ published \in 0..committed /\ committed <= MaxRows
    /\ DOMAIN entries \subseteq 1..nextID /\ activeVersion \in Nat
    /\ \A i \in DOMAIN entries : entries[i].key \in {0, entries[i].channel}
    /\ operatorVersion \in 1..(MaxRotations + 1)
    /\ \A v \in Viewers :
         /\ stream[v].at \in {"closed", "select", "resync", "active", "polled"}
         /\ stream[v].missed \in BOOLEAN /\ stream[v].sentActive \in 0..activeVersion
         /\ Len(stream[v].events) <= FeedCapacity
         /\ \A i \in 1..Len(stream[v].events) :
              /\ stream[v].events[i] \in (stream[v].since + 1)..published
              /\ i > 1 => stream[v].events[i] > stream[v].events[i - 1]
         /\ console[v].rows \subseteq 1..committed /\ console[v].reload \in BOOLEAN
         /\ console[v].list \in Seq(Listed)

Shows(v) ==
    /\ (stream[v].since + 1)..published \subseteq console[v].rows
    /\ console[v].total = ActiveSnapshot.total /\ console[v].list = ActiveSnapshot.list

(* A page whose stream stays up comes to show every row published since,   *)
(* and the requests in flight as they are: a row its queue had no room for *)
(* is read from the listing, and a resync that races a second loss does    *)
(* not hide it (proxy/logging.go:749-776, handlers/admin.go:674-682).      *)
FeedsCatchUp == \A v \in Viewers : []<>(stream[v].at = "closed" \/ Shows(v))
=============================================================================

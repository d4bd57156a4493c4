------------------------- MODULE QuotaLedger_proofs -------------------------
(***************************************************************************)
(* The accounting of QuotaLedger holds for any number of requests, tokens, *)
(* entries, queue places and faults.                                       *)
(***************************************************************************)
EXTENDS QuotaLedger, FiniteSetTheorems, SequenceTheorems, TLAPS

-----------------------------------------------------------------------------
(* The laws of Amount: it is additive over disjoint sets of entries, one   *)
(* entry weighs its usage, and it reads only the entries it is given.      *)

(* A finite set of entries has finitely many units, so the usage a batch or *)
(* a queue carries is a natural number (logging.go:300-307).                *)
LEMMA AmountType ==
    ASSUME NEW S, IsFiniteSet(S), NEW owner, NEW spent, NEW t
    PROVE  /\ IsFiniteSet(Units(S, owner, spent, t))
           /\ Amount(S, owner, spent, t) \in Nat
<1>1. IsFiniteSet(1..MaxUse)
  BY MaxUseAssumption, FS_Interval
<1>2. IsFiniteSet(S \X (1..MaxUse))
  BY <1>1, FS_Product
<1>3. IsFiniteSet(Units(S, owner, spent, t))
  BY <1>2, FS_Subset DEF Units
<1>4. QED
  BY <1>3, FS_CardinalityType DEF Amount

(* No entries carry no usage: a tick with an empty batch stores only what   *)
(* was carried (logging.go:366-368).                                        *)
LEMMA AmountEmpty ==
    ASSUME NEW owner, NEW spent, NEW t
    PROVE  Amount({}, owner, spent, t) = 0
<1>1. Units({}, owner, spent, t) = {}
  BY DEF Units
<1>2. QED
  BY <1>1, FS_EmptySet DEF Amount

(* What two disjoint sets of entries carry together is the sum of what each *)
(* carries (the loops of logging.go:428-433 and 626-640).                   *)
LEMMA AmountUnion ==
    ASSUME NEW S, IsFiniteSet(S), NEW T, IsFiniteSet(T), S \cap T = {},
           NEW owner, NEW spent, NEW t
    PROVE  Amount(S \cup T, owner, spent, t)
             = Amount(S, owner, spent, t) + Amount(T, owner, spent, t)
<1> DEFINE U(A) == Units(A, owner, spent, t)
<1>1. IsFiniteSet(U(S)) /\ IsFiniteSet(U(T))
  BY AmountType
<1>2. U(S \cup T) = U(S) \cup U(T)
  BY DEF Units
<1>3. U(S) \cap U(T) = {}
  BY DEF Units
<1>4. Cardinality(U(S)) \in Nat /\ Cardinality(U(T)) \in Nat
  BY <1>1, FS_CardinalityType
<1>5. Cardinality(U(S) \cup U(T)) = Cardinality(U(S)) + Cardinality(U(T)) - Cardinality({})
  BY <1>1, <1>3, FS_Union
<1>6. Cardinality({}) = 0
  BY FS_EmptySet
<1>7. Cardinality(U(S) \cup U(T)) = Cardinality(U(S)) + Cardinality(U(T))
  <2> HIDE DEF U
  <2>1. QED
    BY <1>4, <1>5, <1>6
<1>8. QED
  BY <1>2, <1>7 DEF Amount

(* One entry weighs its usage for its own token and nothing for the others  *)
(* (quotaUsage, logging.go:302-307).                                        *)
LEMMA AmountSingle ==
    ASSUME NEW e, NEW owner, NEW spent, NEW t, spent[e] \in 0..MaxUse
    PROVE  Amount({e}, owner, spent, t) = IF owner[e] = t THEN spent[e] ELSE 0
<1>1. CASE owner[e] = t
  <2>1. Units({e}, owner, spent, t) = {e} \X (1..spent[e])
    BY <1>1, MaxUseAssumption DEF Units
  <2>2. IsFiniteSet(1..spent[e]) /\ Cardinality(1..spent[e]) = spent[e]
    BY FS_Interval
  <2>3. IsFiniteSet({e}) /\ Cardinality({e}) = 1
    BY FS_Singleton
  <2>4. Cardinality({e} \X (1..spent[e])) = 1 * spent[e]
    BY <2>2, <2>3, FS_Product
  <2>5. 1 * spent[e] = spent[e]
    BY MaxUseAssumption
  <2>6. QED
    BY <1>1, <2>1, <2>4, <2>5 DEF Amount
<1>2. CASE owner[e] # t
  <2>1. Units({e}, owner, spent, t) = {}
    BY <1>2 DEF Units
  <2>2. QED
    BY <1>2, <2>1, FS_EmptySet DEF Amount
<1>3. QED
  BY <1>1, <1>2

(* Adding an entry that is not there adds its usage to its token.           *)
LEMMA AmountAdd ==
    ASSUME NEW S, IsFiniteSet(S), NEW e, e \notin S,
           NEW owner, NEW spent, NEW t, spent[e] \in 0..MaxUse
    PROVE  Amount(S \cup {e}, owner, spent, t)
             = Amount(S, owner, spent, t) + (IF owner[e] = t THEN spent[e] ELSE 0)
<1>1. IsFiniteSet({e}) /\ S \cap {e} = {}
  BY FS_Singleton
<1>2. Amount(S \cup {e}, owner, spent, t)
        = Amount(S, owner, spent, t) + Amount({e}, owner, spent, t)
  BY <1>1, AmountUnion
<1>3. Amount({e}, owner, spent, t) = IF owner[e] = t THEN spent[e] ELSE 0
  BY AmountSingle
<1>4. QED
  BY <1>2, <1>3

(* Removing an entry removes its usage: what is left is never negative.     *)
LEMMA AmountRemove ==
    ASSUME NEW S, IsFiniteSet(S), NEW e \in S,
           NEW owner, NEW spent, NEW t, spent[e] \in 0..MaxUse
    PROVE  Amount(S, owner, spent, t)
             = Amount(S \ {e}, owner, spent, t) + (IF owner[e] = t THEN spent[e] ELSE 0)
<1>1. IsFiniteSet(S \ {e})
  BY FS_RemoveElement
<1>2. S = (S \ {e}) \cup {e}
  OBVIOUS
<1>3. Amount((S \ {e}) \cup {e}, owner, spent, t)
        = Amount(S \ {e}, owner, spent, t) + (IF owner[e] = t THEN spent[e] ELSE 0)
  BY <1>1, AmountAdd
<1>4. QED
  BY <1>2, <1>3

(* The amount reads only its own entries: two assignments of owners and     *)
(* usage that agree on S give the same amount for S.                        *)
LEMMA AmountCongruence ==
    ASSUME NEW S, NEW owner, NEW owner2, NEW spent, NEW spent2, NEW t,
           \A e \in S : owner[e] = owner2[e] /\ spent[e] = spent2[e]
    PROVE  Amount(S, owner, spent, t) = Amount(S, owner2, spent2, t)
<1>1. Units(S, owner, spent, t) = Units(S, owner2, spent2, t)
  BY DEF Units
<1>2. QED
  BY <1>1 DEF Amount
-----------------------------------------------------------------------------
(* Which actions write which variables.                                     *)

(* Only a commit and the operator's edits write the token rows.             *)
LEMMA DbFrame ==
    ASSUME [Next]_vars
    PROVE  \/ UNCHANGED dbVars
           \/ CommitBatch
           \/ \E t \in Tokens : EditToken(t)
<1>1. ASSUME NEW r \in Requests, RequestStep(r) PROVE UNCHANGED dbVars
  BY <1>1 DEF RequestStep, Lookup, AdmitUnlimited, Admit, Refuse, Release, Hold,
              Enqueue, Drop
<1>2. ASSUME WriterStep, ~CommitBatch PROVE UNCHANGED dbVars
  BY <1>2 DEF WriterStep, Receive, FlushBatch, FlushLastBatch, FlushCarried,
              FlushAtClose, RetryLocked, FailBatch, SettleEntry, SettleCarried,
              SettleDone
<1>3. Close \/ UNCHANGED vars => UNCHANGED dbVars
  BY DEF Close, vars
<1>4. QED
  BY <1>1, <1>2, <1>3 DEF Next

(* The tracker moves only on admission, release, metering and settling.     *)
LEMMA TrackerFrame ==
    ASSUME [Next]_vars
    PROVE  \/ UNCHANGED trackerVars
           \/ \E r \in Requests : Admit(r) \/ Release(r) \/ Hold(r)
           \/ SettleEntry
           \/ SettleCarried
<1>1. ASSUME NEW r \in Requests, RequestStep(r), ~(Admit(r) \/ Release(r) \/ Hold(r))
      PROVE  UNCHANGED trackerVars
  BY <1>1 DEF RequestStep, Lookup, AdmitUnlimited, Refuse, Enqueue, Drop
<1>2. ASSUME WriterStep, ~(SettleEntry \/ SettleCarried) PROVE UNCHANGED trackerVars
  BY <1>2 DEF WriterStep, Receive, FlushBatch, FlushLastBatch, FlushCarried,
              FlushAtClose, RetryLocked, FailBatch, CommitBatch, SettleDone
<1>3. ASSUME NEW t \in Tokens, EditToken(t) PROVE UNCHANGED trackerVars
  BY <1>3 DEF EditToken, ResetTokenUsage, UpdateToken, DeleteToken
<1>4. Close \/ UNCHANGED vars => UNCHANGED trackerVars
  BY DEF Close, vars
<1>5. QED
  BY <1>1, <1>2, <1>3, <1>4 DEF Next

(* Only the request's own handler moves it.                                 *)
LEMMA RequestFrame ==
    ASSUME [Next]_vars
    PROVE  UNCHANGED requestVars \/ \E r \in Requests : RequestStep(r)
<1>1. WriterStep => UNCHANGED requestVars
  BY DEF WriterStep, Receive, FlushBatch, FlushLastBatch, FlushCarried,
         FlushAtClose, RetryLocked, FailBatch, CommitBatch, SettleEntry,
         SettleCarried, SettleDone
<1>2. ASSUME NEW t \in Tokens, EditToken(t) PROVE UNCHANGED requestVars
  BY <1>2 DEF EditToken, ResetTokenUsage, UpdateToken, DeleteToken
<1>3. Close \/ UNCHANGED vars => UNCHANGED requestVars
  BY DEF Close, vars
<1>4. QED
  BY <1>1, <1>2, <1>3 DEF Next

(* Entries reach the queue from Schedule and leave it to the writer.        *)
LEMMA QueueFrame ==
    ASSUME [Next]_vars
    PROVE  \/ UNCHANGED queueVars
           \/ \E r \in Requests : Enqueue(r)
           \/ Close
           \/ Receive
<1>1. ASSUME NEW r \in Requests, RequestStep(r), ~Enqueue(r) PROVE UNCHANGED queueVars
  BY <1>1 DEF RequestStep, Lookup, AdmitUnlimited, Admit, Refuse, Release, Hold, Drop
<1>2. ASSUME WriterStep, ~Receive PROVE UNCHANGED queueVars
  BY <1>2 DEF WriterStep, FlushBatch, FlushLastBatch, FlushCarried, FlushAtClose,
              RetryLocked, FailBatch, CommitBatch, SettleEntry, SettleCarried, SettleDone
<1>3. ASSUME NEW t \in Tokens, EditToken(t) PROVE UNCHANGED queueVars
  BY <1>3 DEF EditToken, ResetTokenUsage, UpdateToken, DeleteToken
<1>4. UNCHANGED vars => UNCHANGED queueVars
  BY DEF vars
<1>5. QED
  BY <1>1, <1>2, <1>3, <1>4 DEF Next

(* Usage is carried by a drop or a failed batch, and taken by a flush.      *)
LEMMA CarriedFrame ==
    ASSUME [Next]_vars
    PROVE  \/ UNCHANGED carried
           \/ \E r \in Requests : Drop(r)
           \/ FailBatch
           \/ FlushBatch \/ FlushLastBatch \/ FlushCarried \/ FlushAtClose
<1>1. ASSUME NEW r \in Requests, RequestStep(r), ~Drop(r) PROVE UNCHANGED carried
  BY <1>1 DEF RequestStep, Lookup, AdmitUnlimited, Admit, Refuse, Release, Hold, Enqueue
<1>2. ASSUME WriterStep,
             ~(FailBatch \/ FlushBatch \/ FlushLastBatch \/ FlushCarried \/ FlushAtClose)
      PROVE  UNCHANGED carried
  BY <1>2 DEF WriterStep, Receive, RetryLocked, CommitBatch, SettleEntry,
              SettleCarried, SettleDone
<1>3. ASSUME NEW t \in Tokens, EditToken(t) PROVE UNCHANGED carried
  BY <1>3 DEF EditToken, ResetTokenUsage, UpdateToken, DeleteToken
<1>4. Close \/ UNCHANGED vars => UNCHANGED carried
  BY DEF Close, vars
<1>5. QED
  BY <1>1, <1>2, <1>3, <1>4 DEF Next

(* Only the writer goroutine moves the writer.                              *)
LEMMA WriterFrame ==
    ASSUME [Next]_vars
    PROVE  UNCHANGED writerVars \/ WriterStep
<1>1. ASSUME NEW r \in Requests, RequestStep(r) PROVE UNCHANGED writerVars
  BY <1>1 DEF RequestStep, Lookup, AdmitUnlimited, Admit, Refuse, Release, Hold,
              Enqueue, Drop
<1>2. ASSUME NEW t \in Tokens, EditToken(t) PROVE UNCHANGED writerVars
  BY <1>2 DEF EditToken, ResetTokenUsage, UpdateToken, DeleteToken
<1>3. Close \/ UNCHANGED vars => UNCHANGED writerVars
  BY DEF Close, vars
<1>4. QED
  BY <1>1, <1>2, <1>3 DEF Next
-----------------------------------------------------------------------------
(* Type correctness.                                                        *)

(* The amounts the entries carry are natural numbers.                       *)
LEMMA AmountOfType ==
    ASSUME TypeOK, NEW S, S \subseteq Entries, NEW t
    PROVE  IsFiniteSet(S) /\ AmountOf(S, t) \in Nat
<1>1. IsFiniteSet(1..MaxLogs)
  BY QuotaAssumption, FS_Interval
<1>2. IsFiniteSet(Entries)
  BY <1>1, QuotaAssumption, FS_Product DEF Entries
<1>3. IsFiniteSet(S)
  BY <1>2, FS_Subset
<1>4. QED
  BY <1>3, AmountType DEF AmountOf

(* An entry of the batch has an owner and a usage.                          *)
LEMMA EntryType ==
    ASSUME TypeOK, NEW e \in Entries
    PROVE  Owner[e] \in Tokens /\ use[e] \in 0..MaxUse /\ use[e] \in Nat
<1>1. e[1] \in Requests
  BY DEF Entries
<1>2. cred[e[1]].token \in Tokens
  BY <1>1 DEF TypeOK, RequestType
<1>3. QED
  BY <1>2, MaxUseAssumption DEF TypeOK, RequestType, Owner

(* The entry a request in the middle of Schedule is sending.                *)
LEMMA CurrentType ==
    ASSUME TypeOK, NEW r \in Requests, logged[r] # 0
    PROVE  Current(r) \in Entries
  BY QuotaAssumption DEF TypeOK, RequestType, Current, Entries

(* The token rows keep their types: commits add, a reset zeroes.            *)
LEMMA DbTypeStep == TypeOK /\ [Next]_vars => DbType'
<1> SUFFICES ASSUME TypeOK, [Next]_vars PROVE DbType'
  OBVIOUS
<1> USE DEF DbType
<1>1. CASE UNCHANGED dbVars
  BY <1>1 DEF dbVars, TypeOK
<1>2. CASE CommitBatch
  <2>1. \A t \in Tokens : AmountOf(batch, t) \in Nat
    BY AmountOfType DEF TypeOK, WriterType
  <2>2. used' \in [Tokens -> Nat]
    BY <1>2, <2>1 DEF CommitBatch, TypeOK, WriterType
  <2>3. QED
    BY <1>2, <2>2 DEF CommitBatch, TypeOK
<1>3. CASE \E t \in Tokens : EditToken(t)
  BY <1>3 DEF TypeOK, EditToken, ResetTokenUsage, UpdateToken, DeleteToken
<1>4. QED
  BY <1>1, <1>2, <1>3, DbFrame

(* The tracker's counters stay natural numbers: they are lowered through    *)
(* AtLeastZero (tracker.go release, Settle).                                *)
LEMMA TrackerTypeStep == TypeOK /\ [Next]_vars => TrackerType'
<1> SUFFICES ASSUME TypeOK, [Next]_vars PROVE TrackerType'
  OBVIOUS
<1>0. TrackerType
  BY DEF TypeOK
<1> USE DEF TrackerType
<1>1. CASE UNCHANGED trackerVars
  BY <1>0, <1>1 DEF trackerVars
<1>2. ASSUME NEW t \in Tokens, NEW u \in Nat, Settle(t, u) PROVE TrackerType'
  BY <1>0, <1>2 DEF Settle, DiscardIfIdle, AtLeastZero, trackerVars
<1>3. ASSUME NEW r \in Requests PROVE cred[r].token \in Tokens
  BY DEF TypeOK, RequestType
<1>4. ASSUME NEW r \in Requests, Admit(r) PROVE TrackerType'
  BY <1>0, <1>3, <1>4 DEF Admit, Reserve
<1>5. ASSUME NEW r \in Requests, Release(r) PROVE TrackerType'
  BY <1>0, <1>3, <1>5 DEF Release, ReleaseHold, DiscardIfIdle, AtLeastZero, trackerVars
<1>6. ASSUME NEW r \in Requests, Hold(r) PROVE TrackerType'
  <2>1. Costs \subseteq Nat
    BY QuotaAssumption, MaxUseAssumption
  <2>2. PICK u \in Costs : Meter(cred[r].token, u)
    BY <1>6 DEF Hold
  <2>3. QED
    BY <1>0, <1>3, <2>1, <2>2 DEF Meter
<1>7. CASE SettleEntry
  <2>1. PICK e \in batch : Settle(Owner[e], use[e])
    BY <1>7 DEF SettleEntry
  <2>2. e \in Entries
    BY DEF TypeOK, WriterType
  <2>3. QED
    BY <1>2, <2>1, <2>2, EntryType
<1>8. CASE SettleCarried
  <2>1. PICK t \in Tokens : Settle(t, taken[t])
    BY <1>8 DEF SettleCarried
  <2>2. QED
    BY <1>2, <2>1 DEF TypeOK, WriterType
<1>9. QED
  BY <1>1, <1>4, <1>5, <1>6, <1>7, <1>8, TrackerFrame

(* A request's credential, steps and entries keep their types.              *)
LEMMA RequestTypeStep == TypeOK /\ [Next]_vars => RequestType'
<1> SUFFICES ASSUME TypeOK, [Next]_vars PROVE RequestType'
  OBVIOUS
<1>0. RequestType
  BY DEF TypeOK
<1> USE DEF RequestType
<1>1. CASE UNCHANGED requestVars
  BY <1>0, <1>1 DEF requestVars
<1>2. ASSUME NEW r \in Requests, Lookup(r) PROVE RequestType'
  <2>1. PICK t \in rows :
          cred' = [cred EXCEPT ![r] = [token |-> t, used |-> used[t], limit |-> limit[t]]]
    BY <1>2 DEF Lookup
  <2>2. [token |-> t, used |-> used[t], limit |-> limit[t]]
          \in [token : Tokens, used : Nat, limit : Limits]
    BY DEF TypeOK, DbType
  <2>3. cred' \in [Requests -> [token : Tokens, used : Nat, limit : Limits]]
    BY <1>0, <2>1, <2>2
  <2>4. pc' \in [Requests -> {"idle", "looked", "running", "holding", "done"}]
    BY <1>0, <1>2 DEF Lookup
  <2>5. QED
    BY <1>0, <1>2, <2>3, <2>4 DEF Lookup
<1>3. ASSUME NEW r \in Requests,
             AdmitUnlimited(r) \/ Admit(r) \/ Refuse(r) \/ Release(r) \/ Enqueue(r)
               \/ Drop(r)
      PROVE  RequestType'
  <2>1. /\ pc' \in [Requests -> {"idle", "looked", "running", "holding", "done"}]
        /\ UNCHANGED <<cred, logged, use>>
    BY <1>0, <1>3 DEF AdmitUnlimited, Admit, Refuse, Release, Enqueue, Drop
  <2>2. reserved' \subseteq Requests
    BY <1>0, <1>3 DEF AdmitUnlimited, Admit, Refuse, Release, Enqueue, Drop
  <2>3. QED
    BY <1>0, <2>1, <2>2
<1>4. ASSUME NEW r \in Requests, Hold(r) PROVE RequestType'
  <2>1. PICK u \in Costs : use' = [use EXCEPT ![<<r, logged[r] + 1>>] = u]
    BY <1>4 DEF Hold
  <2>2. use' \in [Entries -> 0..MaxUse]
    BY <1>0, <2>1, QuotaAssumption
  <2>3. logged' \in [Requests -> 0..MaxLogs]
    BY <1>0, <1>4, QuotaAssumption DEF Hold
  <2>4. pc' \in [Requests -> {"idle", "looked", "running", "holding", "done"}]
    BY <1>0, <1>4 DEF Hold
  <2>5. QED
    BY <1>0, <1>4, <2>2, <2>3, <2>4 DEF Hold
<1>5. QED
  BY <1>1, <1>2, <1>3, <1>4, RequestFrame DEF RequestStep

(* Where log entries are: a request in the middle of Schedule has scheduled *)
(* an entry, entries belong to requests that were admitted, and each is in  *)
(* one place, held by its handler, once on the queue, or in the batch.      *)
Located ==
    /\ \A r \in Requests : pc[r] = "holding" => logged[r] # 0
    /\ \A r \in Requests : pc[r] \in {"idle", "looked"} => logged[r] = 0
    /\ \A e \in Queued \cup batch : e[2] <= logged[e[1]] /\ e \notin InSchedule
    /\ Queued \cap batch = {}
    /\ \A i, j \in DOMAIN queue : queue[i] = queue[j] => i = j

(* The queue stays within its capacity: Schedule sends only when there is   *)
(* room (logging.go Schedule).                                              *)
LEMMA QueueTypeStep == TypeOK /\ Located /\ [Next]_vars => QueueType'
<1> SUFFICES ASSUME TypeOK, Located, [Next]_vars PROVE QueueType'
  OBVIOUS
<1>0. QueueType /\ WriterType
  BY DEF TypeOK
<1>1. /\ queue' \in Seq(Entries)
      /\ Len(queue') <= QueueCapacity
      /\ closed' \in BOOLEAN
  <2>1. CASE UNCHANGED queueVars
    BY <1>0, <2>1 DEF QueueType, queueVars
  <2>2. ASSUME NEW r \in Requests, Enqueue(r)
        PROVE  /\ queue' \in Seq(Entries)
               /\ Len(queue') <= QueueCapacity
               /\ closed' = closed
    <3>1. Current(r) \in Entries
      BY <2>2, CurrentType DEF Located, Enqueue
    <3>2. /\ queue' = Append(queue, Current(r)) /\ closed' = closed
          /\ Len(queue) < QueueCapacity
      BY <2>2 DEF Enqueue
    <3>3. queue \in Seq(Entries)
      BY <1>0 DEF QueueType
    <3>4. queue' \in Seq(Entries) /\ Len(queue') = Len(queue) + 1
      BY <3>1, <3>2, <3>3, AppendProperties
    <3>5. Len(queue) \in Nat /\ QueueCapacity \in Nat
      BY <3>3, QuotaAssumption, LenProperties
    <3>6. QED
      BY <3>2, <3>4, <3>5
  <2>3. CASE Close
    BY <1>0, <2>3 DEF QueueType, Close
  <2>4. CASE Receive
    <3>1. queue' = Tail(queue) /\ queue # <<>> /\ closed' = closed
      BY <2>4 DEF Receive
    <3>2. queue \in Seq(Entries) /\ Len(queue) <= QueueCapacity
      BY <1>0 DEF QueueType
    <3>3. queue' \in Seq(Entries) /\ Len(queue') = Len(queue) - 1
      BY <3>1, <3>2, HeadTailProperties
    <3>4. Len(queue) \in Nat /\ QueueCapacity \in Nat
      BY <3>2, QuotaAssumption, LenProperties
    <3>5. Len(queue') <= QueueCapacity
      BY <3>2, <3>3, <3>4
    <3>6. QED
      BY <1>0, <3>1, <3>3, <3>5 DEF QueueType
  <2>5. QED
    BY <1>0, <2>1, <2>2, <2>3, <2>4, QueueFrame DEF QueueType
<1>2. carried' \in [Tokens -> Nat]
  <2>1. CASE UNCHANGED carried
    BY <1>0, <2>1 DEF QueueType
  <2>2. ASSUME NEW r \in Requests, Drop(r) PROVE carried' \in [Tokens -> Nat]
    <3>1. use[Current(r)] \in Nat
      BY <2>2, CurrentType, EntryType DEF Located, Drop
    <3>2. cred[r].token \in Tokens
      BY DEF TypeOK, RequestType
    <3>3. carried' = [carried EXCEPT ![cred[r].token] = @ + use[Current(r)]]
      BY <2>2 DEF Drop
    <3>4. QED
      BY <1>0, <3>1, <3>2, <3>3 DEF QueueType
  <2>3. CASE FailBatch
    <3>1. \A t \in Tokens : AmountOf(batch, t) \in Nat
      BY <1>0, AmountOfType DEF WriterType
    <3>2. QED
      BY <1>0, <2>3, <3>1 DEF QueueType, WriterType, FailBatch
  <2>4. CASE FlushBatch \/ FlushLastBatch \/ FlushCarried \/ FlushAtClose
    <3>1. carried' = NoUsage
      BY <2>4 DEF FlushBatch, FlushLastBatch, FlushCarried, FlushAtClose, TakeCarried
    <3>2. QED
      BY <3>1 DEF NoUsage
  <2>5. QED
    BY <2>1, <2>2, <2>3, <2>4, CarriedFrame
<1>3. QED
  BY <1>1, <1>2 DEF QueueType

(* The writer's batch and attempt counter keep their types (logging.go run, *)
(* insertLogBatchWithRetry).                                                *)
LEMMA WriterTypeStep == TypeOK /\ [Next]_vars => WriterType'
<1> SUFFICES ASSUME TypeOK, [Next]_vars PROVE WriterType'
  OBVIOUS
<1>0. WriterType /\ QueueType
  BY DEF TypeOK
<1> USE DEF WriterType
<1>1. CASE UNCHANGED writerVars
  BY <1>0, <1>1 DEF writerVars
<1>2. CASE Receive
  <2>1. Head(queue) \in Entries
    BY <1>0, <1>2, HeadTailProperties DEF Receive, QueueType
  <2>2. QED
    BY <1>0, <1>2, <2>1 DEF Receive
<1>3. CASE FlushBatch \/ FlushLastBatch \/ FlushCarried \/ FlushAtClose
  <2>1. /\ taken' = carried /\ attempt' = 0 /\ batch' = batch
        /\ writer' \in {"writing", "done"}
        /\ final' = final \/ final' = TRUE
    BY <1>3 DEF FlushBatch, FlushLastBatch, FlushCarried, FlushAtClose, TakeCarried
  <2>2. taken' \in [Tokens -> Nat] /\ attempt' \in 0..(MaxWriteAttempts - 1)
    BY <1>0, <2>1, QuotaAssumption DEF QueueType
  <2>3. final' \in BOOLEAN
    BY <1>0, <2>1
  <2>4. QED
    BY <1>0, <2>1, <2>2, <2>3
<1>4. CASE RetryLocked
  BY <1>0, <1>4, QuotaAssumption DEF RetryLocked
<1>5. CASE FailBatch
  BY <1>0, <1>5 DEF FailBatch, AfterFlush, NoUsage
<1>6. CASE CommitBatch
  BY <1>0, <1>6 DEF CommitBatch
<1>7. CASE SettleEntry
  BY <1>0, <1>7 DEF SettleEntry
<1>8. CASE SettleCarried
  BY <1>0, <1>8 DEF SettleCarried
<1>9. CASE SettleDone
  BY <1>0, <1>9 DEF SettleDone, AfterFlush
<1>10. QED
  BY <1>1, <1>2, <1>3, <1>4, <1>5, <1>6, <1>7, <1>8, <1>9, WriterFrame DEF WriterStep

(* The bounds on faults and edits hold by the guards that count them.       *)
LEMMA BoundStep ==
    TypeOK /\ [Next]_vars => faults' \in 0..MaxFaults /\ edits' \in 0..MaxEdits
<1> SUFFICES ASSUME TypeOK, [Next]_vars
             PROVE  faults' \in 0..MaxFaults /\ edits' \in 0..MaxEdits
  OBVIOUS
<1>0. /\ faults \in 0..MaxFaults /\ edits \in 0..MaxEdits
      /\ MaxFaults \in Nat /\ MaxEdits \in Nat
  BY QuotaAssumption DEF TypeOK
<1>1. ASSUME NEW r \in Requests, RequestStep(r) PROVE UNCHANGED <<faults, edits>>
  BY <1>1 DEF RequestStep, Lookup, AdmitUnlimited, Admit, Refuse, Release, Hold,
              Enqueue, Drop
<1>2. WriterStep => edits' = edits /\ (faults' = faults \/ (faults < MaxFaults /\ faults' = faults + 1))
  BY DEF WriterStep, Receive, FlushBatch, FlushLastBatch, FlushCarried,
         FlushAtClose, RetryLocked, FailBatch, CommitBatch, SettleEntry,
         SettleCarried, SettleDone
<1>3. ASSUME NEW t \in Tokens, EditToken(t)
      PROVE  faults' = faults /\ edits < MaxEdits /\ edits' = edits + 1
  BY <1>3 DEF EditToken, ResetTokenUsage, UpdateToken, DeleteToken
<1>4. Close \/ UNCHANGED vars => UNCHANGED <<faults, edits>>
  BY DEF Close, vars
<1>5. QED
  BY <1>0, <1>1, <1>2, <1>3, <1>4 DEF Next

-----------------------------------------------------------------------------
(* Entries stay where Located puts them.                                    *)

(* The current entries are those of the requests inside Schedule.           *)
LEMMA InScheduleMember ==
    ASSUME NEW e
    PROVE  e \in InSchedule <=> \E r \in Requests : pc[r] = "holding" /\ e = <<r, logged[r]>>
  BY DEF InSchedule, Current

(* What appending and receiving do to the set of queued entries.            *)
LEMMA QueuedAppend ==
    ASSUME NEW e \in Entries, queue \in Seq(Entries), queue' = Append(queue, e),
           e \notin Queued,
           \A i, j \in DOMAIN queue : queue[i] = queue[j] => i = j
    PROVE  /\ Queued' = Queued \cup {e}
           /\ \A i, j \in DOMAIN queue' : queue'[i] = queue'[j] => i = j
<1>1. /\ DOMAIN queue = 1..Len(queue) /\ Len(queue) \in Nat
      /\ queue' \in Seq(Entries) /\ Len(queue') = Len(queue) + 1
      /\ \A i \in 1..Len(queue) : queue'[i] = queue[i]
      /\ queue'[Len(queue) + 1] = e
  BY AppendProperties, LenProperties
<1>2. DOMAIN queue' = 1..(Len(queue) + 1)
  BY <1>1, LenProperties
<1>3. QED
  BY <1>1, <1>2 DEF Queued

(* The writer takes the head of the queue and leaves the rest as it is.     *)
LEMMA QueuedReceive ==
    ASSUME queue \in Seq(Entries), queue # <<>>, queue' = Tail(queue),
           \A i, j \in DOMAIN queue : queue[i] = queue[j] => i = j
    PROVE  /\ Head(queue) \in Queued
           /\ Queued' = Queued \ {Head(queue)}
           /\ \A i, j \in DOMAIN queue' : queue'[i] = queue'[j] => i = j
<1>1. /\ DOMAIN queue = 1..Len(queue) /\ Len(queue) \in Nat /\ Len(queue) # 0
      /\ queue' \in Seq(Entries) /\ Len(queue') = Len(queue) - 1
      /\ \A i \in 1..Len(queue') : queue'[i] = queue[i + 1]
      /\ Head(queue) = queue[1]
  BY HeadTailProperties, LenProperties, EmptySeq
<1>2. DOMAIN queue' = 1..(Len(queue) - 1)
  BY <1>1, LenProperties
<1>3. \A i \in 1..Len(queue) : i = 1 \/ (i - 1 \in 1..Len(queue') /\ queue'[i - 1] = queue[i])
  BY <1>1
<1>4. Queued = {queue[i] : i \in 1..Len(queue)}
  BY <1>1 DEF Queued
<1>5. /\ Queued' = {queue'[i] : i \in 1..(Len(queue) - 1)}
      /\ \A i \in 1..(Len(queue) - 1) : queue'[i] = queue[i + 1]
  <2>1. 1..Len(queue') = 1..(Len(queue) - 1)
    BY <1>1
  <2>2. QED
    BY <1>1, <1>2, <2>1 DEF Queued
<1>6. Head(queue) \in Queued
  BY <1>1, <1>4
<1>7. ASSUME NEW x \in Queued, x # Head(queue) PROVE x \in Queued'
  <2>1. PICK i \in 1..Len(queue) : x = queue[i]
    BY <1>4
  <2>2. i # 1
    BY <1>1, <1>7, <2>1
  <2>3. i - 1 \in 1..(Len(queue) - 1) /\ x = queue[(i - 1) + 1]
    BY <1>1, <2>1, <2>2
  <2>4. QED
    BY <1>5, <2>3
<1>8. ASSUME NEW x \in Queued' PROVE x \in Queued /\ x # Head(queue)
  <2>1. PICK i \in 1..(Len(queue) - 1) : x = queue[i + 1]
    BY <1>5
  <2>2. i + 1 \in 1..Len(queue) /\ i + 1 # 1
    BY <1>1
  <2>3. QED
    BY <1>1, <1>4, <2>1, <2>2
<1>9. \A i, j \in DOMAIN queue' : queue'[i] = queue'[j] => i = j
  BY <1>1, <1>2
<1>10. QED
  BY <1>6, <1>7, <1>8, <1>9

(* What a handler step does to the entries inside Schedule.                 *)
LEMMA InScheduleStep ==
    ASSUME TypeOK, Located, NEW r \in Requests
    PROVE  /\ Lookup(r) \/ AdmitUnlimited(r) \/ Admit(r) \/ Refuse(r) \/ Release(r)
                => InSchedule' = InSchedule
           /\ Hold(r) => /\ InSchedule' = InSchedule \cup {<<r, logged[r] + 1>>}
                         /\ <<r, logged[r] + 1>> \notin Unsettled
                         /\ <<r, logged[r] + 1>> \in Entries
           /\ Enqueue(r) \/ Drop(r) => /\ InSchedule' = InSchedule \ {Current(r)}
                                       /\ Current(r) \in InSchedule
                                       /\ Current(r) \notin Queued \cup batch
                                       /\ Current(r) \in Entries
<1>0. /\ pc \in [Requests -> {"idle", "looked", "running", "holding", "done"}]
      /\ logged \in [Requests -> Nat]
  BY QuotaAssumption DEF TypeOK, RequestType
<1>1. ASSUME Lookup(r) \/ AdmitUnlimited(r) \/ Admit(r) \/ Refuse(r) \/ Release(r)
      PROVE  InSchedule' = InSchedule
  <2>1. /\ logged' = logged
        /\ pc[r] # "holding"
        /\ \E s \in {"looked", "running", "done"} : pc' = [pc EXCEPT ![r] = s]
    BY <1>1 DEF Lookup, AdmitUnlimited, Admit, Refuse, Release
  <2>2. \A q \in Requests : pc'[q] = "holding" <=> pc[q] = "holding"
    BY <1>0, <2>1
  <2>3. QED
    BY <2>1, <2>2 DEF InSchedule, Current
<1>2. ASSUME Hold(r)
      PROVE  /\ InSchedule' = InSchedule \cup {<<r, logged[r] + 1>>}
             /\ <<r, logged[r] + 1>> \notin Unsettled
             /\ <<r, logged[r] + 1>> \in Entries
  <2>1. /\ pc[r] = "running" /\ logged[r] < MaxLogs
        /\ logged' = [logged EXCEPT ![r] = @ + 1]
        /\ pc' = [pc EXCEPT ![r] = "holding"]
    BY <1>2 DEF Hold
  <2>2. <<r, logged[r] + 1>> \in Entries
    BY <1>0, <2>1, QuotaAssumption DEF Entries
  <2>3. \A q \in Requests : pc'[q] = "holding" <=> q = r \/ pc[q] = "holding"
    BY <1>0, <2>1
  <2>4. \A q \in Requests : q # r => logged'[q] = logged[q]
    BY <1>0, <2>1
  <2>5. logged'[r] = logged[r] + 1
    BY <1>0, <2>1
  <2>6. InSchedule' = InSchedule \cup {<<r, logged[r] + 1>>}
    BY <2>1, <2>3, <2>4, <2>5 DEF InSchedule, Current
  <2>7. <<r, logged[r] + 1>> \notin InSchedule
    BY <2>1 DEF InSchedule, Current
  <2>8. <<r, logged[r] + 1>> \notin Queued \cup batch
    BY <1>0 DEF Located
  <2>9. QED
    BY <2>2, <2>6, <2>7, <2>8 DEF Unsettled
<1>3. ASSUME Enqueue(r) \/ Drop(r)
      PROVE  /\ InSchedule' = InSchedule \ {Current(r)}
             /\ Current(r) \in InSchedule
             /\ Current(r) \notin Queued \cup batch
             /\ Current(r) \in Entries
  <2>1. /\ pc[r] = "holding" /\ logged' = logged
        /\ pc' = [pc EXCEPT ![r] = "running"]
    BY <1>3 DEF Enqueue, Drop
  <2>2. Current(r) \in InSchedule
    BY <2>1 DEF InSchedule
  <2>3. \A q \in Requests : pc'[q] = "holding" <=> q # r /\ pc[q] = "holding"
    BY <1>0, <2>1
  <2>4. InSchedule' = InSchedule \ {Current(r)}
    BY <2>1, <2>3 DEF InSchedule, Current
  <2>5. Current(r) \in Entries
    BY <2>1, CurrentType DEF Located
  <2>6. QED
    BY <2>2, <2>4, <2>5 DEF Located
<1>4. QED
  BY <1>1, <1>2, <1>3

(* An entry is in one place at a time: in its Schedule call, on the queue or *)
(* in the batch (logging.go Schedule, run).                                 *)
LEMMA LocatedStep == TypeOK /\ Located /\ [Next]_vars => Located'
<1> SUFFICES ASSUME TypeOK, Located, [Next]_vars PROVE Located'
  OBVIOUS
<1>0. /\ pc \in [Requests -> {"idle", "looked", "running", "holding", "done"}]
      /\ logged \in [Requests -> Nat]
      /\ queue \in Seq(Entries)
      /\ batch \subseteq Entries
  BY QuotaAssumption DEF TypeOK, RequestType, QueueType, WriterType
<1>1. ASSUME UNCHANGED <<pc, logged, queue>>, batch' \subseteq batch PROVE Located'
  <2>1. InSchedule' = InSchedule /\ Queued' = Queued
    BY <1>1 DEF InSchedule, Current, Queued
  <2>2. QED
    BY <1>1, <2>1 DEF Located
<1>2. ASSUME NEW r \in Requests,
             Lookup(r) \/ AdmitUnlimited(r) \/ Admit(r) \/ Refuse(r) \/ Release(r)
      PROVE  Located'
  <2>1. /\ UNCHANGED <<logged, queue, batch>>
        /\ \E s \in {"looked", "running", "done"} :
             /\ pc' = [pc EXCEPT ![r] = s]
             /\ s = "looked" => pc[r] = "idle"
    BY <1>2 DEF Lookup, AdmitUnlimited, Admit, Refuse, Release, queueVars, writerVars
  <2>2. InSchedule' = InSchedule /\ Queued' = Queued
    BY <1>2, <2>1, InScheduleStep DEF Queued
  <2>3. \A q \in Requests : /\ pc'[q] = "holding" => pc[q] = "holding"
                            /\ pc'[q] \in {"idle", "looked"} => pc[q] \in {"idle", "looked"}
    BY <1>0, <2>1
  <2>4. QED
    BY <2>1, <2>2, <2>3 DEF Located
<1>3. ASSUME NEW r \in Requests, Hold(r) PROVE Located'
  <2>1. /\ UNCHANGED <<queue, batch>>
        /\ pc[r] = "running"
        /\ logged' = [logged EXCEPT ![r] = @ + 1]
        /\ pc' = [pc EXCEPT ![r] = "holding"]
    BY <1>3 DEF Hold, queueVars, writerVars
  <2>2. Queued' = Queued
    BY <2>1 DEF Queued
  <2>3. \A q \in Requests : /\ logged'[q] = (IF q = r THEN logged[r] + 1 ELSE logged[q])
                            /\ pc'[q] = (IF q = r THEN "holding" ELSE pc[q])
    BY <1>0, <2>1
  <2>4. \A e \in Queued' \cup batch' : e[2] <= logged'[e[1]] /\ e \notin InSchedule'
    <3>1. SUFFICES ASSUME NEW e \in Queued \cup batch
                   PROVE  e[2] <= logged'[e[1]] /\ e \notin InSchedule'
      BY <2>1, <2>2
    <3>2. e \in Entries
      BY <1>0, ElementOfSeq DEF Queued
    <3>3. e[1] \in Requests /\ e[2] \in Nat
      BY <3>2, QuotaAssumption DEF Entries
    <3>4. e[2] <= logged'[e[1]]
      BY <1>0, <2>3, <3>3 DEF Located
    <3>5. e \notin InSchedule'
      BY <1>3, InScheduleStep DEF Located, Unsettled
    <3>6. QED
      BY <3>4, <3>5
  <2>5. \A q \in Requests : pc'[q] = "holding" => logged'[q] # 0
    BY <1>0, <2>3 DEF Located
  <2>6. \A q \in Requests : pc'[q] \in {"idle", "looked"} => logged'[q] = 0
    BY <2>3 DEF Located
  <2>7. QED
    BY <2>1, <2>2, <2>4, <2>5, <2>6 DEF Located
<1>4. ASSUME NEW r \in Requests, Enqueue(r) \/ Drop(r) PROVE Located'
  <2>1. /\ UNCHANGED <<logged, batch>>
        /\ pc[r] = "holding" /\ pc' = [pc EXCEPT ![r] = "running"]
        /\ queue' = queue \/ queue' = Append(queue, Current(r))
    BY <1>4 DEF Enqueue, Drop, queueVars, writerVars
  <2>2. /\ InSchedule' = InSchedule \ {Current(r)}
        /\ Current(r) \notin Queued \cup batch /\ Current(r) \in Entries
    BY <1>4, InScheduleStep
  <2>3. /\ Queued' \subseteq Queued \cup {Current(r)}
        /\ \A i, j \in DOMAIN queue' : queue'[i] = queue'[j] => i = j
    <3>1. CASE queue' = queue
      BY <3>1 DEF Located, Queued
    <3>2. CASE queue' = Append(queue, Current(r))
      BY <1>0, <2>2, <3>2, QueuedAppend DEF Located
    <3>3. QED
      BY <2>1, <3>1, <3>2
  <2>4. \A q \in Requests : pc'[q] = (IF q = r THEN "running" ELSE pc[q])
    BY <1>0, <2>1
  <2>5. Current(r)[1] = r /\ Current(r)[2] = logged[r]
    BY DEF Current
  <2>6. \A e \in Queued' \cup batch' : e[2] <= logged'[e[1]] /\ e \notin InSchedule'
    BY <1>0, <2>1, <2>2, <2>3, <2>5 DEF Located
  <2>7. Queued' \cap batch' = {}
    BY <2>1, <2>2, <2>3 DEF Located
  <2>8. /\ \A q \in Requests : pc'[q] = "holding" => logged'[q] # 0
        /\ \A q \in Requests : pc'[q] \in {"idle", "looked"} => logged'[q] = 0
    BY <2>1, <2>4 DEF Located
  <2>9. QED
    BY <2>3, <2>6, <2>7, <2>8 DEF Located
<1>5. CASE Receive
  <2>1. /\ UNCHANGED <<pc, logged>> /\ queue # <<>> /\ queue' = Tail(queue)
        /\ batch' = batch \cup {Head(queue)}
    BY <1>5 DEF Receive, requestVars
  <2>2. /\ Head(queue) \in Queued /\ Queued' = Queued \ {Head(queue)}
        /\ \A i, j \in DOMAIN queue' : queue'[i] = queue'[j] => i = j
    BY <1>0, <2>1, QueuedReceive DEF Located
  <2>3. InSchedule' = InSchedule
    BY <2>1 DEF InSchedule, Current
  <2>4. QED
    BY <2>1, <2>2, <2>3 DEF Located
<1>6. CASE WriterStep
  <2>1. CASE ~Receive
    <3>1. UNCHANGED <<pc, logged, queue>> /\ batch' \subseteq batch
      BY <1>6, <2>1 DEF WriterStep, FlushBatch, FlushLastBatch, FlushCarried,
         FlushAtClose, RetryLocked, FailBatch, CommitBatch, SettleEntry,
         SettleCarried, SettleDone, requestVars, queueVars
    <3>2. QED
      BY <1>1, <3>1
  <2>2. QED
    BY <1>5, <2>1
<1>7. CASE Close \/ UNCHANGED vars \/ \E t \in Tokens : EditToken(t)
  BY <1>1, <1>7 DEF Close, EditToken, ResetTokenUsage, UpdateToken, DeleteToken, vars,
     requestVars, queueVars, writerVars
<1>8. QED
  BY <1>2, <1>3, <1>4, <1>6, <1>7 DEF Next, RequestStep

-----------------------------------------------------------------------------
(* The writer holds a batch and carried usage only while it works on them,  *)
(* and it returns only after the queue was closed and drained.              *)
WriterHolds ==
    /\ writer \in {"idle", "done"} => batch = {}
    /\ writer \in {"idle", "collecting", "done"} => taken = NoUsage
    /\ final = TRUE => /\ closed = TRUE /\ queue = <<>>
                       /\ writer \in {"writing", "settling", "done"}
    /\ writer = "done" => final = TRUE

(* What the writer holds at each of its steps (logging.go run, flush).      *)
LEMMA WriterHoldsStep == TypeOK /\ WriterHolds /\ [Next]_vars => WriterHolds'
<1> SUFFICES ASSUME TypeOK, WriterHolds, [Next]_vars PROVE WriterHolds'
  OBVIOUS
<1>0. closed \in BOOLEAN /\ final \in BOOLEAN
  BY DEF TypeOK, QueueType, WriterType
<1>1. ASSUME UNCHANGED writerVars, (closed = TRUE /\ queue = <<>>) => (closed' = TRUE /\ queue' = <<>>)
      PROVE  WriterHolds'
  BY <1>1 DEF WriterHolds, writerVars
<1>2. ASSUME NEW r \in Requests, RequestStep(r) PROVE WriterHolds'
  <2>1. UNCHANGED writerVars
    BY <1>2 DEF RequestStep, Lookup, AdmitUnlimited, Admit, Refuse, Release, Hold,
                Enqueue, Drop
  <2>2. UNCHANGED queueVars \/ ~closed
    BY <1>2 DEF RequestStep, Lookup, AdmitUnlimited, Admit, Refuse, Release, Hold,
                Enqueue, Drop
  <2>3. QED
    BY <1>0, <1>1, <2>1, <2>2 DEF queueVars
<1>3. CASE Close \/ UNCHANGED vars \/ \E t \in Tokens : EditToken(t)
  BY <1>1, <1>3 DEF Close, EditToken, ResetTokenUsage, UpdateToken, DeleteToken, vars,
     queueVars, writerVars
<1>4. CASE Receive
  BY <1>4 DEF Receive, WriterHolds
<1>5. CASE FlushBatch
  BY <1>5 DEF FlushBatch, TakeCarried, WriterHolds, queueVars
<1>6. CASE FlushLastBatch
  BY <1>0, <1>6 DEF FlushLastBatch, TakeCarried, WriterHolds, queueVars
<1>7. CASE FlushCarried
  BY <1>7 DEF FlushCarried, TakeCarried, WriterHolds, queueVars
<1>8. CASE FlushAtClose
  BY <1>0, <1>8 DEF FlushAtClose, TakeCarried, WriterHolds, queueVars, HasCarried
<1>9. CASE RetryLocked
  BY <1>9 DEF RetryLocked, WriterHolds, queueVars
<1>10. CASE FailBatch
  BY <1>0, <1>10 DEF FailBatch, AfterFlush, WriterHolds, queueVars
<1>11. CASE CommitBatch
  BY <1>11 DEF CommitBatch, WriterHolds, queueVars
<1>12. CASE SettleEntry
  BY <1>12 DEF SettleEntry, WriterHolds, queueVars
<1>13. CASE SettleCarried
  BY <1>13 DEF SettleCarried, WriterHolds, queueVars
<1>14. CASE SettleDone
  BY <1>0, <1>14 DEF SettleDone, AfterFlush, WriterHolds, queueVars
<1>15. QED
  BY <1>2, <1>3, <1>4, <1>5, <1>6, <1>7, <1>8, <1>9, <1>10, <1>11, <1>12, <1>13, <1>14
     DEF Next, WriterStep
-----------------------------------------------------------------------------
(* The usage the unsettled entries carry.                                   *)

(* The entries in flight are finitely many.                                 *)
LEMMA UnsettledType ==
    ASSUME TypeOK, Located
    PROVE  Unsettled \subseteq Entries /\ IsFiniteSet(Unsettled)
<1>1. InSchedule \subseteq Entries
  BY CurrentType DEF Located, InSchedule
<1>2. Queued \subseteq Entries
  BY ElementOfSeq DEF TypeOK, QueueType, Queued
<1>3. Unsettled \subseteq Entries
  BY <1>1, <1>2 DEF Unsettled, TypeOK, WriterType
<1>4. QED
  BY <1>3, AmountOfType

(* A step leaves the owner and the usage of the entries in flight alone.    *)
LEMMA EntriesStable ==
    ASSUME TypeOK, Located, [Next]_vars, NEW e \in Unsettled
    PROVE  Owner'[e] = Owner[e] /\ use'[e] = use[e]
<1>1. e \in Entries /\ e[1] \in Requests /\ e[2] \in Nat \ {0} /\ e = <<e[1], e[2]>>
  BY UnsettledType, QuotaAssumption DEF Entries
<1>2. pc[e[1]] \notin {"idle", "looked"}
  <2>1. CASE e \in InSchedule
    BY <2>1 DEF InSchedule, Current
  <2>2. CASE e \in Queued \cup batch
    <3>1. e[2] <= logged[e[1]]
      BY <2>2 DEF Located
    <3>2. logged[e[1]] # 0
      BY <1>1, <3>1
    <3>3. QED
      BY <1>1, <3>2 DEF Located
  <2>3. QED
    BY <2>1, <2>2 DEF Unsettled
<1>3. CASE UNCHANGED requestVars
  BY <1>1, <1>3 DEF requestVars, Owner
<1>4. ASSUME NEW r \in Requests, RequestStep(r)
      PROVE  cred'[e[1]] = cred[e[1]] /\ use'[e] = use[e]
  <2>1. CASE Lookup(r)
    BY <1>1, <1>2, <2>1 DEF Lookup, TypeOK, RequestType
  <2>2. CASE Hold(r)
    <3>1. e # <<r, logged[r] + 1>>
      BY <2>2, InScheduleStep
    <3>2. QED
      BY <1>1, <2>2, <3>1 DEF Hold, TypeOK, RequestType
  <2>3. CASE AdmitUnlimited(r) \/ Admit(r) \/ Refuse(r) \/ Release(r) \/ Enqueue(r) \/ Drop(r)
    BY <2>3 DEF AdmitUnlimited, Admit, Refuse, Release, Enqueue, Drop
  <2>4. QED
    BY <1>4, <2>1, <2>2, <2>3 DEF RequestStep
<1>5. QED
  BY <1>1, <1>3, <1>4, RequestFrame DEF Owner

(* So a step leaves the usage a set of entries in flight carries alone.     *)
LEMMA AmountStable ==
    ASSUME TypeOK, Located, [Next]_vars, NEW S \in SUBSET Unsettled, NEW t
    PROVE  Amount(S, Owner', use', t) = Amount(S, Owner, use, t)
<1>1. \A e \in S : Owner[e] = Owner'[e] /\ use[e] = use'[e]
  BY EntriesStable
<1>2. QED
  BY <1>1, AmountCongruence

(* Which steps add or remove an entry in flight: the second half of Hold's  *)
(* Schedule, a receive and a commit only move entries along.                *)
LEMMA UnsettledStep ==
    ASSUME TypeOK, Located, WriterHolds, [Next]_vars
    PROVE  \/ \E r \in Requests : Hold(r) /\ Unsettled' = Unsettled \cup {<<r, logged[r] + 1>>}
           \/ \E r \in Requests : Drop(r) /\ Unsettled' = Unsettled \ {Current(r)}
           \/ FailBatch /\ Unsettled' = Unsettled \ batch
           \/ \E e \in batch : /\ SettleEntry /\ Settle(Owner[e], use[e])
                               /\ Unsettled' = Unsettled \ {e}
           \/ /\ ~FailBatch /\ ~SettleEntry /\ \A r \in Requests : ~Hold(r) /\ ~Drop(r)
              /\ Unsettled' = Unsettled
<1>0. /\ queue \in Seq(Entries)
      /\ pc \in [Requests -> {"idle", "looked", "running", "holding", "done"}]
  BY DEF TypeOK, QueueType, RequestType
<1>1. ASSUME UNCHANGED <<pc, logged, queue>>
      PROVE  InSchedule' = InSchedule /\ Queued' = Queued
  BY <1>1 DEF InSchedule, Current, Queued
<1>2. ASSUME NEW r \in Requests,
             Lookup(r) \/ AdmitUnlimited(r) \/ Admit(r) \/ Refuse(r) \/ Release(r)
      PROVE  Unsettled' = Unsettled
  <2>1. UNCHANGED <<queue, batch>>
    BY <1>2 DEF Lookup, AdmitUnlimited, Admit, Refuse, Release, queueVars, writerVars
  <2>2. InSchedule' = InSchedule
    BY <1>2, InScheduleStep
  <2>3. QED
    BY <2>1, <2>2 DEF Unsettled, Queued
<1>3. ASSUME NEW r \in Requests, Hold(r)
      PROVE  Unsettled' = Unsettled \cup {<<r, logged[r] + 1>>}
  <2>1. UNCHANGED <<queue, batch>>
    BY <1>3 DEF Hold, queueVars, writerVars
  <2>2. InSchedule' = InSchedule \cup {<<r, logged[r] + 1>>}
    BY <1>3, InScheduleStep
  <2>3. QED
    BY <2>1, <2>2 DEF Unsettled, Queued
<1>4. ASSUME NEW r \in Requests, Enqueue(r) PROVE Unsettled' = Unsettled
  <2>1. batch' = batch /\ queue' = Append(queue, Current(r))
    BY <1>4 DEF Enqueue, writerVars
  <2>2. /\ InSchedule' = InSchedule \ {Current(r)} /\ Current(r) \in InSchedule
        /\ Current(r) \notin Queued /\ Current(r) \in Entries
    BY <1>4, InScheduleStep
  <2>3. Queued' = Queued \cup {Current(r)}
    BY <1>0, <2>1, <2>2, QueuedAppend DEF Located
  <2>4. QED
    BY <2>1, <2>2, <2>3 DEF Unsettled
<1>5. ASSUME NEW r \in Requests, Drop(r) PROVE Unsettled' = Unsettled \ {Current(r)}
  <2>1. UNCHANGED <<queue, batch>>
    BY <1>5 DEF Drop, queueVars, writerVars
  <2>2. /\ InSchedule' = InSchedule \ {Current(r)}
        /\ Current(r) \notin Queued \cup batch
    BY <1>5, InScheduleStep
  <2>3. QED
    BY <2>1, <2>2 DEF Unsettled, Queued
<1>6. CASE Receive
  <2>1. /\ UNCHANGED <<pc, logged>> /\ queue # <<>> /\ queue' = Tail(queue)
        /\ batch' = batch \cup {Head(queue)}
    BY <1>6 DEF Receive, requestVars
  <2>2. Head(queue) \in Queued /\ Queued' = Queued \ {Head(queue)}
    BY <1>0, <2>1, QueuedReceive DEF Located
  <2>3. InSchedule' = InSchedule
    BY <2>1 DEF InSchedule, Current
  <2>4. Unsettled' = Unsettled
    BY <2>1, <2>2, <2>3 DEF Unsettled
  <2>5. /\ ~FailBatch /\ ~SettleEntry
        /\ \A r \in Requests : ~Hold(r) /\ ~Drop(r)
    BY <1>0, <1>6 DEF Receive, FailBatch, SettleEntry, Hold, Drop, requestVars, TypeOK
  <2>6. QED
    BY <2>4, <2>5
<1>7. CASE FailBatch
  <2>1. UNCHANGED <<pc, logged, queue>> /\ batch' = {}
    BY <1>7 DEF FailBatch, requestVars, queueVars
  <2>2. Unsettled' = Unsettled \ batch
    BY <1>1, <2>1 DEF Unsettled, Located
  <2>3. QED
    BY <1>7, <2>2
<1>8. CASE SettleEntry
  <2>1. PICK e \in batch : batch' = batch \ {e} /\ Settle(Owner[e], use[e])
    BY <1>8 DEF SettleEntry
  <2>2. UNCHANGED <<pc, logged, queue>>
    BY <1>8 DEF SettleEntry, requestVars, queueVars
  <2>3. Unsettled' = Unsettled \ {e}
    BY <1>1, <2>1, <2>2 DEF Unsettled, Located
  <2>4. QED
    BY <1>8, <2>1, <2>3
<1>9. CASE /\ ~FailBatch /\ ~SettleEntry /\ ~Receive
           /\ \A r \in Requests : ~RequestStep(r)
  <2>1. UNCHANGED <<pc, logged, queue, batch>>
    BY <1>9 DEF Next, Close, WriterStep, FlushBatch, FlushLastBatch, FlushCarried,
       FlushAtClose, RetryLocked, CommitBatch, SettleCarried, SettleDone, EditToken,
       ResetTokenUsage, UpdateToken, DeleteToken, vars, requestVars, queueVars, writerVars
  <2>2. Unsettled' = Unsettled
    BY <1>1, <2>1 DEF Unsettled
  <2>3. QED
    BY <1>9, <2>2 DEF RequestStep
<1>10. ASSUME NEW r \in Requests, RequestStep(r), ~Hold(r), ~Drop(r)
       PROVE  /\ ~FailBatch /\ ~SettleEntry
              /\ \A q \in Requests : ~Hold(q) /\ ~Drop(q)
  <2>1. \E s \in {"looked", "running", "done"} : pc' = [pc EXCEPT ![r] = s] /\ s # pc[r]
    BY <1>10 DEF RequestStep, Lookup, AdmitUnlimited, Admit, Refuse, Release, Enqueue
  <2>2. pc'[r] # pc[r] /\ \A q \in Requests : q # r => pc'[q] = pc[q]
    BY <1>0, <2>1
  <2>3. ~FailBatch /\ ~SettleEntry
    BY <2>2 DEF FailBatch, SettleEntry, requestVars
  <2>4. ASSUME NEW q \in Requests, Hold(q) \/ Drop(q) PROVE FALSE
    <3>1. pc'[q] # pc[q]
      BY <1>0, <2>4 DEF Hold, Drop
    <3>2. q = r
      BY <2>2, <3>1
    <3>3. QED
      BY <1>10, <2>4, <3>2
  <2>5. QED
    BY <2>3, <2>4
<1>11. QED
  BY <1>2, <1>3, <1>4, <1>5, <1>6, <1>7, <1>8, <1>9, <1>10 DEF RequestStep

(* Settling a hold that is there lowers it by exactly what is settled, and  *)
(* the tracker keeps a key exactly while something is held.                 *)
LEMMA SettleExact ==
    ASSUME TypeOK, TrackedExactly, NEW t \in Tokens, NEW u \in Nat, u <= metered[t],
           Settle(t, u)
    PROVE  /\ metered' = [metered EXCEPT ![t] = @ - u]
           /\ requests' = requests
           /\ TrackedExactly'
<1>0. TrackerType /\ metered[t] \in Nat /\ metered[t] - u \in Nat
  BY DEF TypeOK, TrackerType
<1>1. CASE u = 0
  BY <1>0, <1>1 DEF Settle, trackerVars, TrackerType, TrackedExactly
<1>2. CASE u > 0
  <2>1. t \in tracked
    BY <1>0, <1>2 DEF TrackedExactly
  <2>2. /\ metered' = [metered EXCEPT ![t] = AtLeastZero(@ - u)]
        /\ requests' = requests
        /\ DiscardIfIdle(t)
    BY <1>2, <2>1 DEF Settle
  <2>3. AtLeastZero(metered[t] - u) = metered[t] - u
    BY <1>0 DEF AtLeastZero
  <2>4. metered' = [metered EXCEPT ![t] = @ - u]
    BY <1>0, <2>2, <2>3
  <2>5. TrackedExactly'
    BY <1>0, <2>2, <2>4 DEF TrackedExactly, DiscardIfIdle, TrackerType
  <2>6. QED
    BY <2>2, <2>4, <2>5
<1>3. QED
  BY <1>1, <1>2

(* Everything held for a token is at least what any one part of it is.      *)
LEMMA HeldBounds ==
    ASSUME TypeOK, Located, HeldExactly, NEW t \in Tokens
    PROVE  /\ taken[t] <= metered[t]
           /\ \A e \in Unsettled : Owner[e] = t => use[e] <= metered[t]
<1>1. AmountOf(Unsettled, t) \in Nat /\ carried[t] \in Nat /\ taken[t] \in Nat
  BY UnsettledType, AmountOfType DEF TypeOK, QueueType, WriterType
<1>2. metered[t] = AmountOf(Unsettled, t) + carried[t] + taken[t]
  BY DEF HeldExactly
<1>3. ASSUME NEW e \in Unsettled, Owner[e] = t PROVE use[e] <= AmountOf(Unsettled, t)
  <2>1. IsFiniteSet(Unsettled) /\ e \in Entries /\ Unsettled \ {e} \subseteq Entries
    BY UnsettledType
  <2>2. use[e] \in 0..MaxUse /\ use[e] \in Nat /\ AmountOf(Unsettled \ {e}, t) \in Nat
    BY <2>1, EntryType, AmountOfType
  <2>3. AmountOf(Unsettled, t) = AmountOf(Unsettled \ {e}, t) + use[e]
    BY <1>3, <2>1, <2>2, AmountRemove DEF AmountOf
  <2>4. QED
    BY <2>2, <2>3
<1>4. QED
  <2>1. ASSUME NEW e \in Unsettled, Owner[e] = t PROVE use[e] <= metered[t]
    <3>1. use[e] \in Nat
      BY EntryType, UnsettledType
    <3>2. QED
      BY <1>1, <1>2, <1>3, <2>1, <3>1
  <2>2. taken[t] <= metered[t]
    BY <1>1, <1>2
  <2>3. QED
    BY <2>1, <2>2

(* The tracker's keys and counters move together.                           *)
LEMMA TrackedStep ==
    ASSUME TypeOK, Located, HeldExactly, TrackedExactly, [Next]_vars
    PROVE  TrackedExactly'
<1>0. TrackerType
  BY DEF TypeOK
<1>1. CASE UNCHANGED trackerVars
  BY <1>1 DEF trackerVars, TrackedExactly
<1>2. ASSUME NEW r \in Requests PROVE cred[r].token \in Tokens
  BY DEF TypeOK, RequestType
<1>3. ASSUME NEW r \in Requests, Admit(r) PROVE TrackedExactly'
  BY <1>0, <1>2, <1>3 DEF Admit, Reserve, TrackedExactly, TrackerType
<1>4. ASSUME NEW r \in Requests, Release(r) PROVE TrackedExactly'
  BY <1>0, <1>1, <1>2, <1>4 DEF Release, ReleaseHold, DiscardIfIdle, AtLeastZero,
     TrackedExactly, TrackerType
<1>5. ASSUME NEW r \in Requests, Hold(r) PROVE TrackedExactly'
  <2>1. Costs \subseteq Nat
    BY QuotaAssumption, MaxUseAssumption
  <2>2. PICK u \in Costs : Meter(cred[r].token, u)
    BY <1>5 DEF Hold
  <2>3. QED
    BY <1>0, <1>2, <2>1, <2>2 DEF Meter, TrackedExactly, TrackerType
<1>6. CASE SettleEntry
  <2>1. PICK e \in batch : Settle(Owner[e], use[e])
    BY <1>6 DEF SettleEntry
  <2>2. e \in Unsettled
    BY DEF Unsettled
  <2>3. Owner[e] \in Tokens /\ use[e] \in Nat /\ use[e] <= metered[Owner[e]]
    BY <2>2, EntryType, UnsettledType, HeldBounds
  <2>4. QED
    BY <2>1, <2>3, SettleExact
<1>7. CASE SettleCarried
  <2>1. PICK t \in Tokens : Settle(t, taken[t])
    BY <1>7 DEF SettleCarried
  <2>2. taken[t] \in Nat /\ taken[t] <= metered[t]
    BY HeldBounds DEF TypeOK, WriterType
  <2>3. QED
    BY <2>1, <2>2, SettleExact
<1>8. QED
  BY <1>1, <1>3, <1>4, <1>5, <1>6, <1>7, TrackerFrame

-----------------------------------------------------------------------------
(* What is metered stays what is in flight.                                 *)

\* What HeldExactly says is held for t, at the end of a step.
HeldNext(t) == Amount(Unsettled', Owner', use', t) + carried'[t] + taken'[t]

(* Schedule meters what it is about to send.                                *)
LEMMA HeldHold ==
    ASSUME TypeOK, Located, WriterHolds, HeldExactly, [Next]_vars,
           NEW r \in Requests, Hold(r),
           Unsettled' = Unsettled \cup {<<r, logged[r] + 1>>}, NEW t \in Tokens
    PROVE  metered'[t] = HeldNext(t)
<1> DEFINE n == <<r, logged[r] + 1>>
<1>1. PICK u \in Costs : /\ use' = [use EXCEPT ![n] = u]
                         /\ Meter(cred[r].token, u)
  BY DEF Hold
<1>2. u \in 0..MaxUse /\ u \in Nat
  BY QuotaAssumption, MaxUseAssumption
<1>3. n \in Entries /\ n \notin Unsettled
  BY InScheduleStep
<1>4. Owner'[n] = cred[r].token /\ use'[n] = u
  BY <1>1, <1>3 DEF Hold, Owner, TypeOK, RequestType
<1>5. Amount(Unsettled', Owner', use', t)
        = Amount(Unsettled, Owner', use', t) + (IF Owner'[n] = t THEN use'[n] ELSE 0)
  <2>1. /\ IsFiniteSet(Unsettled') /\ n \in Unsettled' /\ use'[n] \in 0..MaxUse
        /\ Unsettled = Unsettled' \ {n}
    BY <1>2, <1>3, <1>4, UnsettledType, FS_AddElement
  <2> HIDE DEF n
  <2>2. Amount(Unsettled', Owner', use', t)
          = Amount(Unsettled' \ {n}, Owner', use', t) + (IF Owner'[n] = t THEN use'[n] ELSE 0)
    BY <2>1, AmountRemove
  <2>3. QED
    BY <2>1, <2>2
<1>6. Amount(Unsettled, Owner', use', t) = Amount(Unsettled, Owner, use, t)
  BY AmountStable
<1>7. /\ metered[t] = Amount(Unsettled, Owner, use, t) + carried[t] + taken[t]
      /\ Amount(Unsettled, Owner, use, t) \in Nat /\ carried[t] \in Nat /\ taken[t] \in Nat
  BY UnsettledType, AmountOfType DEF HeldExactly, AmountOf, TypeOK, QueueType, WriterType
<1>8. carried' = carried /\ taken' = taken
  BY DEF Hold, writerVars
<1>9. metered'[t] = metered[t] + (IF cred[r].token = t THEN u ELSE 0)
  BY <1>1, <1>2 DEF Meter, TypeOK, TrackerType
<1> HIDE DEF n
<1>10. QED
  BY <1>2, <1>4, <1>5, <1>6, <1>7, <1>8, <1>9 DEF HeldNext

(* A dropped entry's usage becomes carried usage (carryDropped).            *)
LEMMA HeldDrop ==
    ASSUME TypeOK, Located, WriterHolds, HeldExactly, [Next]_vars,
           NEW r \in Requests, Drop(r),
           Unsettled' = Unsettled \ {Current(r)}, NEW t \in Tokens
    PROVE  metered'[t] = HeldNext(t)
<1> DEFINE c == Current(r)
<1>1. c \in Entries /\ c \in Unsettled
  BY InScheduleStep DEF Unsettled
<1>2. Owner[c] = cred[r].token /\ use[c] \in 0..MaxUse /\ use[c] \in Nat
  BY <1>1, EntryType DEF Owner, Current
<1>3. Amount(Unsettled, Owner, use, t)
        = Amount(Unsettled \ {c}, Owner, use, t) + (IF Owner[c] = t THEN use[c] ELSE 0)
  BY <1>1, <1>2, UnsettledType, AmountRemove
<1>4. Amount(Unsettled', Owner', use', t) = Amount(Unsettled \ {c}, Owner, use, t)
  BY AmountStable
<1>5. /\ metered[t] = Amount(Unsettled, Owner, use, t) + carried[t] + taken[t]
      /\ carried[t] \in Nat /\ taken[t] \in Nat
      /\ Amount(Unsettled \ {c}, Owner, use, t) \in Nat
  BY UnsettledType, AmountOfType DEF HeldExactly, AmountOf, TypeOK, QueueType, WriterType
<1>6. taken' = taken /\ metered' = metered
  BY DEF Drop, writerVars, trackerVars
<1>7. carried'[t] = carried[t] + (IF cred[r].token = t THEN use[c] ELSE 0)
  BY <1>5 DEF Drop, TypeOK, QueueType
<1> HIDE DEF c
<1>8. QED
  BY <1>2, <1>3, <1>4, <1>5, <1>6, <1>7 DEF HeldNext

(* A failed batch's usage is carried again, the entries' and what the batch *)
(* had taken (flush).                                                       *)
LEMMA HeldFail ==
    ASSUME TypeOK, Located, WriterHolds, HeldExactly, [Next]_vars,
           FailBatch, Unsettled' = Unsettled \ batch, NEW t \in Tokens
    PROVE  metered'[t] = HeldNext(t)
<1>1. /\ batch \subseteq Unsettled /\ IsFiniteSet(batch) /\ IsFiniteSet(Unsettled \ batch)
      /\ Unsettled \ batch \subseteq Entries
      /\ Unsettled = (Unsettled \ batch) \cup batch /\ (Unsettled \ batch) \cap batch = {}
  BY UnsettledType, FS_Subset, AmountOfType DEF Unsettled
<1>2. Amount((Unsettled \ batch) \cup batch, Owner, use, t)
        = Amount(Unsettled \ batch, Owner, use, t) + Amount(batch, Owner, use, t)
  BY <1>1, AmountUnion
<1>3. Amount(Unsettled, Owner, use, t)
        = Amount(Unsettled \ batch, Owner, use, t) + Amount(batch, Owner, use, t)
  BY <1>1, <1>2
<1>4. Amount(Unsettled', Owner', use', t) = Amount(Unsettled \ batch, Owner, use, t)
  BY AmountStable
<1>5. /\ metered[t] = Amount(Unsettled, Owner, use, t) + carried[t] + taken[t]
      /\ carried[t] \in Nat /\ taken[t] \in Nat
      /\ Amount(Unsettled \ batch, Owner, use, t) \in Nat
      /\ Amount(batch, Owner, use, t) \in Nat
  BY <1>1, AmountOfType DEF HeldExactly, AmountOf, TypeOK, QueueType, WriterType
<1>6. metered' = metered /\ taken'[t] = 0
  BY DEF FailBatch, NoUsage, trackerVars
<1>7. carried'[t] = carried[t] + Amount(batch, Owner, use, t) + taken[t]
  BY DEF FailBatch, AmountOf
<1>8. QED
  BY <1>3, <1>4, <1>5, <1>6, <1>7 DEF HeldNext

(* Settling one entry takes its usage off the hold and out of flight.       *)
LEMMA HeldSettle ==
    ASSUME TypeOK, Located, WriterHolds, HeldExactly, TrackedExactly, [Next]_vars,
           SettleEntry, NEW e \in batch, Settle(Owner[e], use[e]),
           Unsettled' = Unsettled \ {e}, NEW t \in Tokens
    PROVE  metered'[t] = HeldNext(t)
<1>1. e \in Unsettled /\ e \in Entries
  BY UnsettledType DEF Unsettled
<1>2. /\ Owner[e] \in Tokens /\ use[e] \in 0..MaxUse /\ use[e] \in Nat
      /\ use[e] <= metered[Owner[e]]
  BY <1>1, EntryType, HeldBounds
<1>3. metered' = [metered EXCEPT ![Owner[e]] = @ - use[e]]
  BY <1>2, SettleExact
<1>4. metered'[t] = metered[t] - (IF Owner[e] = t THEN use[e] ELSE 0)
  BY <1>2, <1>3 DEF TypeOK, TrackerType
<1>5. Amount(Unsettled, Owner, use, t)
        = Amount(Unsettled \ {e}, Owner, use, t) + (IF Owner[e] = t THEN use[e] ELSE 0)
  BY <1>1, <1>2, UnsettledType, AmountRemove
<1>6. Amount(Unsettled', Owner', use', t) = Amount(Unsettled \ {e}, Owner, use, t)
  BY AmountStable
<1>7. /\ metered[t] = Amount(Unsettled, Owner, use, t) + carried[t] + taken[t]
      /\ carried[t] \in Nat /\ taken[t] \in Nat
      /\ Amount(Unsettled \ {e}, Owner, use, t) \in Nat
  BY UnsettledType, AmountOfType DEF HeldExactly, AmountOf, TypeOK, QueueType, WriterType
<1>8. carried' = carried /\ taken' = taken
  BY DEF SettleEntry
<1>9. QED
  BY <1>2, <1>4, <1>5, <1>6, <1>7, <1>8 DEF HeldNext

(* Every other step moves usage between the places it is held in.           *)
LEMMA HeldMove ==
    ASSUME TypeOK, Located, WriterHolds, HeldExactly, TrackedExactly, [Next]_vars,
           ~FailBatch, ~SettleEntry, \A r \in Requests : ~Hold(r) /\ ~Drop(r),
           Unsettled' = Unsettled, NEW t \in Tokens
    PROVE  metered'[t] = HeldNext(t)
<1>1. Amount(Unsettled', Owner', use', t) = Amount(Unsettled, Owner, use, t)
  BY AmountStable
<1>2. /\ metered[t] = Amount(Unsettled, Owner, use, t) + carried[t] + taken[t]
      /\ Amount(Unsettled, Owner, use, t) \in Nat
      /\ carried \in [Tokens -> Nat] /\ taken \in [Tokens -> Nat]
      /\ metered \in [Tokens -> Nat]
  BY UnsettledType, AmountOfType
     DEF HeldExactly, AmountOf, TypeOK, QueueType, WriterType, TrackerType
<1>3. CASE SettleCarried
  <2>1. PICK s \in Tokens : taken' = [taken EXCEPT ![s] = 0] /\ Settle(s, taken[s])
    BY <1>3 DEF SettleCarried
  <2>2. metered' = [metered EXCEPT ![s] = @ - taken[s]]
    BY <1>2, <2>1, HeldBounds, SettleExact
  <2>3. carried' = carried
    BY <1>3 DEF SettleCarried
  <2>4. QED
    BY <1>1, <1>2, <2>1, <2>2, <2>3 DEF HeldNext
<1>4. ASSUME ~SettleCarried PROVE metered' = metered
  <2>1. ASSUME NEW r \in Requests, Admit(r) \/ Release(r) PROVE metered' = metered
    BY <2>1 DEF Admit, Reserve, Release, ReleaseHold, trackerVars
  <2>2. QED
    BY <1>4, <2>1, TrackerFrame DEF trackerVars
<1>5. CASE FlushBatch \/ FlushLastBatch \/ FlushCarried \/ FlushAtClose
  <2>1. taken' = carried /\ carried'[t] = 0 /\ taken[t] = 0 /\ ~SettleCarried
    BY <1>5 DEF FlushBatch, FlushLastBatch, FlushCarried, FlushAtClose, TakeCarried,
       NoUsage, WriterHolds, SettleCarried
  <2>2. QED
    BY <1>1, <1>2, <1>4, <2>1 DEF HeldNext
<1>6. CASE ~SettleCarried /\ ~(FlushBatch \/ FlushLastBatch \/ FlushCarried \/ FlushAtClose)
  <2>1. carried' = carried
    BY <1>6, CarriedFrame
  <2>2. taken' = taken
    BY <1>6, WriterFrame DEF WriterStep, Receive, RetryLocked, CommitBatch, SettleDone,
       writerVars
  <2>3. QED
    BY <1>1, <1>2, <1>4, <1>6, <2>1, <2>2 DEF HeldNext
<1>7. QED
  BY <1>3, <1>5, <1>6

(* Together: what is metered stays what is in flight.                       *)
LEMMA HeldStep ==
    TypeOK /\ Located /\ WriterHolds /\ HeldExactly /\ TrackedExactly /\ [Next]_vars
      => HeldExactly'
<1> SUFFICES ASSUME TypeOK, Located, WriterHolds, HeldExactly, TrackedExactly,
                    [Next]_vars, NEW t \in Tokens
             PROVE  metered'[t] = HeldNext(t)
  BY DEF HeldExactly, HeldNext, AmountOf
<1>1. QED
  BY UnsettledStep, HeldHold, HeldDrop, HeldFail, HeldSettle, HeldMove
-----------------------------------------------------------------------------
(* Reservations.                                                            *)

\* A reservation is held only between admission and release.
ReservedRun == \A r \in reserved : pc[r] \in {"running", "holding"}

(* A reservation is taken by the request's own admission, which it comes    *)
(* to once, and given back by its own release.                              *)
LEMMA ReservedRunStep == TypeOK /\ ReservedRun /\ [Next]_vars => ReservedRun'
<1> SUFFICES ASSUME TypeOK, ReservedRun, [Next]_vars PROVE ReservedRun'
  OBVIOUS
<1>0. /\ pc \in [Requests -> {"idle", "looked", "running", "holding", "done"}]
      /\ reserved \subseteq Requests
  BY DEF TypeOK, RequestType
<1>1. CASE UNCHANGED requestVars
  BY <1>1 DEF requestVars, ReservedRun
<1>2. ASSUME NEW r \in Requests, RequestStep(r) PROVE ReservedRun'
  BY <1>0, <1>2 DEF RequestStep, Lookup, AdmitUnlimited, Admit, Refuse, Release, Hold,
     Enqueue, Drop, ReservedRun
<1>3. QED
  BY <1>1, <1>2, RequestFrame

(* What a step that leaves reservations alone leaves of ReservationsExact.  *)
LEMMA ReservationsKept ==
    ASSUME ReservationsExact, requests' = requests, reserved' = reserved,
           \A r \in reserved : cred'[r] = cred[r]
    PROVE  ReservationsExact'
<1>1. \A t \in Tokens : RunningOn(t)' = RunningOn(t)
  BY DEF RunningOn
<1>2. QED
  BY <1>1 DEF ReservationsExact

(* The tracker's count follows the requests that hold a reservation through *)
(* admission and release; nothing else moves it.                            *)
LEMMA ReservationsStep ==
    TypeOK /\ ReservedRun /\ TrackedExactly /\ ReservationsExact /\ [Next]_vars
      => ReservationsExact'
<1> SUFFICES ASSUME TypeOK, ReservedRun, TrackedExactly, ReservationsExact, [Next]_vars
             PROVE  ReservationsExact'
  OBVIOUS
<1>0. /\ cred \in [Requests -> [token : Tokens, used : Nat, limit : Limits]]
      /\ reserved \subseteq Requests /\ requests \in [Tokens -> Nat]
      /\ IsFiniteSet(Requests)
  BY QuotaAssumption DEF TypeOK, RequestType, TrackerType
<1>1. \A t \in Tokens : IsFiniteSet(RunningOn(t)) /\ Cardinality(RunningOn(t)) \in Nat
  BY <1>0, FS_Subset, FS_CardinalityType DEF RunningOn
<1>2. ASSUME NEW r \in Requests, Lookup(r) PROVE ReservationsExact'
  <2>1. r \notin reserved
    BY <1>2 DEF Lookup, ReservedRun
  <2>2. \A q \in reserved : cred'[q] = cred[q]
    BY <1>0, <1>2, <2>1 DEF Lookup
  <2>3. QED
    BY <1>2, <2>2, ReservationsKept DEF Lookup, trackerVars
<1>3. ASSUME NEW r \in Requests, Admit(r) PROVE ReservationsExact'
  <2> DEFINE c == cred[r].token
  <2>1. /\ r \notin reserved /\ c \in Tokens /\ cred' = cred
        /\ reserved' = reserved \cup {r} /\ requests' = [requests EXCEPT ![c] = @ + 1]
    BY <1>0, <1>3 DEF Admit, Reserve, ReservedRun
  <2>2. ASSUME NEW t \in Tokens PROVE requests'[t] = Cardinality(RunningOn(t)')
    <3>1. CASE t = c
      <4>1. RunningOn(t)' = RunningOn(t) \cup {r} /\ r \notin RunningOn(t)
        BY <2>1, <3>1 DEF RunningOn
      <4>2. Cardinality(RunningOn(t)') = Cardinality(RunningOn(t)) + 1
        BY <1>1, <4>1, FS_AddElement
      <4>3. requests'[t] = requests[t] + 1
        BY <1>0, <2>1, <3>1
      <4>4. QED
        BY <4>2, <4>3 DEF ReservationsExact
    <3>2. CASE t # c
      <4>1. RunningOn(t)' = RunningOn(t)
        BY <2>1, <3>2 DEF RunningOn
      <4>2. requests'[t] = requests[t]
        BY <1>0, <2>1, <3>2
      <4>3. QED
        BY <4>1, <4>2 DEF ReservationsExact
    <3>3. QED
      BY <3>1, <3>2
  <2>3. QED
    BY <2>2 DEF ReservationsExact
<1>4. ASSUME NEW r \in Requests, Release(r), r \notin reserved PROVE ReservationsExact'
  BY <1>4, ReservationsKept DEF Release, trackerVars
<1>5. ASSUME NEW r \in Requests, Release(r), r \in reserved PROVE ReservationsExact'
  <2> DEFINE c == cred[r].token
  <2>1. c \in Tokens /\ cred' = cred /\ reserved' = reserved \ {r} /\ r \in RunningOn(c)
    BY <1>0, <1>5 DEF Release, RunningOn
  <2>2. /\ Cardinality(RunningOn(c) \ {r}) = Cardinality(RunningOn(c)) - 1
        /\ IsFiniteSet(RunningOn(c) \ {r})
    BY <1>1, <2>1, FS_RemoveElement
  <2>3. Cardinality(RunningOn(c) \ {r}) \in Nat /\ requests[c] > 0
    BY <1>1, <2>1, <2>2, FS_CardinalityType DEF ReservationsExact
  <2>4. requests' = [requests EXCEPT ![c] = @ - 1]
    BY <1>0, <1>5, <2>1, <2>3 DEF Release, ReleaseHold, AtLeastZero, TrackedExactly
  <2>5. ASSUME NEW t \in Tokens PROVE requests'[t] = Cardinality(RunningOn(t)')
    <3>1. CASE t = c
      <4>1. RunningOn(t)' = RunningOn(t) \ {r}
        BY <2>1, <3>1 DEF RunningOn
      <4>2. requests'[t] = requests[t] - 1
        BY <1>0, <2>1, <2>4, <3>1
      <4>3. QED
        BY <2>2, <3>1, <4>1, <4>2 DEF ReservationsExact
    <3>2. CASE t # c
      <4>1. RunningOn(t)' = RunningOn(t)
        BY <2>1, <3>2 DEF RunningOn
      <4>2. requests'[t] = requests[t]
        BY <1>0, <2>1, <2>4, <3>2
      <4>3. QED
        BY <4>1, <4>2 DEF ReservationsExact
    <3>3. QED
      BY <3>1, <3>2
  <2>6. QED
    BY <2>5 DEF ReservationsExact
<1>6. ASSUME NEW r \in Requests,
             AdmitUnlimited(r) \/ Refuse(r) \/ Hold(r) \/ Enqueue(r) \/ Drop(r)
      PROVE  ReservationsExact'
  BY <1>6, ReservationsKept
     DEF AdmitUnlimited, Refuse, Hold, Meter, Enqueue, Drop, trackerVars
<1>7. CASE UNCHANGED requestVars
  <2>1. requests' = requests
    BY <1>7, <1>0, TrackerFrame DEF SettleEntry, SettleCarried, Settle, trackerVars,
       requestVars, TypeOK, RequestType, Admit, Release, Hold
  <2>2. QED
    BY <1>7, <2>1, ReservationsKept DEF requestVars
<1>8. QED
  BY <1>2, <1>3, <1>4, <1>5, <1>6, <1>7, RequestFrame DEF RequestStep
-----------------------------------------------------------------------------
(* The inductive invariant.                                                 *)

IInv ==
    /\ TypeOK /\ Located /\ WriterHolds /\ ReservedRun
    /\ HeldExactly /\ ReservationsExact /\ TrackedExactly

(* A gateway starts with an empty tracker, queue and batch.                 *)
LEMMA InitIInv == Init => IInv
<1> SUFFICES ASSUME Init PROVE IInv
  OBVIOUS
<1>0. /\ \E t \in Tokens : TRUE
      /\ 0 \in Limits /\ MaxLogs \in Nat /\ MaxFaults \in Nat /\ MaxEdits \in Nat
      /\ MaxUse \in Nat /\ QueueCapacity \in Nat \ {0} /\ MaxWriteAttempts \in Nat \ {0}
  BY QuotaAssumption, MaxUseAssumption
<1>1. TypeOK
  <2>1. DbType
    BY DEF Init, NoUsage, DbType
  <2>2. TrackerType
    BY DEF Init, NoUsage, TrackerType
  <2>3. RequestType
    BY <1>0 DEF Init, RequestType, Entries
  <2>4. QueueType
    <3>1. queue \in Seq(Entries) /\ Len(queue) <= QueueCapacity
      BY <1>0, EmptySeq DEF Init
    <3>2. closed \in BOOLEAN
      BY DEF Init
    <3>3. carried \in [Tokens -> Nat]
      BY DEF Init, NoUsage
    <3>4. QED
      BY <3>1, <3>2, <3>3 DEF QueueType
  <2>5. WriterType
    <3>1. 0 \in 0..(MaxWriteAttempts - 1)
      BY <1>0
    <3>2. taken \in [Tokens -> Nat]
      BY DEF Init, NoUsage
    <3>3. final \in BOOLEAN
      BY DEF Init
    <3>4. QED
      BY <3>1, <3>2, <3>3 DEF Init, WriterType
  <2>6. faults \in 0..MaxFaults /\ edits \in 0..MaxEdits
    BY <1>0 DEF Init
  <2>7. QED
    BY <2>1, <2>2, <2>3, <2>4, <2>5, <2>6 DEF TypeOK
<1>2. /\ InSchedule = {} /\ Queued = {} /\ batch = {} /\ reserved = {}
      /\ DOMAIN queue = {}
  <2>1. queue = <<>> /\ DOMAIN queue = {}
    BY DEF Init
  <2>2. QED
    BY <2>1 DEF Init, InSchedule, Queued
<1>3. Located
  BY <1>2 DEF Init, Located, InSchedule
<1>4. WriterHolds
  BY DEF Init, WriterHolds
<1>5. ReservedRun
  BY <1>2 DEF ReservedRun
<1>6. HeldExactly
  <2>1. \A t \in Tokens : AmountOf(Unsettled, t) = 0
    BY <1>2, AmountEmpty DEF Unsettled, AmountOf
  <2>2. QED
    BY <2>1 DEF Init, NoUsage, HeldExactly
<1>7. ReservationsExact
  <2>1. \A t \in Tokens : RunningOn(t) = {}
    BY <1>2 DEF RunningOn
  <2>2. QED
    BY <2>1, FS_EmptySet DEF Init, NoUsage, ReservationsExact
<1>8. TrackedExactly
  BY DEF Init, NoUsage, TrackedExactly
<1>9. QED
  BY <1>1, <1>3, <1>4, <1>5, <1>6, <1>7, <1>8 DEF IInv

(* Every step of the gateway keeps the invariant.                           *)
LEMMA StepIInv == IInv /\ [Next]_vars => IInv'
<1> SUFFICES ASSUME IInv, [Next]_vars PROVE IInv'
  OBVIOUS
<1>1. TypeOK'
  BY DbTypeStep, TrackerTypeStep, RequestTypeStep, QueueTypeStep, WriterTypeStep,
     BoundStep DEF IInv, TypeOK
<1>2. QED
  BY <1>1, LocatedStep, WriterHoldsStep, ReservedRunStep, HeldStep, ReservationsStep,
     TrackedStep DEF IInv

(* What the theorems below rest on.                                         *)
LEMMA Invariance == Spec => []IInv
BY InitIInv, StepIInv, PTL DEF Spec

(* Type correctness: every variable keeps its type, and the tracker's       *)
(* counters never go below zero (quota/tracker.go:144, 177).                *)
THEOREM TypeCorrect == Spec => []TypeOK
<1>1. IInv => TypeOK
  BY DEF IInv
<1>2. QED
  BY <1>1, Invariance, PTL

(* What is metered is exactly the usage in flight: the hold Schedule takes  *)
(* survives a dropped row and a failed batch, and ends with the commit that *)
(* stores it (logging.go Schedule, flush).                                  *)
THEOREM HeldIsExact == Spec => []HeldExactly
<1>1. IInv => HeldExactly
  BY DEF IInv
<1>2. QED
  BY <1>1, Invariance, PTL

(* Each admitted request weighs on its token once until its deferred        *)
(* release, whatever happens in between (quota/tracker.go Admit, Release).  *)
THEOREM ReservationsAreExact == Spec => []ReservationsExact
<1>1. IInv => ReservationsExact
  BY DEF IInv
<1>2. QED
  BY <1>1, Invariance, PTL

(* The tracker's map has no key that holds nothing (discardIfIdle).         *)
THEOREM TrackerDoesNotLeak == Spec => []TrackedExactly
<1>1. IInv => TrackedExactly
  BY DEF IInv
<1>2. QED
  BY <1>1, Invariance, PTL

(* The writer drains the queue before it returns, whichever way it learns   *)
(* that the queue is closed (logging.go run, CloseWithin).                  *)
THEOREM QueueIsDrained == Spec => []NothingStranded
<1>1. IInv => NothingStranded
  BY DEF IInv, WriterHolds, NothingStranded
<1>2. QED
  BY <1>1, Invariance, PTL
-----------------------------------------------------------------------------
(* Admission and the abstract ledger: what is owed is what is metered, less *)
(* what a commit has stored and not settled yet.                            *)

Settling(t) == IF Committed THEN AmountOf(batch, t) + taken[t] ELSE 0

(* The tracker holds what is owed, and what is being settled on top of it.  *)
LEMMA HeldIsOwed ==
    ASSUME IInv, NEW t \in Tokens
    PROVE  /\ Owed(t) \in Nat /\ Settling(t) \in Nat
           /\ metered[t] = Owed(t) + Settling(t)
<1>1. /\ Unsettled \subseteq Entries /\ IsFiniteSet(Unsettled)
      /\ metered[t] = AmountOf(Unsettled, t) + carried[t] + taken[t]
      /\ metered[t] \in Nat /\ carried[t] \in Nat /\ taken[t] \in Nat
  BY UnsettledType DEF IInv, HeldExactly, TypeOK, QueueType, WriterType, TrackerType
<1>2. CASE ~Committed
  <2>1. Unstored = Unsettled
    BY <1>2 DEF Unstored, Unsettled
  <2>2. Owed(t) = AmountOf(Unsettled, t) + carried[t] + taken[t] /\ Settling(t) = 0
    BY <1>2, <2>1 DEF Owed, Settling
  <2>3. QED
    BY <1>1, <2>2
<1>3. CASE Committed
  <2> DEFINE W == InSchedule \cup Queued
  <2>1. /\ Unstored = W /\ Unsettled = W \cup batch /\ W \cap batch = {}
        /\ W \subseteq Entries /\ batch \subseteq Entries
        /\ IsFiniteSet(W) /\ IsFiniteSet(batch)
    BY <1>1, <1>3, FS_Subset DEF Unstored, Unsettled, IInv, Located
  <2>2. AmountOf(Unsettled, t) = AmountOf(W, t) + AmountOf(batch, t)
    <3> HIDE DEF W
    <3>1. QED
      BY <2>1, AmountUnion DEF AmountOf
  <2>3. AmountOf(W, t) \in Nat /\ AmountOf(batch, t) \in Nat
    BY <2>1, AmountOfType DEF IInv
  <2>4. /\ Owed(t) = AmountOf(W, t) + carried[t]
        /\ Settling(t) = AmountOf(batch, t) + taken[t]
    <3> HIDE DEF W
    <3>1. QED
      BY <1>1, <1>3, <2>1, <2>3 DEF Owed, Settling
  <2>5. QED
    BY <1>1, <2>2, <2>3, <2>4
<1>4. QED
  BY <1>2, <1>3

(* A request comes out of admission only through Admit.                     *)
LEMMA AdmittedByAdmit ==
    ASSUME TypeOK, [Next]_vars, NEW r \in Requests, Admitted(r)
    PROVE  Admit(r)
<1>0. pc \in [Requests -> {"idle", "looked", "running", "holding", "done"}]
  BY DEF TypeOK, RequestType
<1>1. PICK q \in Requests : RequestStep(q)
  BY RequestFrame DEF Admitted, requestVars
<1>2. q = r
  <2>1. \E s : pc' = [pc EXCEPT ![q] = s]
    BY <1>1 DEF RequestStep, Lookup, AdmitUnlimited, Admit, Refuse, Release, Hold,
       Enqueue, Drop
  <2>2. QED
    BY <1>0, <2>1 DEF Admitted
<1>3. pc[r] = "looked" /\ pc'[r] = "running" /\ cred[r].limit # 0
  BY DEF Admitted
<1>4. ~Lookup(r) /\ ~AdmitUnlimited(r)
  BY <1>3 DEF Lookup, AdmitUnlimited
<1>5. ~Refuse(r) /\ ~Release(r)
  <2>1. Refuse(r) => pc'[r] = "done"
    BY <1>0 DEF Refuse
  <2>2. QED
    BY <1>3, <2>1 DEF Release
<1>6. ~Hold(r) /\ ~Enqueue(r) /\ ~Drop(r)
  BY <1>0, <1>3 DEF Hold, Enqueue, Drop
<1>7. QED
  BY <1>1, <1>2, <1>4, <1>5, <1>6 DEF RequestStep
(* Admission weighs everything spent on the token, and each request running *)
(* on it once, whenever the total it was given is still the stored one      *)
(* (quota/tracker.go Admit, middleware/auth.go RequireDownstream).          *)
THEOREM AdmissionIsSound == Spec => AdmissionSound
<1>1. ASSUME IInv, [Next]_vars, NEW r \in Requests, Admitted(r),
             cred[r].used = used[cred[r].token]
      PROVE  LET t == cred[r].token IN
             used[t] + Owed(t) + Cardinality(RunningOn(t)) * ProvisionalCost < cred[r].limit
  <2> DEFINE t == cred[r].token
  <2>1. /\ t \in Tokens /\ used[t] \in Nat /\ requests[t] \in Nat /\ cred[r].limit \in Nat
        /\ ProvisionalCost \in Nat
    <3>1. Limits \subseteq Nat /\ ProvisionalCost \in Nat
      BY QuotaAssumption
    <3>2. cred[r] \in [token : Tokens, used : Nat, limit : Limits]
      BY <1>1 DEF IInv, TypeOK, RequestType
    <3>3. used \in [Tokens -> Nat] /\ requests \in [Tokens -> Nat]
      BY <1>1 DEF IInv, TypeOK, DbType, TrackerType
    <3>4. QED
      BY <3>1, <3>2, <3>3
  <2>2. Admit(r)
    BY <1>1, AdmittedByAdmit DEF IInv
  <2>3. used[t] + metered[t] + requests[t] * ProvisionalCost < cred[r].limit
    BY <1>1, <2>2 DEF Admit, Projected
  <2>4. requests[t] = Cardinality(RunningOn(t))
    BY <1>1, <2>1 DEF IInv, ReservationsExact
  <2>5. metered[t] = Owed(t) + Settling(t) /\ Owed(t) \in Nat /\ Settling(t) \in Nat
    BY <1>1, <2>1, HeldIsOwed
  <2> HIDE DEF t
  <2>6. requests[t] * ProvisionalCost \in Nat
    BY <2>1
  <2>7. used[t] + Owed(t) + requests[t] * ProvisionalCost < cred[r].limit
    BY <2>1, <2>3, <2>5, <2>6
  <2>8. QED
    BY <2>4, <2>7 DEF t
<1>2. ASSUME IInv, [Next]_vars
      PROVE  \A r \in Requests :
               LET t == cred[r].token IN
               Admitted(r) /\ cred[r].used = used[t]
                 => used[t] + Owed(t) + Cardinality(RunningOn(t)) * ProvisionalCost
                      < cred[r].limit
  BY <1>1, <1>2
<1>3. QED
  BY <1>2, Invariance, PTL DEF Spec, AdmissionSound
-----------------------------------------------------------------------------
(* The abstract ledger.                                                     *)

(* How the usage being settled moves: a commit starts settling what it      *)
(* stored, each Settle takes its part off, and other steps leave it alone.  *)
LEMMA BatchStable ==
    ASSUME IInv, [Next]_vars, batch' = batch, NEW t \in Tokens
    PROVE  AmountOf(batch, t)' = AmountOf(batch, t)
<1>1. batch \in SUBSET Unsettled
  BY DEF Unsettled
<1>2. QED
  BY <1>1, AmountStable DEF IInv, AmountOf
\* The relation in every state the invariant allows, this one and the next.
Owes ==
    \A t \in Tokens : /\ Owed(t) \in Nat /\ Settling(t) \in Nat
                      /\ metered[t] = Owed(t) + Settling(t)

(* HeldIsOwed for every token at once.                                      *)
LEMMA OwesNow == IInv => Owes
BY HeldIsOwed DEF Owes

(* The same at the end of a step.                                           *)
LEMMA OwesNext == IInv' => Owes'
BY OwesNow, PTL

(* What a commit stores it settles; a Settle call takes its own part off;   *)
(* no other step touches what is being settled.                             *)
LEMMA SettlingKept ==
    ASSUME IInv, [Next]_vars, ~CommitBatch, ~SettleEntry, ~SettleCarried, NEW t \in Tokens
    PROVE  Settling(t)' = Settling(t)
<1>1. CASE UNCHANGED writerVars
  <2>1. AmountOf(batch, t)' = AmountOf(batch, t)
    BY <1>1, BatchStable DEF writerVars
  <2>2. QED
    BY <1>1, <2>1 DEF writerVars, Settling, Committed
<1>2. CASE WriterStep /\ writer # "settling"
  <2>1. writer' # "settling"
    BY <1>2 DEF WriterStep, Receive, FlushBatch, FlushLastBatch, FlushCarried,
       FlushAtClose, RetryLocked, FailBatch, AfterFlush, SettleDone
  <2>2. QED
    BY <1>2, <2>1 DEF Settling, Committed
<1>3. CASE WriterStep /\ writer = "settling"
  <2>1. batch = {} /\ taken = NoUsage /\ writer' # "settling"
    BY <1>3 DEF WriterStep, Receive, FlushBatch, FlushLastBatch, FlushCarried,
       FlushAtClose, RetryLocked, FailBatch, AfterFlush, SettleDone
  <2>2. AmountOf(batch, t) = 0
    BY <2>1, AmountEmpty DEF AmountOf
  <2>3. QED
    BY <2>1, <2>2 DEF Settling, Committed, NoUsage
<1>4. QED
  BY <1>1, <1>2, <1>3, WriterFrame

(* Usage is owed from the step that meters it to the commit that stores it: *)
(* drops, failed batches, flushes and settling move it and keep it.         *)
LEMMA OwedKept ==
    ASSUME IInv, [Next]_vars, ~CommitBatch, \A r \in Requests : ~Hold(r), NEW t \in Tokens
    PROVE  Owed(t)' = Owed(t)
<1>0. Owes /\ Owes'
  BY OwesNow, OwesNext, StepIInv
<1>1. CASE SettleEntry
  <2>1. PICK e \in batch : batch' = batch \ {e} /\ Settle(Owner[e], use[e])
    BY <1>1 DEF SettleEntry
  <2>2. e \in Unsettled /\ batch \subseteq Unsettled /\ IsFiniteSet(batch)
        /\ batch \subseteq Entries
    BY UnsettledType, FS_Subset DEF Unsettled, IInv
  <2>3. /\ Owner[e] \in Tokens /\ use[e] \in 0..MaxUse /\ use[e] \in Nat
        /\ use[e] <= metered[Owner[e]]
    BY <2>2, EntryType, UnsettledType, HeldBounds DEF IInv
  <2>4. metered' = [metered EXCEPT ![Owner[e]] = @ - use[e]]
    BY <2>1, <2>3, SettleExact DEF IInv
  <2>5. metered'[t] = metered[t] - (IF Owner[e] = t THEN use[e] ELSE 0)
    BY <2>3, <2>4 DEF IInv, TypeOK, TrackerType
  <2>6. AmountOf(batch, t)
          = Amount(batch \ {e}, Owner, use, t) + (IF Owner[e] = t THEN use[e] ELSE 0)
    BY <2>2, <2>3, AmountRemove DEF AmountOf
  <2>7. AmountOf(batch, t)' = Amount(batch \ {e}, Owner, use, t)
    <3>1. batch \ {e} \in SUBSET Unsettled
      BY <2>2
    <3>2. Amount(batch \ {e}, Owner', use', t) = Amount(batch \ {e}, Owner, use, t)
      BY <3>1, AmountStable DEF IInv
    <3>3. QED
      BY <2>1, <3>2 DEF AmountOf
  <2>8. Amount(batch \ {e}, Owner, use, t) \in Nat /\ taken[t] \in Nat
    BY <2>2, AmountOfType DEF AmountOf, IInv, TypeOK, WriterType
  <2>9. /\ Settling(t) = AmountOf(batch, t) + taken[t]
        /\ Settling(t)' = AmountOf(batch, t)' + taken[t]
    BY <1>1 DEF SettleEntry, Settling, Committed
  <2>10. QED
    BY <1>0, <2>3, <2>5, <2>6, <2>7, <2>8, <2>9 DEF Owes
<1>2. CASE SettleCarried
  <2>1. PICK s \in Tokens : taken' = [taken EXCEPT ![s] = 0] /\ Settle(s, taken[s])
    BY <1>2 DEF SettleCarried
  <2>2. taken \in [Tokens -> Nat] /\ metered \in [Tokens -> Nat]
    BY DEF IInv, TypeOK, WriterType, TrackerType
  <2>3. metered' = [metered EXCEPT ![s] = @ - taken[s]]
    BY <2>1, <2>2, HeldBounds, SettleExact DEF IInv
  <2>4. batch = {} /\ batch' = {}
    BY <1>2 DEF SettleCarried
  <2>5. AmountOf(batch, t) = 0 /\ AmountOf(batch, t)' = 0
    BY <2>4, AmountEmpty DEF AmountOf
  <2>6. Settling(t) = taken[t] /\ Settling(t)' = taken'[t]
    BY <1>2, <2>1, <2>2, <2>5 DEF SettleCarried, Settling, Committed
  <2>7. QED
    BY <1>0, <2>1, <2>2, <2>3, <2>6 DEF Owes
<1>3. CASE ~SettleEntry /\ ~SettleCarried
  <2>1. metered' = metered
    BY <1>3, TrackerFrame DEF trackerVars, Admit, Reserve, Release, ReleaseHold
  <2>2. QED
    BY <1>0, <1>3, <2>1, SettlingKept DEF Owes
<1>4. QED
  BY <1>1, <1>2, <1>3
(* Metering an attempt adds its usage to what its token is owed.            *)
LEMMA HoldOwes ==
    ASSUME IInv, [Next]_vars, NEW r \in Requests, Hold(r)
    PROVE  \E u \in Nat : \A t \in Tokens :
             Owed(t)' = Owed(t) + (IF cred[r].token = t THEN u ELSE 0)
<1>0. Owes /\ Owes'
  BY OwesNow, OwesNext, StepIInv
<1>1. PICK u \in Costs : Meter(cred[r].token, u)
  BY DEF Hold
<1>2. u \in Nat
  BY QuotaAssumption, MaxUseAssumption
<1>3. ASSUME NEW t \in Tokens
      PROVE  Owed(t)' = Owed(t) + (IF cred[r].token = t THEN u ELSE 0)
  <2>1. metered'[t] = metered[t] + (IF cred[r].token = t THEN u ELSE 0)
    BY <1>1 DEF Meter, IInv, TypeOK, TrackerType
  <2>2. Settling(t)' = Settling(t)
    <3>1. UNCHANGED writerVars
      BY DEF Hold
    <3>2. AmountOf(batch, t)' = AmountOf(batch, t)
      BY <3>1, BatchStable DEF writerVars
    <3>3. QED
      BY <3>1, <3>2 DEF writerVars, Settling, Committed
  <2>3. QED
    BY <1>0, <1>2, <2>1, <2>2 DEF Owes
<1>4. QED
  BY <1>2, <1>3

(* A commit takes from every token's debt what it adds to its total.        *)
LEMMA CommitOwes ==
    ASSUME IInv, [Next]_vars, CommitBatch, NEW t \in Tokens
    PROVE  /\ AmountOf(batch, t) + taken[t] \in Nat
           /\ Owed(t) = Owed(t)' + (AmountOf(batch, t) + taken[t])
<1>0. Owes /\ Owes'
  BY OwesNow, OwesNext, StepIInv
<1>1. /\ metered' = metered /\ batch' = batch /\ taken' = taken
      /\ writer = "writing" /\ writer' = "settling"
  BY DEF CommitBatch, trackerVars
<1>2. AmountOf(batch, t)' = AmountOf(batch, t)
  BY <1>1, BatchStable
<1>3. Settling(t) = 0 /\ Settling(t)' = AmountOf(batch, t) + taken[t]
  BY <1>1, <1>2 DEF Settling, Committed
<1>4. QED
  BY <1>0, <1>1, <1>3 DEF Owes

\* What the ledger's variable stands for.
OwedMap == [t \in Tokens |-> Owed(t)]

(* A gateway that starts owes nothing.                                      *)
LEMMA LedgerInit == Init => Abstract!Init
<1> SUFFICES ASSUME Init PROVE Abstract!Init
  OBVIOUS
<1>1. Unstored = {}
  BY DEF Init, Unstored, InSchedule, Queued, Committed
<1>2. ASSUME NEW t \in Tokens PROVE Owed(t) = 0
  <2>1. AmountOf(Unstored, t) = 0
    BY <1>1, AmountEmpty DEF AmountOf
  <2>2. QED
    BY <2>1 DEF Init, Owed, NoUsage
<1>3. QED
  BY <1>2 DEF Init, Abstract!Init, NoUsage

(* Every step of the gateway is a step of the ledger or leaves it alone.    *)
LEMMA LedgerStep == IInv /\ [Next]_vars => [Abstract!Next]_(Abstract!ledgerVars)
<1> SUFFICES ASSUME IInv, [Next]_vars PROVE [Abstract!Next]_(Abstract!ledgerVars)
  OBVIOUS
<1>0. /\ Owes /\ Owes'
      /\ used \in [Tokens -> Nat] /\ cred \in [Requests -> [token : Tokens, used : Nat, limit : Limits]]
  BY OwesNow, OwesNext, StepIInv DEF IInv, TypeOK, DbType, RequestType
<1>1. OwedMap \in [Tokens -> Nat] /\ OwedMap' \in [Tokens -> Nat]
  BY <1>0 DEF OwedMap, Owes
<1>2. CASE CommitBatch
  <2>1. \A t \in Tokens : OwedMap[t] = OwedMap'[t] + (AmountOf(batch, t) + taken[t])
                          /\ AmountOf(batch, t) + taken[t] \in Nat
    BY <1>2, CommitOwes DEF OwedMap
  <2>2. \A t \in Tokens : OwedMap'[t] <= OwedMap[t]
    BY <1>1, <2>1
  <2>3. /\ rows' = rows
        /\ used' = [t \in Tokens |-> IF t \in rows
                                     THEN used[t] + AmountOf(batch, t) + taken[t] ELSE used[t]]
    BY <1>2 DEF CommitBatch
  <2>4. \A t \in Tokens :
          used[t] + AmountOf(batch, t) + taken[t] = used[t] + (OwedMap[t] - OwedMap'[t])
    <3> TAKE t \in Tokens
    <3>1. AmountOf(batch, t) \in Nat /\ taken[t] \in Nat
      BY AmountOfType DEF IInv, TypeOK, WriterType
    <3>2. QED
      BY <1>0, <1>1, <2>1, <3>1
  <2>5. Abstract!Commit
    BY <1>1, <2>2, <2>3, <2>4 DEF Abstract!Commit, OwedMap
  <2>6. QED
    BY <2>5 DEF Abstract!Next
<1>3. ASSUME NEW r \in Requests, Hold(r) PROVE Abstract!Next
  <2> DEFINE c == cred[r].token
  <2>1. c \in Tokens /\ UNCHANGED <<rows, used>>
    BY <1>0, <1>3 DEF Hold, dbVars
  <2>2. PICK u \in Nat : \A t \in Tokens :
          Owed(t)' = Owed(t) + (IF c = t THEN u ELSE 0)
    BY <1>3, HoldOwes
  <2>3. OwedMap'[c] >= OwedMap[c] /\ \A s \in Tokens \ {c} : OwedMap'[s] = OwedMap[s]
    BY <1>0, <2>1, <2>2 DEF OwedMap, Owes
  <2> HIDE DEF c
  <2>4. Abstract!Incur(c)
    BY <1>1, <2>1, <2>3 DEF Abstract!Incur, OwedMap
  <2>5. QED
    BY <2>1, <2>4 DEF Abstract!Next
<1>4. CASE ~CommitBatch /\ \A r \in Requests : ~Hold(r)
  <2>1. OwedMap' = OwedMap
    BY <1>4, OwedKept DEF OwedMap
  <2>2. ASSUME NEW t \in Tokens, EditToken(t) PROVE [Abstract!Next]_(Abstract!ledgerVars)
    <3>1. CASE ResetTokenUsage(t)
      BY <2>1, <3>1 DEF ResetTokenUsage, Abstract!Next, Abstract!Reset, OwedMap
    <3>2. CASE UpdateToken(t)
      BY <2>1, <3>2 DEF UpdateToken, Abstract!ledgerVars, OwedMap
    <3>3. CASE DeleteToken(t)
      BY <2>1, <3>3 DEF DeleteToken, Abstract!Next, Abstract!Delete, OwedMap
    <3>4. QED
      BY <2>2, <3>1, <3>2, <3>3 DEF EditToken
  <2>3. CASE UNCHANGED dbVars
    BY <2>1, <2>3 DEF dbVars, Abstract!ledgerVars, OwedMap
  <2>4. QED
    BY <1>4, <2>2, <2>3, DbFrame
<1>5. QED
  BY <1>2, <1>3, <1>4

(* The detailed accounting implements the abstract ledger: whatever happens *)
(* to the rows that carry it, usage is stored exactly once (logging.go      *)
(* Schedule, flush, insertLogBatch; quota/tracker.go).                      *)
THEOREM LedgerImplemented == Spec => ImplementsLedger
<1>1. IInv /\ [Next]_vars => [Abstract!Next]_(Abstract!ledgerVars)
  BY LedgerStep
<1>2. QED
  BY <1>1, LedgerInit, Invariance, PTL DEF Spec, ImplementsLedger, Abstract!Spec
=============================================================================

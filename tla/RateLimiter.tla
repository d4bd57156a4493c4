---------------------------- MODULE RateLimiter -----------------------------
(***************************************************************************)
(* The rate limiter: sliding windows of whole-second buckets, one for each *)
(* token or channel, shared by the requests being checked and a cleanup    *)
(* goroutine that prunes them and takes idle ones out of the map.          *)
(*   ratelimit/limiter.go; callers in middleware/auth.go and               *)
(*   proxy/ratelimit.go.                                                   *)
(* A window is an object: a request that looked it up keeps it, in the map *)
(* or not. Each step is one stretch under one of the locks.                *)
(***************************************************************************)
EXTENDS Integers, Sequences, FiniteSets, FiniteSetsExt, SequencesExt

CONSTANTS
    Ids,            \* tokens or channels
    Checks,         \* goroutines checking a limit
    Limits,         \* [requests, window]: what a limit may be, or be edited to
    Second,         \* one second, in units of now
    CleanupInterval,
    MaxNow,         \* bound on the clock
    MaxDelay,       \* bound on the time one check takes
    MaxWindows      \* bound on the windows ever made

ASSUME LimiterAssumption ==
    /\ \A l \in Limits : l.requests \in Nat \ {0} /\ l.window \in Nat \ {0}
    /\ Second \in Nat \ {0} /\ CleanupInterval \in Nat \ {0}
    /\ MaxNow \in Nat /\ MaxDelay \in Nat /\ MaxWindows \in Nat

VARIABLES
    now,        \* time.Now
    windows,    \* Limiter.windows: id -> index of its window, 0 for none
    heap,       \* the windows ever made
    check,      \* what each check has read so far, and where it is
    cleaner     \* the cleanup goroutine

limiterVars == <<now, windows, heap, check, cleaner>>

Unix(t) == t \div Second
MaxOf(a, b) == IF a > b THEN a ELSE b

\* Admissions by time, and the start of the widest span asked about last.
NoAdmissions == [at |-> [t \in 0..MaxNow |-> 0], floor |-> 0 - MaxNow]

NoCheck == [pc |-> "idle", id |-> CHOOSE i \in Ids : TRUE, limit |-> CHOOSE l \in Limits : TRUE,
            at |-> 0, window |-> 0]
NoCleanup == [pc |-> "idle", at |-> 0, tracked |-> {}, reclaim |-> {}]

LimiterInit ==
    /\ now = 0
    /\ windows = [i \in Ids |-> 0]
    /\ heap = <<>>
    /\ check = [c \in Checks |-> NoCheck]
    /\ cleaner = NoCleanup
-----------------------------------------------------------------------------
(* A window, and what it may be asked. *)
NewWindow(id, retain, at) ==
    [id |-> id, buckets |-> <<>>, total |-> 0, retain |-> retain, lastUsed |-> at, seen |-> NoAdmissions]

Empty(w) == w.buckets = <<>>

\* Mutant: the second the window starts in is dropped with those before it.
ExpireInclusive(w, since) ==
    LET live == SelectSeq(w.buckets, LAMBDA b : b.second > since)
    IN  [w EXCEPT !.buckets = live,
                  !.total = FoldSeq(LAMBDA b, sum : sum + b.count, 0, live)]

\* Buckets are in order, so the expired ones are a prefix.
Expire(w, since) ==
    LET drained == SelectInSeq(w.buckets, LAMBDA b : b.second >= since)
        n == IF drained = 0 THEN Len(w.buckets) ELSE drained - 1
    IN  [w EXCEPT !.buckets = SubSeq(@, n + 1, Len(@)),
                  !.total = @ - FoldSeq(LAMBDA b, sum : sum + b.count, 0, SubSeq(w.buckets, 1, n))]

\* Mutant: every time gets a bucket of its own.
RecordApart(w, second) ==
    [w EXCEPT !.total = @ + 1, !.buckets = Append(@, [second |-> second, count |-> 1])]

\* A time read before the newest bucket's joins it.
Record(w, second) ==
    LET b == w.buckets
        n == Len(b)
        recorded == IF n > 0 /\ b[n].second >= second THEN [b EXCEPT ![n].count = @ + 1]
                    ELSE Append(b, [second |-> second, count |-> 1])
    IN  [w EXCEPT !.total = @ + 1, !.buckets = recorded]

\* What a precise count keeps: everything after the floor, which only rises.
Ask(seen, from) ==
    LET floor == MaxOf(seen.floor, from)
    IN  [floor |-> floor, at |-> [t \in 0..MaxNow |-> IF t > floor THEN seen.at[t] ELSE 0]]
Precise(seen) == MapThenSumSet(LAMBDA t : seen.at[t], 0..MaxNow)
-----------------------------------------------------------------------------
(* Check. *)
MapLocked == cleaner.pc = "reclaim"

BeginCheck(c) ==
    /\ check[c].pc = "idle"
    /\ \E i \in Ids, l \in Limits :
         check' = [check EXCEPT ![c] = [NoCheck EXCEPT !.pc = "lookup", !.id = i, !.limit = l,
                                                      !.at = now]]
    /\ UNCHANGED <<now, windows, heap, cleaner>>

Lookup(c) ==
    LET w == windows[check[c].id]
    IN  /\ check[c].pc = "lookup" /\ ~MapLocked
        /\ check' = [check EXCEPT ![c].pc = IF w = 0 THEN "create" ELSE "decide", ![c].window = w]
        /\ UNCHANGED <<now, windows, heap, cleaner>>

\* Under the write lock, unless another check made one meanwhile.
Create(c) ==
    LET i == check[c].id
    IN  /\ check[c].pc = "create" /\ ~MapLocked
        /\ IF windows[i] # 0
           THEN /\ check' = [check EXCEPT ![c].pc = "decide", ![c].window = windows[i]]
                /\ UNCHANGED <<windows, heap>>
           ELSE /\ Len(heap) < MaxWindows
                /\ heap' = Append(heap, NewWindow(i, check[c].limit.window, check[c].at))
                /\ windows' = [windows EXCEPT ![i] = Len(heap) + 1]
                /\ check' = [check EXCEPT ![c].pc = "decide", ![c].window = Len(heap) + 1]
        /\ UNCHANGED <<now, cleaner>>

\* The window as a check leaves it, before it counts itself.
Asked(c) ==
    LET w == heap[check[c].window]
        from == check[c].at - check[c].limit.window
    IN  Expire([w EXCEPT !.retain = check[c].limit.window, !.lastUsed = check[c].at,
                         !.seen = Ask(@, from)], Unix(from))

Admits(c) == check[c].pc = "decide" /\ Asked(c).total < check[c].limit.requests

Decide(c) ==
    LET at == check[c].at
        admitted == [Record(Asked(c), Unix(at)) EXCEPT !.seen.at[at] = @ + 1]
    IN  /\ check[c].pc = "decide"
        /\ heap' = [heap EXCEPT ![check[c].window] = IF Admits(c) THEN admitted ELSE Asked(c)]
        /\ check' = [check EXCEPT ![c] = NoCheck]
        /\ UNCHANGED <<now, windows, cleaner>>
-----------------------------------------------------------------------------
(* cleanup: a list of the windows, a prune of each, and the empty ones go. *)
BeginCleanup ==
    /\ cleaner.pc = "idle"
    /\ cleaner' = [NoCleanup EXCEPT !.pc = "prune", !.at = now,
                     !.tracked = {i \in Ids : windows[i] # 0}]
    /\ UNCHANGED <<now, windows, heap, check>>

\* Only cleanup takes windows out, so the one tracked is the one in the map.
Prune(i) ==
    LET w == heap[windows[i]]
        from == cleaner.at - w.retain
        pruned == [Expire(w, Unix(from)) EXCEPT !.seen = Ask(@, from)]
    IN  /\ cleaner.pc = "prune" /\ i \in cleaner.tracked
        /\ heap' = [heap EXCEPT ![windows[i]] = pruned]
        /\ cleaner' = [cleaner EXCEPT !.tracked = @ \ {i},
                         !.reclaim = IF Empty(pruned) /\ cleaner.at - w.lastUsed >= CleanupInterval
                                     THEN @ \cup {i} ELSE @]
        /\ UNCHANGED <<now, windows, check>>

PruneDone ==
    /\ cleaner.pc = "prune" /\ cleaner.tracked = {}
    /\ cleaner' = IF cleaner.reclaim = {} THEN NoCleanup ELSE [cleaner EXCEPT !.pc = "reclaim"]
    /\ UNCHANGED <<now, windows, heap, check>>

\* The map is held; each window is looked at again.
Reclaim(i) ==
    /\ cleaner.pc = "reclaim" /\ i \in cleaner.reclaim
    /\ windows' = IF Empty(heap[windows[i]]) THEN [windows EXCEPT ![i] = 0] ELSE windows
    /\ cleaner' = [cleaner EXCEPT !.reclaim = @ \ {i}]
    /\ UNCHANGED <<now, heap, check>>

ReclaimDone ==
    /\ cleaner.pc = "reclaim" /\ cleaner.reclaim = {}
    /\ cleaner' = NoCleanup
    /\ UNCHANGED <<now, windows, heap, check>>

Pass ==
    /\ now < MaxNow /\ now' = now + 1
    /\ \A c \in Checks : check[c].pc # "idle" => now - check[c].at < MaxDelay
    /\ UNCHANGED <<windows, heap, check, cleaner>>

LimiterNext ==
    \/ \E c \in Checks : BeginCheck(c) \/ Lookup(c) \/ Create(c) \/ Decide(c)
    \/ BeginCleanup \/ PruneDone \/ ReclaimDone
    \/ \E i \in Ids : Prune(i) \/ Reclaim(i)
    \/ Pass

LimiterSpec == LimiterInit /\ [][LimiterNext]_limiterVars
-----------------------------------------------------------------------------
(* Every variable has its shape; a window's running total is the sum of    *)
(* its buckets, which stay in order however the times of checks arrive.    *)
LimiterTypeOK ==
    /\ now \in 0..MaxNow
    /\ windows \in [Ids -> 0..Len(heap)]
    /\ \A n \in DOMAIN heap :
         LET b == heap[n].buckets
         IN  /\ heap[n].total = FoldSeq(LAMBDA x, sum : sum + x.count, 0, b)
             /\ \A j \in DOMAIN b : b[j].count > 0
             /\ \A j \in 2..Len(b) : b[j-1].second < b[j].second
             /\ heap[n].lastUsed \in 0..now
    /\ \A c \in Checks : /\ check[c].pc \in {"idle", "lookup", "create", "decide"}
                         /\ check[c].pc = "decide" => check[c].window \in DOMAIN heap
    /\ cleaner.pc \in {"idle", "prune", "reclaim"}
    /\ cleaner.tracked \cup cleaner.reclaim \subseteq {i \in Ids : windows[i] # 0}
       \/ cleaner.pc = "reclaim"

(* A window never lets through more than its limit in the span the limit   *)
(* names, counted to the moment: the truncation to whole seconds, pruning  *)
(* between checks, times that arrive out of order and edits of the limit   *)
(* all err on the strict side (ratelimit/limiter.go:75-79).                *)
WindowsAreStrict ==
    [][\A c \in Checks : Decide(c) /\ Admits(c) =>
         Precise(Asked(c).seen) < check[c].limit.requests]_limiterVars

(* The same of a token or channel, whatever windows it went through: what  *)
(* Check promises its callers (ratelimit/limiter.go:75-79).                *)
NeverPastTheLimit ==
    [][\A c \in Checks : Decide(c) /\ Admits(c) =>
         LET of == {n \in DOMAIN heap : heap[n].id = check[c].id}
             from == FoldSet(MaxOf, check[c].at - check[c].limit.window,
                             {heap[n].seen.floor : n \in of})
         IN  MapThenSumSet(LAMBDA n : Precise(Ask(heap[n].seen, from)), of)
               < check[c].limit.requests]_limiterVars
=============================================================================

---------------------------- MODULE ProxyAttempts ---------------------------
(***************************************************************************)
(* One proxied request: the retry loop over channels and keys, the rows it *)
(* logs, and what its client receives.                                     *)
(*                                                                         *)
(*   handlers/proxy.go   ProxyHandler, runProxyAttempts, abortLogGuard,    *)
(*                       attemptResult, downstream                         *)
(*   proxy/client.go     ProxyRequest: how an attempt ends                 *)
(*   proxy/ssestream.go  prime, remember, abandon                          *)
(*   proxy/keys.go       KeyPicker                                         *)
(*                                                                         *)
(* The request is alone in the model; other requests bench and clear keys, *)
(* the operator edits channels, and the client leaves, at any moment.      *)
(* Statuses are classes: "ok" 2xx, "limited" 429, "denied" 401 and 403,    *)
(* "bad" the other 4xx except 408, "fault" everything else (IsChannelFault *)
(* and KeyRefused tell no more apart). Health scores are left out except   *)
(* for the charge a refusal earns after the fact.                          *)
(***************************************************************************)
EXTENDS Integers, FiniteSets

CONSTANTS Channels,
          Keys,        \* upstream_keys rows
          KeysOf,      \* the keys each channel has at the start
          None,        \* nil, of any type
          MaxRetries,  \* RuntimeSettings.MaxRetries
          MaxEdits     \* bound: operator edits while the request runs

ASSUME AttemptsAssumption ==
    /\ KeysOf \in [Channels -> SUBSET Keys]
    \* A row of upstream_keys belongs to one channel.
    /\ \A c, d \in Channels : c # d => KeysOf[c] \cap KeysOf[d] = {}
    /\ None \notin Channels \cup Keys \cup Nat
    /\ MaxRetries \in Nat /\ MaxEdits \in Nat

Attempts == 0..MaxRetries
Statuses == {"ok", "limited", "denied", "bad", "fault"}
\* A channel as selection returned it, with the keys it had then.
Selections == [channel : Channels, keys : SUBSET Keys]

VARIABLES
    request,                       \* what does not change: see Inputs
    routable, keys, edits,         \* enabled channels, their enabled keys
    benched,                       \* KeyPicker: keys sitting out
    gone,                          \* the client has left: r.Context().Err() # nil
    pc, attempt,                   \* step, and attempt of the retry loop
    directSelection, stay,         \* Selection or None
    excluded, cooling, lastResort, refused, passed, rejected, previous,
    chosen,                        \* selected, key, stayed of this attempt
    kind, rows, status,            \* per attempt how it ended and its row; the attempt's status
    lastFailure, streamFailure,    \* attempts, or None
    returned,                      \* the attempt the loop ended on, or None
    guard,                         \* abortLogGuard.entry
    headers, delivered, refusal,   \* what the client was sent
    charged,                       \* channels charged for a refusal
    met, turned, late              \* history: see NoteAttempt

requestVars == <<request, directSelection>>
envVars     == <<routable, keys, edits, benched, gone>>
attemptVars == <<attempt, previous, refused, rejected>>
loopVars    == <<excluded, cooling, lastResort, stay, passed>>
endVars     == <<kind, status>>
failureVars == <<lastFailure, streamFailure>>
answerVars  == <<guard, headers, delivered, refusal>>
historyVars == <<met, turned, late>>
vars == <<requestVars, envVars, pc, attemptVars, loopVars, chosen, endVars, rows,
          failureVars, returned, answerVars, charged, historyVars>>

\* selector: a channel is named; pinned: the request continues a stored response,
\* on the account that made it, key pin; holds: holdsStream of its path.
Inputs == {i \in [selector : BOOLEAN, pinned : BOOLEAN, pin : Keys \cup {None},
                  holds : BOOLEAN] :
             /\ i.pinned => i.selector
             /\ ~i.pinned => i.pin = None}

NoChoice == [channel |-> None, keys |-> {}, key |-> None, stayed |-> FALSE]

Init ==
    /\ request \in Inputs
    /\ routable \in SUBSET Channels /\ keys = KeysOf /\ edits = 0
    /\ benched \in SUBSET Keys /\ gone = FALSE
    /\ pc = "arrived" /\ attempt = 0
    /\ directSelection = None /\ stay = None
    /\ excluded = {} /\ cooling = {} /\ lastResort = FALSE
    /\ refused = {} /\ passed = {} /\ rejected = {} /\ previous = None
    /\ chosen = NoChoice
    /\ kind = [n \in Attempts |-> "none"] /\ status = "none"
    /\ rows = [n \in Attempts |-> "none"]
    /\ lastFailure = None /\ streamFailure = None
    /\ returned = None /\ guard = "armed"
    /\ headers = None /\ delivered = None /\ refusal = "none"
    /\ charged = {} /\ met = {} /\ turned = {} /\ late = 0
-----------------------------------------------------------------------------
(* Log rows. A row is "pending" until its attempt is settled: retried makes *)
(* it an "attempt", concluded the "outcome", at once when the attempt got   *)
(* no answer and otherwise ("concluded") when the body is closed.           *)

Settled(n, verdict) ==
    [rows EXCEPT ![n] = IF @ = "pending" THEN verdict ELSE @]

Concluded(n) == Settled(n, IF kind[n] = "noAnswer" THEN "outcome" ELSE "concluded")

\* The deferred function of runProxyAttempts: whatever is still held was only an
\* attempt. The first verdict stands.
Released(R) ==
    [n \in Attempts |->
        IF n \in {lastFailure, streamFailure} /\ R[n] = "pending" THEN "attempt" ELSE R[n]]

\* runProxyAttempts returns attempt n, concluded.
ReturnAttempt(n) ==
    /\ rows' = Released(Concluded(n))
    /\ returned' = n
    /\ pc' = "returned"
    /\ UNCHANGED <<requestVars, envVars, attemptVars, loopVars, endVars,
                   failureVars, answerVars, historyVars, chosen, charged>>

\* logAndDisarm, and an error document for the client.
RefuseRequest(why) ==
    /\ rows' = Released(rows)
    /\ guard' = "written" /\ refusal' = why
    /\ pc' = "finishing"
    /\ UNCHANGED <<requestVars, envVars, attemptVars, loopVars, endVars,
                   failureVars, historyVars, chosen, returned, headers, delivered,
                   charged>>

\* The exits that end on an open stream when there is one.
EndWithout(why) ==
    IF streamFailure # None THEN ReturnAttempt(streamFailure) ELSE RefuseRequest(why)
-----------------------------------------------------------------------------
(* ProxyHandler up to the retry loop.                                       *)

\* An endpoint that is not relayed, a body that cannot be read, a model the token
\* may not use, a stored response that is not there.
RefuseEarly == pc = "arrived" /\ RefuseRequest("early")

SelectionOf(c) == [channel |-> c, keys |-> keys[c]]

\* A named channel is resolved once, and may not be routable for this request.
Begin ==
    /\ pc = "arrived" /\ pc' = "selecting"
    /\ IF request.selector
       THEN directSelection' \in {SelectionOf(c) : c \in routable}
                                 \cup (IF request.pinned THEN {} ELSE {None})
       ELSE UNCHANGED directSelection
    /\ UNCHANGED <<envVars, attemptVars, loopVars, endVars, failureVars,
                   answerVars, historyVars, request, chosen, rows, returned,
                   charged>>
-----------------------------------------------------------------------------
(* The selection loop: one pass is one step.                                *)

\* Mutant: channels left to cool stay in routing.
CoolingIgnored == excluded

\* routingExclusions
Exclusions == IF lastResort THEN excluded ELSE excluded \cup cooling

Candidates ==
    IF stay # None THEN {stay}
    ELSE IF request.selector
    THEN {s \in {directSelection} : s # None /\ s.channel \notin excluded}
    ELSE {SelectionOf(c) : c \in routable \ Exclusions}

\* KeyPicker.Pick and HasFresh: keys sitting out are picked when there is no other.
Untried(s) == s.keys \ refused
Fresh(s)   == Untried(s) \ benched
KeysSpent(s) == ~request.pinned /\ s.keys # {} /\ Untried(s) = {}
KeysSitOut(s) == ~request.pinned /\ Untried(s) # {} /\ Fresh(s) = {}
Waits(s) == KeysSitOut(s) /\ stay = None /\ ~lastResort /\ ~request.selector

PinAvailable(s) == IF request.pin = None THEN s.keys = {} ELSE request.pin \in s.keys

Picks(s) ==
    IF request.pinned THEN {k \in {request.pin} : PinAvailable(s)}
    ELSE IF s.keys = {} THEN {None}
    ELSE IF Fresh(s) = {} /\ ~Waits(s) THEN Untried(s) ELSE Fresh(s)

Selecting == pc = "selecting"

\* stay is consumed by the pass that takes it.
Pass ==
    /\ stay' = None
    /\ UNCHANGED <<requestVars, envVars, attemptVars, endVars, failureVars,
                   answerVars, rows, returned, charged, turned, late>>

PassOver(s, why) ==
    /\ Pass
    /\ excluded' = excluded \cup {s.channel}
    /\ passed' = passed \cup why
    /\ UNCHANGED <<pc, chosen, cooling, lastResort>>

\* SelectUpstream could not load the channels.
SelectFails ==
    /\ Selecting /\ stay = None /\ ~request.selector
    /\ EndWithout("selection failed")

\* Only channels whose keys all sit out are left: use them after all.
UseCooling ==
    /\ Selecting /\ Candidates = {} /\ ~lastResort /\ cooling # {}
    /\ lastResort' = TRUE
    /\ Pass
    /\ UNCHANGED <<pc, chosen, excluded, cooling, passed, met>>

PinGone ==
    /\ Selecting /\ request.pinned
    /\ \E s \in Candidates : ~PinAvailable(s)
    /\ RefuseRequest("pin gone")

\* The account's credentials changed since. The channel and its key are the same on
\* every pass, so it is the first that finds out.
CredentialsChanged ==
    /\ Selecting /\ request.pinned /\ attempt = 0
    /\ \E s \in Candidates : Picks(s) # {}
    /\ RefuseRequest("credentials changed")

ExcludeSpent ==
    /\ Selecting
    /\ \E s \in Candidates : KeysSpent(s) /\ PassOver(s, {})
    /\ UNCHANGED met

Cool ==
    /\ Selecting
    /\ \E s \in Candidates : Waits(s) /\ cooling' = cooling \cup {s.channel}
    /\ Pass
    /\ UNCHANGED <<pc, chosen, excluded, lastResort, passed, met>>

\* PrepareRequest fails: the attempt's row is written as one, and the guard stays
\* armed.
Unprepared ==
    /\ Selecting
    /\ \E s \in Candidates :
         /\ Picks(s) # {}
         /\ PassOver(s, {"misconfigured"})
         /\ met' = met \cup {s.channel}

\* The channel's own rate limit; another key spends the admission already given.
RateLimited ==
    /\ Selecting /\ stay = None
    /\ \E s \in Candidates :
         /\ Picks(s) # {}
         /\ PassOver(s, {"limited"})
         /\ met' = met \cup {s.channel}

Choose ==
    /\ Selecting
    /\ \E s \in Candidates : \E k \in Picks(s) :
         chosen' = [channel |-> s.channel, keys |-> s.keys, key |-> k,
                    stayed |-> stay # None]
    /\ pc' = "chosen"
    /\ Pass
    /\ UNCHANGED <<excluded, cooling, lastResort, passed, met>>

NoRouteReason ==
    IF "limited" \in passed THEN "rate limited"
    ELSE IF "misconfigured" \in passed THEN "no usable channel" ELSE "no route"

\* Mutant: the channels that were left to cool are forgotten.
GiveUpCooling ==
    /\ Selecting /\ Candidates = {}
    /\ IF streamFailure = None /\ lastFailure # None
       THEN ReturnAttempt(lastFailure)
       ELSE EndWithout(NoRouteReason)

\* Mutant: the last failure is the answer, though a stream's headers are out.
AnswerLastFailure ==
    /\ Selecting /\ Candidates = {} /\ (lastResort \/ cooling = {})
    /\ IF lastFailure # None
       THEN ReturnAttempt(lastFailure)
       ELSE EndWithout(NoRouteReason)

\* Nothing else to try.
NothingLeft ==
    /\ Selecting /\ Candidates = {} /\ (lastResort \/ cooling = {})
    /\ IF streamFailure = None /\ lastFailure # None
       THEN ReturnAttempt(lastFailure)
       ELSE EndWithout(NoRouteReason)
-----------------------------------------------------------------------------
(* The attempt.                                                             *)

\* The client leaves during the pause before the same channel is asked again.
LeaveInBackoff ==
    /\ pc = "chosen" /\ gone
    /\ attempt > 0 /\ ~chosen.stayed /\ previous = chosen.channel
    /\ EndWithout("client left")

\* History, in no guard: the channels this request came to, the accounts that
\* turned it away, the attempts begun for a client that had left.
NoteAttempt ==
    /\ met' = met \cup {chosen.channel}
    /\ late' = IF gone /\ late < 2 THEN late + 1 ELSE late
    /\ UNCHANGED turned

\* Mutant: the failure another attempt replaces is forgotten.
ForwardOnly ==
    /\ pc = "chosen" /\ pc' = "requesting"
    /\ lastFailure' = None
    /\ NoteAttempt
    /\ UNCHANGED <<requestVars, envVars, attemptVars, loopVars, endVars,
                   answerVars, chosen, rows, streamFailure, returned, charged>>

\* The attempt has a route: the failure before it was only an attempt.
Forward ==
    /\ pc = "chosen" /\ pc' = "requesting"
    /\ rows' = IF lastFailure # None /\ lastFailure # streamFailure
               THEN Settled(lastFailure, "attempt") ELSE rows
    /\ lastFailure' = None
    /\ NoteAttempt
    /\ UNCHANGED <<requestVars, envVars, attemptVars, loopVars, endVars,
                   answerVars, chosen, streamFailure, returned, charged>>

EndAttempt(k, s, step) ==
    /\ pc' = step
    /\ kind' = [kind EXCEPT ![attempt] = k]
    /\ status' = s
    /\ turned' = IF s \in {"denied", "bad"}
                 THEN turned \cup {<<chosen.channel, chosen.key>>} ELSE turned
    /\ UNCHANGED <<requestVars, envVars, attemptVars, loopVars, failureVars,
                   chosen, returned, guard, delivered, refusal, charged, met, late>>

NewRow == rows' = [rows EXCEPT ![attempt] = "pending"]

\* ProxyRequest got no answer: its row is handed back, held.
NoAnswer ==
    /\ pc = "requesting"
    /\ EndAttempt("noAnswer", "none", "failed") /\ NewRow /\ UNCHANGED headers

\* A whole answer, its row written when the body is closed.
Answer ==
    /\ pc = "requesting"
    /\ \E s \in Statuses :
         EndAttempt("answer", s, IF s = "ok" THEN "succeeded" ELSE "failed")
    /\ NewRow /\ UNCHANGED headers

\* A stream arrives. It is held back until it shows content, unless the path does
\* not hold streams or no attempt could follow; its headers go out at once.
Stream ==
    /\ pc = "requesting"
    /\ IF request.holds /\ attempt < MaxRetries
       THEN /\ EndAttempt("stream", "ok", "priming")
            /\ headers' = IF headers = None THEN attempt ELSE headers
       ELSE EndAttempt("stream", "ok", "succeeded") /\ UNCHANGED headers
    /\ NewRow

\* prime: content, a clean end, or too much to hold back ...
Primed ==
    /\ pc = "priming"
    /\ EndAttempt("stream", "ok", "succeeded") /\ UNCHANGED <<rows, headers>>

\* ... an error event, a timeout or the upstream gone before any content ...
PrimeFails ==
    /\ pc = "priming"
    /\ EndAttempt("failed stream", "ok", "failed")
    /\ UNCHANGED <<rows, headers>>

\* ... or the account could not be remembered: remember logs the row at once.
RememberFails ==
    /\ pc = "priming"
    /\ EndAttempt("forgotten", "ok", "failed")
    /\ rows' = [rows EXCEPT ![attempt] = "outcome"]
    /\ UNCHANGED headers

\* The attempt is the answer. The channels that refused the request are charged:
\* the refusal was theirs, not the request's.
Succeed ==
    /\ pc = "succeeded"
    /\ rows' = Released(Settled(attempt, "concluded"))
    /\ benched' = benched \ {chosen.key}
    /\ charged' = charged \cup rejected
    /\ returned' = attempt
    /\ pc' = "returned"
    /\ UNCHANGED <<requestVars, attemptVars, loopVars, endVars, failureVars,
                   answerVars, historyVars, routable, keys, edits, gone, chosen>>

StreamFailed == kind[attempt] \in {"failed stream", "forgotten"}

KeyRefused ==
    /\ chosen.key # None /\ kind[attempt] = "answer"
    /\ status \in {"denied", "limited"}

NowRefused ==
    IF KeyRefused /\ status # "limited" THEN refused \cup {chosen.key} ELSE refused

NowBenched == IF KeyRefused THEN benched \cup {chosen.key} ELSE benched

\* Another of the channel's keys is worth asking.
HasFresh ==
    KeyRefused /\ ~request.pinned /\ chosen.keys \ (NowRefused \cup NowBenched) # {}

\* Mutant: one attempt too many.
SpentLate == attempt > MaxRetries \/ gone

Spent == attempt = MaxRetries \/ gone

\* The last attempt failed, or its client has left. A client that holds another
\* stream's headers receives that stream.
GiveUp ==
    /\ pc = "failed" /\ Spent
    /\ benched' = NowBenched /\ refused' = NowRefused
    /\ IF streamFailure # None /\ ~StreamFailed
       THEN /\ rows' = [Released(Concluded(streamFailure)) EXCEPT
                          ![attempt] = IF @ = "pending" THEN "attempt" ELSE @]
            /\ returned' = streamFailure
       ELSE /\ rows' = Released(Concluded(attempt))
            /\ returned' = attempt
    /\ pc' = "returned"
    /\ UNCHANGED <<requestVars, loopVars, endVars, failureVars, answerVars,
                   historyVars, routable, keys, edits, gone, attempt, rejected,
                   previous, chosen, charged>>

\* Mutant: a channel is given up though another of its keys is asked.
RefusingAnyway == ~StreamFailed /\ status \in {"denied", "bad"}

\* The channel would refuse the request the same way again.
Refusing == ~StreamFailed /\ ~HasFresh /\ status \in {"denied", "bad"}

NextAttempt ==
    /\ pc' = "selecting" /\ attempt' = attempt + 1
    /\ previous' = chosen.channel
    /\ lastFailure' = attempt
    /\ benched' = NowBenched /\ refused' = NowRefused
    /\ stay' = IF HasFresh THEN [channel |-> chosen.channel, keys |-> chosen.keys] ELSE None
    /\ chosen' = NoChoice /\ status' = "none"
    /\ UNCHANGED <<requestVars, kind, answerVars, historyVars, routable,
                   keys, edits, gone, cooling, lastResort, passed, returned,
                   charged>>

\* Mutant: a channel that turned the request away stays in routing.
RetryRefused ==
    /\ pc = "failed" /\ ~Spent /\ ~StreamFailed
    /\ rejected' = IF Refusing THEN rejected \cup {chosen.channel} ELSE rejected
    /\ UNCHANGED <<rows, excluded, streamFailure>>
    /\ NextAttempt

\* Mutant: only the last attempt ends the request.
RetryForNobody ==
    /\ pc = "failed" /\ attempt < MaxRetries /\ ~StreamFailed
    /\ excluded' = IF Refusing THEN excluded \cup {chosen.channel} ELSE excluded
    /\ rejected' = IF Refusing THEN rejected \cup {chosen.channel} ELSE rejected
    /\ UNCHANGED <<rows, streamFailure>>
    /\ NextAttempt

\* Another attempt follows a failure the client has not seen.
Retry ==
    /\ pc = "failed" /\ ~Spent /\ ~StreamFailed
    /\ excluded' = IF Refusing THEN excluded \cup {chosen.channel} ELSE excluded
    /\ rejected' = IF Refusing THEN rejected \cup {chosen.channel} ELSE rejected
    /\ UNCHANGED <<rows, streamFailure>>
    /\ NextAttempt

\* Another attempt follows a stream that failed before content. Its channel is out,
\* and an earlier stream that failed so was only an attempt.
RetryStream ==
    /\ pc = "failed" /\ ~Spent /\ StreamFailed
    /\ excluded' = excluded \cup {chosen.channel}
    /\ rows' = IF streamFailure # None THEN Settled(streamFailure, "attempt") ELSE rows
    /\ streamFailure' = attempt
    /\ UNCHANGED rejected
    /\ NextAttempt
-----------------------------------------------------------------------------
(* ProxyHandler after the loop.                                             *)

HandlerDone(step) ==
    /\ pc' = step
    /\ UNCHANGED <<requestVars, envVars, attemptVars, loopVars, endVars,
                   failureVars, historyVars, chosen, returned, charged>>

\* Mutant: the guard stays armed, trusting the attempt to have claimed it.
AnswerErrorArmed ==
    /\ pc = "returned" /\ kind[returned] = "noAnswer"
    /\ refusal' = "no answer"
    /\ HandlerDone("finishing")
    /\ UNCHANGED <<rows, guard, headers, delivered>>

\* The attempt ended in an error, and is on a row of its own.
AnswerError ==
    /\ pc = "returned" /\ kind[returned] = "noAnswer"
    /\ guard' = "disarmed" /\ refusal' = "no answer"
    /\ HandlerDone("finishing")
    /\ UNCHANGED <<rows, headers, delivered>>

\* deliver: the headers, unless a held stream sent its own, then the body, whose
\* Close writes the row that is not written yet.
Deliver ==
    /\ pc = "returned" /\ kind[returned] # "noAnswer"
    /\ guard' = "disarmed"
    /\ headers' = IF headers = None THEN returned ELSE headers
    /\ delivered' = returned
    /\ rows' = [rows EXCEPT ![returned] = IF @ = "concluded" THEN "outcome" ELSE @]
    /\ HandlerDone("finishing")
    /\ UNCHANGED refusal

\* The deferred guard.finish logs the request as aborted if nothing claimed it.
Finish ==
    /\ pc = "finishing"
    /\ guard' = IF guard = "armed" THEN "written" ELSE guard
    /\ HandlerDone("done")
    /\ UNCHANGED <<rows, headers, delivered, refusal>>
-----------------------------------------------------------------------------
(* Everyone else, while the request runs. Each moves at the steps that read *)
(* what it changes: earlier would be no different.                          *)

ElsewhereAt(steps) ==
    /\ pc \in steps
    /\ UNCHANGED <<requestVars, attemptVars, loopVars, endVars, failureVars,
                   answerVars, historyVars, pc, chosen, rows, returned, charged>>

ClientLeaves ==
    /\ ElsewhereAt({"selecting", "chosen", "failed"})
    /\ gone' = TRUE
    /\ UNCHANGED <<routable, keys, edits, benched>>

\* Another request benches a key, or clears one; or its time is up.
KeysElsewhere ==
    /\ ElsewhereAt({"selecting", "failed"})
    /\ \E k \in Keys : benched' \in {benched \cup {k}, benched \ {k}}
    /\ UNCHANGED <<routable, keys, edits, gone>>

EditChannels ==
    /\ ElsewhereAt({"arrived", "selecting"})
    /\ edits < MaxEdits /\ edits' = edits + 1
    /\ \/ /\ \E c \in Channels : routable' \in {routable \cup {c}, routable \ {c}}
          /\ UNCHANGED keys
       \/ /\ \E c \in Channels : \E k \in keys[c] : keys' = [keys EXCEPT ![c] = @ \ {k}]
          /\ UNCHANGED routable
    /\ UNCHANGED <<benched, gone>>
-----------------------------------------------------------------------------
SelectPass ==
    \/ UseCooling \/ PinGone \/ CredentialsChanged \/ ExcludeSpent \/ Cool
    \/ Unprepared \/ RateLimited \/ Choose \/ NothingLeft

AttemptStep ==
    \/ LeaveInBackoff \/ Forward \/ NoAnswer \/ Answer \/ Stream
    \/ Primed \/ PrimeFails \/ RememberFails
    \/ Succeed \/ GiveUp \/ Retry \/ RetryStream

HandlerStep == RefuseEarly \/ Begin \/ AnswerError \/ Deliver \/ Finish

RequestStep == HandlerStep \/ SelectPass \/ AttemptStep

Next == RequestStep \/ SelectFails \/ ClientLeaves \/ KeysElsewhere \/ EditChannels

\* The handler's goroutine runs, and every wait in it is bounded: an attempt by its
\* timeout, a pause by its timer, a delivery by the client's connection. A failing
\* database is not what ends it: a loop that does not narrow would go on for ever.
Fairness == WF_vars(RequestStep)

Spec == Init /\ [][Next]_vars /\ Fairness
-----------------------------------------------------------------------------
RequestType ==
    /\ request \in Inputs /\ directSelection \in Selections \cup {None}
    /\ routable \subseteq Channels /\ keys \in [Channels -> SUBSET Keys]
    /\ edits \in 0..MaxEdits /\ benched \subseteq Keys /\ gone \in BOOLEAN

LoopType ==
    /\ stay \in Selections \cup {None}
    /\ excluded \subseteq Channels /\ cooling \subseteq Channels /\ lastResort \in BOOLEAN
    /\ passed \subseteq {"limited", "misconfigured"}
    /\ chosen \in [channel : Channels \cup {None}, keys : SUBSET Keys,
                   key : Keys \cup {None}, stayed : BOOLEAN]

AttemptType ==
    /\ pc \in {"arrived", "selecting", "chosen", "requesting", "priming", "succeeded",
               "failed", "returned", "finishing", "done"}
    /\ attempt \in Attempts /\ previous \in Channels \cup {None}
    /\ refused \subseteq Keys /\ rejected \subseteq Channels
    /\ charged \subseteq Channels /\ met \subseteq Channels
    /\ turned \subseteq Channels \X (Keys \cup {None}) /\ late \in 0..2

AnswerType ==
    /\ kind \in [Attempts -> {"none", "noAnswer", "answer", "stream", "failed stream",
                              "forgotten"}]
    /\ status \in Statuses \cup {"none"}
    /\ rows \in [Attempts -> {"none", "pending", "concluded", "attempt", "outcome"}]
    /\ {lastFailure, streamFailure, returned, headers, delivered}
         \subseteq Attempts \cup {None}
    /\ guard \in {"armed", "disarmed", "written"}

(* Every variable has its type; at most MaxRetries + 1 attempts are made.   *)
TypeOK == RequestType /\ LoopType /\ AttemptType /\ AnswerType

Made == {n \in Attempts : kind[n] # "none"}
Outcomes == {n \in Attempts : rows[n] = "outcome"}

(* Every attempt that was made is on a row when the request is over: none   *)
(* is still held, and no answer was left unclosed (proxy.go:573-587).       *)
EveryAttemptLogged ==
    pc = "done" => \A n \in Made : rows[n] \in {"attempt", "outcome"}

(* The rows that count say what the client received: one attempt's answer   *)
(* or error, on that attempt's row, or the gateway's refusal on the guard's *)
(* row, and never both (proxy.go:522-536, 935-960). A stream whose account  *)
(* could not be remembered is left aside here.                              *)
OutcomeIsTheAnswer ==
    pc = "done" =>
        LET counted == Outcomes \ {n \in Made \ {returned} : kind[n] = "forgotten"} IN
        IF guard = "written"
        THEN counted = {} /\ returned = None /\ delivered = None /\ refusal # "none"
        ELSE /\ counted = {returned}
             /\ delivered = returned \/ (kind[returned] = "noAnswer" /\ refusal # "none")

(* Once a held stream's headers are out, what follows is a body: no error   *)
(* document is written after them, and no failure but a stream's            *)
(* (proxy.go:577-580, 855-858).                                             *)
NothingAfterHeaders ==
    headers # None /\ kind[headers] # "answer" =>
        /\ refusal = "none"
        /\ delivered # None /\ kind[delivered] = "answer" => status = "ok"

(* No account is asked again for a request it turned away: not the channel  *)
(* with the key that was refused, nor any key of a channel that would       *)
(* refuse the same way (proxy.go:597-616, 836-877).                         *)
NotAskedAgain ==
    [][pc = "chosen" /\ pc' = "requesting"
         => <<chosen.channel, chosen.key>> \notin turned]_vars

GivenUpForRoutes ==
    /\ Selecting /\ Candidates = {} /\ ~request.selector /\ streamFailure = None
    /\ pc' \in {"returned", "finishing"} /\ refusal' # "selection failed"

(* A request is given up for want of channels only when it came to every    *)
(* channel it could be routed to, the ones left to cool included            *)
(* (proxy.go:612-618, 654-658). A failed load of the channels also ends it. *)
NoChannelLeftUntried == [][GivenUpForRoutes => routable \subseteq met]_vars

(* A client that has left costs at most one more attempt                    *)
(* (proxy.go:850-854).                                                      *)
NoAttemptsForNobody == late <= 1

(* No channel is asked in vain: not again with what it just refused, and    *)
(* not for a client that has left (proxy.go:846-854).                       *)
NobodyAskedInVain == []NoAttemptsForNobody /\ NotAskedAgain

(* A channel is charged for refusing a request only when another channel    *)
(* then served it (proxy.go:607-610, 826-832).                              *)
RefusalsChargedFairly ==
    charged # {} => returned # None /\ chosen.channel \notin charged
                      /\ kind[returned] \in {"answer", "stream"} /\ status = "ok"

(* Every request ends: each pass of the selection loop narrows the choice   *)
(* and each attempt is counted, whatever others do to keys and channels     *)
(* (proxy.go:622-624).                                                      *)
RequestEnds == <>(pc = "done")

(* The claim of db/log.go:51-53 and proxy/client.go:456-458: an             *)
(* attempt another one replaced is not counted, so that a request counts    *)
(* once.                                                                    *)
RequestCountedOnce ==
    pc = "done" =>
        Cardinality(Outcomes) + (IF guard = "written" THEN 1 ELSE 0) = 1
=============================================================================

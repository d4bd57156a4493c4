------------------------ MODULE ProxyAttempts_proofs ------------------------
(***************************************************************************)
(* What a request logs is what its client was told, whatever its channels, *)
(* its client and the operators do meanwhile, for any number of channels,  *)
(* keys and retries.                                                       *)
(***************************************************************************)
EXTENDS ProxyAttempts, TLAPS

\* Where a request is: before its answer, at the channel it has chosen, waiting
\* for that channel's answer, and after the loop.
Settling == {"returned", "finishing", "done"}
AtChannel == {"chosen", "requesting", "priming", "succeeded", "failed"}
Answered == {"priming", "succeeded", "failed"}

\* Nothing has been said to the client, and no row has had its last word.
Unreturned ==
    /\ returned = None /\ delivered = None /\ refusal = "none"
    /\ guard = "armed" /\ charged = {}

\* The attempts made so far, and the failures that are still held.
AttemptsInv ==
    /\ pc = "arrived" => attempt = 0
    /\ lastFailure # None => lastFailure < attempt
    /\ streamFailure # None => streamFailure < attempt
    /\ pc \in AtChannel \ {"chosen"} => lastFailure = None
    /\ \A n \in Attempts :
         kind[n] = "none" <=> (n > attempt \/ (n = attempt /\ pc \notin Answered))

\* A row is held as long as its attempt may yet be the answer.
Held(n) == n = attempt \/ n = lastFailure \/ n = streamFailure

RowsInv ==
    \A n \in Attempts :
        /\ kind[n] = "none" => rows[n] = "none"
        /\ kind[n] = "forgotten" => rows[n] = "outcome"
        /\ kind[n] \notin {"none", "forgotten"} =>
             rows[n] = IF Held(n) THEN "pending" ELSE "attempt"

\* How an attempt ended, by the step that follows.
EndInv ==
    /\ pc = "priming" => kind[attempt] = "stream" /\ status = "ok"
    /\ pc = "succeeded" => kind[attempt] \in {"answer", "stream"} /\ status = "ok"
    /\ pc = "failed" => \/ kind[attempt] = "noAnswer" /\ status = "none"
                        \/ kind[attempt] = "answer" /\ status # "ok"
                        \/ StreamFailed /\ status = "ok"

\* Headers are out exactly when a held stream has been begun.
HeadersInv ==
    /\ streamFailure # None => headers # None /\ kind[streamFailure] \in {"failed stream", "forgotten"}
    /\ headers # None => kind[headers] \in {"stream", "failed stream", "forgotten"}
    /\ headers # None /\ pc \notin Answered => streamFailure # None
    /\ headers # None /\ pc = "failed" => streamFailure # None \/ StreamFailed
    /\ pc = "priming" \/ (pc = "failed" /\ StreamFailed) => headers # None

\* What is known of the keys and channels that were tried.
KeysInv ==
    /\ \A c \in Channels : keys[c] \subseteq KeysOf[c]
    /\ \A s \in {directSelection, stay} \ {None} : s.keys \subseteq KeysOf[s.channel]
    /\ pc \in AtChannel => chosen.keys \subseteq KeysOf[chosen.channel] /\ chosen.key \in chosen.keys \cup {None}
    /\ \A k \in refused : \E c \in met : k \in KeysOf[c]

RouteInv ==
    /\ rejected \subseteq excluded /\ excluded \subseteq met
    /\ stay # None => stay.channel \notin excluded /\ ~request.pinned
    /\ pc \in AtChannel => chosen.channel \in Channels \ excluded
    /\ pc \in AtChannel \ {"chosen"} => chosen.channel \in met
    /\ pc \in AtChannel => stay = None
    /\ pc = "arrived" => stay = None

\* A pinned request has one channel, and leaves it when a stream of it failed.
PinInv ==
    request.pinned =>
        /\ pc \in AtChannel => directSelection # None /\ chosen.channel = directSelection.channel
        /\ streamFailure # None => directSelection.channel \in excluded

\* Whoever turned the request away is out of routing, or its key is; but for the
\* attempt that has just been turned away.
JustTurned == {x \in {<<chosen.channel, chosen.key>>} :
                 pc = "failed" /\ kind[attempt] = "answer" /\ status \in {"denied", "bad"}}
TurnedInv ==
    /\ \A x \in turned \ JustTurned : x[1] \in excluded \/ (~request.pinned /\ x[2] \in refused)
    /\ pc = "chosen" => <<chosen.channel, chosen.key>> \notin turned

LoopInv ==
    /\ Unreturned /\ AttemptsInv /\ RowsInv /\ EndInv /\ HeadersInv
    /\ KeysInv /\ RouteInv /\ PinInv /\ TurnedInv

\* Every attempt but the one returned has had its last word.
OthersClosed ==
    \A n \in Attempts :
        /\ kind[n] = "none" => rows[n] = "none"
        /\ kind[n] # "none" /\ n # returned =>
             rows[n] = IF kind[n] = "forgotten" THEN "outcome" ELSE "attempt"

ReturnedInv ==
    pc = "returned" =>
        /\ returned # None /\ kind[returned] # "none" /\ OthersClosed
        /\ guard = "armed" /\ delivered = None /\ refusal = "none"
        /\ rows[returned] = IF kind[returned] \in {"noAnswer", "forgotten"} THEN "outcome" ELSE "concluded"
        /\ kind[returned] = "noAnswer" => headers = None
        /\ kind[returned] = "answer" /\ headers # None => status = "ok"

FinishingInv ==
    pc \in {"finishing", "done"} =>
        /\ OthersClosed /\ NothingAfterHeaders
        /\ IF returned = None
           THEN guard = "written" /\ delivered = None /\ refusal # "none"
           ELSE /\ guard = "disarmed" /\ rows[returned] = "outcome" /\ kind[returned] # "none"
                /\ delivered = returned \/ (kind[returned] = "noAnswer" /\ refusal # "none")

ChargedInv == RefusalsChargedFairly

LateInv ==
    /\ late <= 1 /\ (late = 1 => gone)
    /\ pc \in {"arrived", "selecting", "chosen"} => late = 0

IInv ==
    /\ TypeOK /\ LateInv /\ ChargedInv
    /\ pc \notin Settling => LoopInv
    /\ ReturnedInv /\ FinishingInv

(* Attempts are numbers, and None is none of them.                          *)
LEMMA AttemptsAreNumbers ==
    /\ None \notin Attempts
    /\ \A n \in Attempts : n \in Int /\ 0 <= n /\ n <= MaxRetries /\ ~(n > n)
    /\ MaxRetries \in Nat
BY AttemptsAssumption DEF Attempts

(* A request arrives to nothing logged and nothing said.                    *)
LEMMA InitIInv == Init => IInv
<1> SUFFICES ASSUME Init PROVE IInv
    OBVIOUS
<1> USE AttemptsAssumption
<1>1. TypeOK
  <2>1. 0 \in Attempts
    BY DEF Attempts
  <2>2. NoChoice \in [channel : Channels \cup {None}, keys : SUBSET Keys, key : Keys \cup {None}, stayed : BOOLEAN]
    BY DEF NoChoice
  <2>3. /\ request \in Inputs /\ routable \subseteq Channels /\ keys \in [Channels -> SUBSET Keys]
        /\ edits \in 0..MaxEdits /\ benched \subseteq Keys
    BY DEF Init
  <2>4. /\ kind \in [Attempts -> {"none", "noAnswer", "answer", "stream", "failed stream", "forgotten"}]
        /\ rows \in [Attempts -> {"none", "pending", "concluded", "attempt", "outcome"}]
    BY DEF Init
  <2>5. chosen \in [channel : Channels \cup {None}, keys : SUBSET Keys, key : Keys \cup {None}, stayed : BOOLEAN]
    BY <2>2 DEF Init
  <2>6. gone \in BOOLEAN /\ lastResort \in BOOLEAN
    BY DEF Init
  <2>7. attempt \in Attempts /\ late \in 0..2
    BY <2>1 DEF Init
  <2> QED
    BY <2>3, <2>4, <2>5, <2>6, <2>7 DEF Init, TypeOK, RequestType, LoopType, AttemptType, AnswerType
<1>2. LateInv /\ ChargedInv /\ ReturnedInv /\ FinishingInv
    BY DEF Init, LateInv, ChargedInv, RefusalsChargedFairly, ReturnedInv, FinishingInv
<1>3. Unreturned /\ AttemptsInv /\ RowsInv /\ EndInv /\ HeadersInv
    BY DEF Init, Unreturned, AttemptsInv, RowsInv, EndInv, HeadersInv, Answered, AtChannel, Attempts
<1>4. KeysInv /\ RouteInv /\ PinInv /\ TurnedInv
    BY DEF Init, KeysInv, RouteInv, PinInv, TurnedInv, AtChannel
<1> QED
    BY <1>1, <1>2, <1>3, <1>4 DEF IInv, LoopInv

(* What is a candidate is a channel in routing, with keys of its own, and   *)
(* for a pinned request the one it is pinned to.                            *)
LEMMA CandidatesAreRoutable ==
    ASSUME TypeOK, KeysInv, RouteInv, NEW s \in Candidates
    PROVE  /\ s \in Selections /\ s.keys \subseteq KeysOf[s.channel] /\ s.channel \in Channels \ excluded
           /\ request.pinned => stay = None /\ s = directSelection /\ directSelection # None
<1>1. CASE stay # None
    BY <1>1 DEF TypeOK, RequestType, LoopType, AttemptType, AnswerType, KeysInv, RouteInv, Candidates, Selections
<1>2. CASE stay = None /\ request.selector
  <2>1. s = directSelection /\ s # None /\ s.channel \notin excluded
    BY <1>2 DEF Candidates
  <2>2. s \in Selections
    BY <2>1 DEF TypeOK, RequestType, LoopType, AttemptType, AnswerType
  <2>3. s.keys \subseteq KeysOf[s.channel]
    BY <2>1 DEF KeysInv
  <2> QED
    BY <1>2, <2>1, <2>2, <2>3 DEF Selections
<1>3. CASE stay = None /\ ~request.selector
  <2>1. PICK c \in routable \ Exclusions : s = SelectionOf(c)
    BY <1>3 DEF Candidates
  <2>2. c \in Channels /\ c \notin excluded
    BY <2>1 DEF TypeOK, RequestType, LoopType, AttemptType, AnswerType, Exclusions
  <2>3. ~request.pinned
    BY <1>3 DEF TypeOK, RequestType, LoopType, AttemptType, AnswerType, Inputs
  <2> QED
    BY <2>1, <2>2, <2>3 DEF SelectionOf, Selections, TypeOK, RequestType, LoopType, AttemptType, AnswerType, KeysInv
<1> QED
    BY <1>1, <1>2, <1>3

(* A key that is picked is one of the channel's, and unless the request is  *)
(* pinned none that was refused.                                            *)
LEMMA PicksAreKeys ==
    ASSUME TypeOK, KeysInv, RouteInv, NEW s \in Candidates, NEW k \in Picks(s)
    PROVE  /\ k \in s.keys \cup {None} /\ k \in Keys \cup {None}
           /\ ~request.pinned => k \notin refused
<1>1. s \in Selections
    BY CandidatesAreRoutable
<1>2. CASE request.pinned
  <2>1. Picks(s) = {x \in {request.pin} : PinAvailable(s)}
    BY <1>2 DEF Picks
  <2>2. k = request.pin /\ PinAvailable(s)
    BY <2>1
  <2>3. request.pin \in Keys \cup {None}
    BY DEF TypeOK, RequestType, LoopType, AttemptType, AnswerType, Inputs
  <2> QED
    BY <1>2, <2>2, <2>3 DEF PinAvailable
<1>3. CASE ~request.pinned
  <2>1. Picks(s) \in {{None}, {}, Fresh(s), Untried(s)}
    BY <1>3 DEF Picks
  <2>2. Fresh(s) \subseteq Untried(s) /\ Untried(s) \subseteq s.keys \ refused
    BY DEF Fresh, Untried
  <2>3. s.keys \subseteq Keys
    BY <1>1 DEF Selections
  <2>4. None \notin refused
    BY AttemptsAssumption DEF TypeOK, RequestType, LoopType, AttemptType, AnswerType
  <2> QED
    BY <1>3, <2>1, <2>2, <2>3, <2>4
<1> QED
    BY <1>2, <1>3

(* A pass of the selection loop that chooses nothing: it narrows the choice,*)
(* among channels that were met.                                            *)
LEMMA PassKeeps ==
    ASSUME IInv, Selecting, Pass, UNCHANGED <<pc, chosen>>,
           excluded \subseteq excluded', excluded' \subseteq Channels, cooling' \subseteq Channels, lastResort' \in BOOLEAN,
           passed' \subseteq {"limited", "misconfigured"},
           met \subseteq met', met' \subseteq Channels, excluded' \subseteq met'
    PROVE  IInv'
<1>1. TypeOK /\ LoopInv /\ pc = "selecting" /\ pc' = "selecting"
    BY DEF IInv, Selecting, Settling
<1>2. TypeOK'
    BY <1>1 DEF TypeOK, RequestType, LoopType, AttemptType, AnswerType, Pass, requestVars, envVars, attemptVars, endVars, failureVars, answerVars
<1>3. LateInv' /\ ChargedInv' /\ ReturnedInv' /\ FinishingInv'
    BY <1>1 DEF IInv, LateInv, ChargedInv, RefusalsChargedFairly, ReturnedInv, FinishingInv,
                LoopInv, Unreturned, Pass, envVars
<1>4. Unreturned' /\ AttemptsInv' /\ RowsInv' /\ EndInv' /\ HeadersInv'
    BY <1>1 DEF LoopInv, Unreturned, AttemptsInv, RowsInv, Held, EndInv, HeadersInv, StreamFailed, Answered, AtChannel,
                Pass, requestVars, envVars, attemptVars, endVars, failureVars, answerVars
<1>5. KeysInv' /\ RouteInv' /\ PinInv'
    BY <1>1 DEF LoopInv, KeysInv, RouteInv, PinInv, AtChannel,
                Pass, requestVars, envVars, attemptVars, endVars, failureVars, answerVars
<1>6. TurnedInv'
    BY <1>1 DEF LoopInv, TurnedInv, JustTurned, Pass, requestVars, attemptVars, endVars
<1> QED
    BY <1>1, <1>2, <1>3, <1>4, <1>5, <1>6 DEF IInv, LoopInv

(* The passes that choose nothing. A channel is passed over when it was met *)
(* or when its keys were: a key belongs to one channel.                     *)
LEMMA PassesKeep ==
    ASSUME IInv, UseCooling \/ ExcludeSpent \/ Cool \/ Unprepared \/ RateLimited
    PROVE  IInv'
<1>1. TypeOK /\ Selecting /\ KeysInv /\ RouteInv /\ excluded \subseteq met
    BY DEF IInv, LoopInv, Settling, UseCooling, ExcludeSpent, Cool, Unprepared, RateLimited, Selecting, RouteInv
<1>2. \A s \in Candidates : s \in Selections /\ s.channel \in Channels /\ s.keys \subseteq KeysOf[s.channel]
    BY <1>1, CandidatesAreRoutable
<1>3. CASE UseCooling
    BY <1>1, <1>3, PassKeeps DEF UseCooling, TypeOK, RequestType, LoopType, AttemptType, AnswerType
<1>4. CASE ExcludeSpent
  <2>1. PICK s \in Candidates : KeysSpent(s) /\ PassOver(s, {})
    BY <1>4 DEF ExcludeSpent
  <2>2. PICK k \in s.keys : k \in refused
    BY <2>1, <1>2 DEF KeysSpent, Untried, Selections
  <2>3. PICK c \in met : k \in KeysOf[c]
    BY <1>1, <2>2 DEF KeysInv
  <2>4. c = s.channel
    BY <1>1, <1>2, <2>2, <2>3, AttemptsAssumption DEF TypeOK, RequestType, LoopType, AttemptType, AnswerType
  <2>5. s.channel \in met /\ s.channel \in Channels
    BY <1>2, <2>3, <2>4
  <2> QED
    BY <1>1, <1>4, <2>1, <2>5, PassKeeps DEF PassOver, TypeOK, RequestType, LoopType, AttemptType, AnswerType, ExcludeSpent
<1>5. CASE Cool
  <2>1. PICK s \in Candidates : cooling' = cooling \cup {s.channel}
    BY <1>5 DEF Cool
  <2>2. Pass /\ UNCHANGED <<pc, chosen, excluded, lastResort, passed, met>>
    BY <1>5 DEF Cool
  <2>3. cooling' \subseteq Channels
    BY <1>1, <1>2, <2>1 DEF TypeOK, LoopType
  <2> QED
    BY <1>1, <2>2, <2>3, PassKeeps DEF TypeOK, LoopType, AttemptType
<1>6. CASE Unprepared \/ RateLimited
  <2>1. PICK s \in Candidates, why \in {"misconfigured", "limited"} : PassOver(s, {why}) /\ met' = met \cup {s.channel}
    BY <1>6 DEF Unprepared, RateLimited
  <2>2. s.channel \in Channels
    BY <1>2
  <2>3. met' \subseteq Channels /\ excluded' \subseteq Channels /\ passed' \subseteq {"limited", "misconfigured"}
    BY <1>1, <2>1, <2>2 DEF PassOver, TypeOK, RequestType, LoopType, AttemptType, AnswerType
  <2> QED
    BY <1>1, <2>1, <2>2, <2>3, PassKeeps DEF PassOver, TypeOK, RequestType, LoopType, AttemptType, AnswerType
<1> QED
    BY <1>3, <1>4, <1>5, <1>6

(* A refusal of the gateway's own: nothing was said, and every attempt is   *)
(* left as one.                                                             *)
LEMMA RefuseKeeps ==
    ASSUME IInv, pc \in {"arrived", "selecting", "chosen"}, headers = None,
           NEW why, why # "none", RefuseRequest(why)
    PROVE  IInv'
<1>1. TypeOK /\ LoopInv /\ pc' = "finishing" /\ pc \notin Answered
    BY DEF IInv, Settling, RefuseRequest, Answered
<1>2. returned' = None /\ delivered' = None /\ headers' = None /\ guard' = "written" /\ refusal' = why /\ charged' = {}
    BY <1>1 DEF LoopInv, Unreturned, RefuseRequest
<1>3. /\ UNCHANGED <<requestVars, envVars, attemptVars, loopVars, endVars, failureVars, historyVars, chosen>>
      /\ rows' = Released(rows)
    BY DEF RefuseRequest
<1>4. TypeOK'
  <2>1. rows' \in [Attempts -> {"none", "pending", "concluded", "attempt", "outcome"}]
    BY <1>1, <1>3 DEF TypeOK, RequestType, LoopType, AttemptType, AnswerType, Released
  <2> QED
    <3>1. RequestType' /\ LoopType'
      BY <1>1, <1>3 DEF TypeOK, RequestType, LoopType, requestVars, envVars, loopVars
    <3>2. AttemptType'
      BY <1>1, <1>2, <1>3 DEF TypeOK, AttemptType, attemptVars, historyVars
    <3>3. AnswerType'
      BY <1>1, <1>2, <1>3, <2>1 DEF TypeOK, AnswerType, endVars, failureVars
    <3> QED
      BY <3>1, <3>2, <3>3 DEF TypeOK
<1>5. OthersClosed'
    BY <1>1, <1>2, <1>3 DEF OthersClosed, Released, LoopInv, AttemptsInv, RowsInv, Held, endVars, attemptVars, TypeOK, RequestType, LoopType, AttemptType, AnswerType
<1>6. LateInv' /\ ChargedInv' /\ ReturnedInv' /\ FinishingInv'
    BY <1>1, <1>2, <1>3, <1>5 DEF IInv, LateInv, ChargedInv, RefusalsChargedFairly, ReturnedInv, FinishingInv,
          NothingAfterHeaders, historyVars, envVars
<1> QED
    BY <1>1, <1>4, <1>6 DEF IInv, Settling

(* A failure that is still held becomes the answer.                         *)
LEMMA ReturnKeeps ==
    ASSUME IInv, pc \in {"selecting", "chosen"}, NEW n \in Attempts, kind[n] # "none", Held(n),
           kind[n] \in {"noAnswer", "answer"} => headers = None, ReturnAttempt(n)
    PROVE  IInv'
<1>1. TypeOK /\ LoopInv /\ pc' = "returned" /\ pc \notin Answered
    BY DEF IInv, Settling, ReturnAttempt, Answered
<1>2. n # None
    BY AttemptsAssumption DEF Attempts
<1>3. /\ UNCHANGED <<requestVars, envVars, attemptVars, loopVars, endVars, failureVars, answerVars, historyVars,
                     chosen, charged>>
      /\ rows' = Released(Concluded(n)) /\ returned' = n
    BY DEF ReturnAttempt
<1>4. TypeOK'
  <2>1. rows' \in [Attempts -> {"none", "pending", "concluded", "attempt", "outcome"}]
    BY <1>1, <1>3 DEF TypeOK, RequestType, LoopType, AttemptType, AnswerType, Released, Concluded, Settled
  <2> QED
    <3>1. RequestType' /\ LoopType'
      BY <1>1, <1>3 DEF TypeOK, RequestType, LoopType, requestVars, envVars, loopVars
    <3>2. AttemptType'
      BY <1>1, <1>3 DEF TypeOK, AttemptType, attemptVars, historyVars
    <3>3. AnswerType'
      BY <1>1, <1>3, <2>1 DEF TypeOK, AnswerType, endVars, failureVars, answerVars
    <3> QED
      BY <3>1, <3>2, <3>3 DEF TypeOK
<1>5. OthersClosed'
    BY <1>1, <1>2, <1>3 DEF OthersClosed, Released, Concluded, Settled, LoopInv, AttemptsInv, RowsInv, Held, endVars,
          attemptVars, TypeOK, RequestType, LoopType, AttemptType, AnswerType
<1>6. rows'[n] = IF kind[n] \in {"noAnswer", "forgotten"} THEN "outcome" ELSE "concluded"
    BY <1>1, <1>3 DEF Released, Concluded, Settled, LoopInv, RowsInv, TypeOK, RequestType, LoopType, AttemptType, AnswerType
<1>7. ReturnedInv'
    BY <1>1, <1>2, <1>3, <1>5, <1>6 DEF ReturnedInv, LoopInv, Unreturned, endVars, answerVars
<1>8. LateInv' /\ ChargedInv' /\ FinishingInv'
    BY <1>1, <1>3 DEF IInv, LateInv, ChargedInv, RefusalsChargedFairly, FinishingInv, LoopInv, Unreturned,
          historyVars, envVars
<1> QED
    BY <1>1, <1>4, <1>7, <1>8 DEF IInv, Settling

(* The exits without a channel: the stream whose headers are out, the last  *)
(* failure, or a refusal.                                                   *)
LEMMA ExitsKeep ==
    ASSUME IInv, pc \in {"selecting", "chosen"}, NEW why, why # "none",
           \/ EndWithout(why)
           \/ streamFailure = None /\ lastFailure # None /\ ReturnAttempt(lastFailure)
    PROVE  IInv'
<1>1. TypeOK /\ LoopInv /\ pc \notin Answered
    BY DEF IInv, Settling, Answered
<1>2. ASSUME NEW n \in {lastFailure, streamFailure}, n # None
      PROVE  n \in Attempts /\ kind[n] # "none" /\ Held(n)
  <2>1. n \in Attempts /\ n < attempt
    BY <1>1, <1>2 DEF TypeOK, RequestType, LoopType, AttemptType, AnswerType, LoopInv, AttemptsInv
  <2>2. attempt \in Attempts /\ \A m \in Attempts : m \in Int
    BY <1>1, AttemptsAreNumbers DEF TypeOK, AttemptType
  <2>3. ~(n > attempt) /\ n # attempt
    BY <2>1, <2>2
  <2> QED
    BY <1>1, <2>1, <2>3 DEF LoopInv, AttemptsInv, Held
<1>3. streamFailure = None => headers = None
    BY <1>1 DEF LoopInv, HeadersInv
<1>4. CASE streamFailure # None
  <2>1. kind[streamFailure] \notin {"noAnswer", "answer"}
    BY <1>1, <1>4 DEF LoopInv, HeadersInv
  <2> QED
    BY <1>2, <1>4, <2>1, ReturnKeeps DEF EndWithout
<1>5. CASE streamFailure = None /\ EndWithout(why)
    BY <1>3, <1>5, RefuseKeeps DEF EndWithout
<1>6. CASE streamFailure = None /\ lastFailure # None /\ ReturnAttempt(lastFailure)
    BY <1>2, <1>3, <1>6, ReturnKeeps
<1> QED
    BY <1>4, <1>5, <1>6

(* A pinned request is refused only before a stream of its one channel was  *)
(* begun, so that no error follows headers.                                 *)
LEMMA LoopExitsKeep ==
    ASSUME IInv, RefuseEarly \/ SelectFails \/ PinGone \/ CredentialsChanged \/ NothingLeft \/ LeaveInBackoff
    PROVE  IInv'
<1>1. CASE RefuseEarly
  <2>1. TypeOK /\ LoopInv /\ pc = "arrived"
    BY <1>1 DEF IInv, RefuseEarly, Settling
  <2>2. streamFailure = None
    <3>1. streamFailure # None => streamFailure \in Attempts /\ streamFailure < 0
      BY <2>1 DEF TypeOK, RequestType, LoopType, AttemptType, AnswerType, LoopInv, AttemptsInv
    <3>2. \A n \in Attempts : ~(n < 0)
      BY DEF Attempts
    <3> QED
      BY <3>1, <3>2
  <2>3. headers = None
    BY <2>1, <2>2 DEF LoopInv, HeadersInv, Answered
  <2> QED
    BY <1>1, <2>1, <2>3, RefuseKeeps DEF RefuseEarly
<1>2. CASE SelectFails
    BY <1>2, ExitsKeep DEF SelectFails, Selecting
<1>3. CASE NothingLeft
  <2>1. NoRouteReason # "none"
    BY DEF NoRouteReason
  <2> QED
    BY <1>3, <2>1, ExitsKeep DEF NothingLeft, Selecting
<1>4. CASE LeaveInBackoff
    BY <1>4, ExitsKeep DEF LeaveInBackoff
<1>5. CASE PinGone \/ CredentialsChanged
  <2>1. TypeOK /\ LoopInv /\ pc = "selecting" /\ pc \notin Answered
    BY <1>5 DEF IInv, PinGone, CredentialsChanged, Selecting, Settling, Answered
  <2>2. PICK s \in Candidates : request.pinned
    BY <1>5 DEF PinGone, CredentialsChanged
  <2>3. s = directSelection /\ s.channel \notin excluded
    BY <2>1, <2>2, CandidatesAreRoutable DEF LoopInv
  <2>4. headers = None
    BY <2>1, <2>2, <2>3 DEF LoopInv, PinInv, HeadersInv
  <2> QED
    BY <1>5, <2>1, <2>4, RefuseKeeps DEF PinGone, CredentialsChanged
<1> QED
    BY <1>1, <1>2, <1>3, <1>4, <1>5

(* A channel is chosen.                                                     *)
LEMMA ChooseKeeps ==
    ASSUME IInv, Choose
    PROVE  IInv'
<1>1. TypeOK /\ LoopInv /\ KeysInv /\ RouteInv /\ pc = "selecting" /\ pc' = "chosen"
    BY DEF IInv, LoopInv, Settling, Choose, Selecting
<1> PICK s \in Candidates : \E k \in Picks(s) :
      chosen' = [channel |-> s.channel, keys |-> s.keys, key |-> k, stayed |-> stay # None]
    BY DEF Choose
<1>2. PICK k \in Picks(s) :
        chosen' = [channel |-> s.channel, keys |-> s.keys, key |-> k, stayed |-> stay # None]
    OBVIOUS
<1>3. /\ s \in Selections /\ s.keys \subseteq KeysOf[s.channel] /\ s.channel \in Channels \ excluded
      /\ request.pinned => stay = None /\ s = directSelection /\ directSelection # None
      /\ k \in s.keys \cup {None} /\ k \in Keys \cup {None} /\ (~request.pinned => k \notin refused)
    BY <1>1, CandidatesAreRoutable, PicksAreKeys
<1>4. chosen'.channel = s.channel /\ chosen'.keys = s.keys /\ chosen'.key = k
    BY <1>2
<1>5. Pass /\ UNCHANGED <<excluded, cooling, lastResort, passed, met>>
    BY DEF Choose
<1>6. TypeOK'
  <2>1. chosen' \in [channel : Channels \cup {None}, keys : SUBSET Keys, key : Keys \cup {None}, stayed : BOOLEAN]
    BY <1>2, <1>3 DEF Selections
  <2> QED
    <3>1. RequestType' /\ LoopType'
      BY <1>1, <1>5, <2>1 DEF TypeOK, RequestType, LoopType, Pass, requestVars, envVars
    <3>2. AttemptType' /\ AnswerType'
      BY <1>1, <1>5 DEF TypeOK, AttemptType, AnswerType, Pass, attemptVars, endVars, failureVars, answerVars
    <3> QED
      BY <3>1, <3>2 DEF TypeOK
<1>7. LateInv' /\ ChargedInv' /\ ReturnedInv' /\ FinishingInv'
    BY <1>1, <1>5 DEF IInv, LateInv, ChargedInv, RefusalsChargedFairly, ReturnedInv, FinishingInv,
                LoopInv, Unreturned, Pass, envVars
<1>8. Unreturned' /\ AttemptsInv' /\ RowsInv' /\ EndInv' /\ HeadersInv'
    BY <1>1, <1>5 DEF LoopInv, Unreturned, AttemptsInv, RowsInv, Held, EndInv, HeadersInv, StreamFailed, Answered,
                AtChannel, Pass, requestVars, envVars, attemptVars, endVars, failureVars, answerVars
<1>9. KeysInv' /\ RouteInv' /\ PinInv'
    BY <1>1, <1>3, <1>4, <1>5 DEF LoopInv, KeysInv, RouteInv, PinInv, AtChannel,
                Pass, requestVars, envVars, attemptVars, endVars, failureVars, answerVars
<1>10. TurnedInv'
  <2>1. <<s.channel, k>> \notin turned
    <3>1. SUFFICES ASSUME <<s.channel, k>> \in turned PROVE FALSE
      OBVIOUS
    <3>2. <<s.channel, k>> \notin JustTurned
      BY <1>1 DEF JustTurned
    <3>3. s.channel \in excluded \/ (~request.pinned /\ k \in refused)
      BY <1>1, <3>1, <3>2 DEF LoopInv, TurnedInv
    <3> QED
      BY <1>3, <3>3
  <2>2. JustTurned = {} /\ turned' = turned /\ request' = request /\ refused' = refused /\ excluded' = excluded
    BY <1>1, <1>5 DEF JustTurned, Pass, requestVars, attemptVars
  <2> QED
    BY <1>1, <1>4, <2>1, <2>2 DEF LoopInv, TurnedInv
<1> QED
    BY <1>1, <1>6, <1>7, <1>8, <1>9, <1>10 DEF IInv, LoopInv, Settling

(* The chosen channel is asked, and the failure before is only an attempt.  *)
LEMMA ForwardKeeps ==
    ASSUME IInv, Forward
    PROVE  IInv'
<1>1. TypeOK /\ LoopInv /\ pc = "chosen" /\ pc' = "requesting"
    BY DEF IInv, Settling, Forward
<1>2. /\ UNCHANGED <<requestVars, envVars, attemptVars, loopVars, endVars, answerVars, chosen, streamFailure,
                     returned, charged, turned>>
      /\ lastFailure' = None /\ met' = met \cup {chosen.channel}
      /\ late' = IF gone /\ late < 2 THEN late + 1 ELSE late
      /\ rows' = IF lastFailure # None /\ lastFailure # streamFailure THEN Settled(lastFailure, "attempt") ELSE rows
    BY DEF Forward, NoteAttempt
<1>3. chosen.channel \in Channels /\ late = 0 /\ late' \in {0, 1} /\ (late' = 1 => gone)
    BY <1>1, <1>2 DEF IInv, LoopInv, RouteInv, AtChannel, LateInv
<1>4. TypeOK'
  <2>1. rows' \in [Attempts -> {"none", "pending", "concluded", "attempt", "outcome"}]
    BY <1>1, <1>2 DEF TypeOK, RequestType, LoopType, AttemptType, AnswerType, Settled
  <2>2. late' \in 0..2
    BY <1>3
  <2>3. RequestType' /\ LoopType'
    BY <1>1, <1>2 DEF TypeOK, RequestType, LoopType, requestVars, envVars, loopVars
  <2>4. AttemptType'
    BY <1>1, <1>2, <1>3, <2>2 DEF TypeOK, AttemptType, attemptVars
  <2>5. AnswerType'
    BY <1>1, <1>2, <2>1 DEF TypeOK, AnswerType, endVars, answerVars
  <2> QED
    BY <2>3, <2>4, <2>5 DEF TypeOK
<1>5. LateInv' /\ ChargedInv' /\ ReturnedInv' /\ FinishingInv'
    BY <1>1, <1>2, <1>3 DEF IInv, LateInv, ChargedInv, RefusalsChargedFairly, ReturnedInv, FinishingInv,
                LoopInv, Unreturned, envVars
<1>6. RowsInv'
  <2>1. kind[attempt] = "none"
    BY <1>1, AttemptsAreNumbers DEF LoopInv, AttemptsInv, Answered, TypeOK, AttemptType
  <2>2. lastFailure \in Attempts \cup {None} /\ streamFailure \in Attempts \cup {None} /\ RowsInv
    BY <1>1 DEF TypeOK, AnswerType, LoopInv
  <2>3. rows \in [Attempts -> {"none", "pending", "concluded", "attempt", "outcome"}]
    BY <1>1 DEF TypeOK, AnswerType
  <2>4. attempt' = attempt /\ kind' = kind /\ streamFailure' = streamFailure
    BY <1>2 DEF attemptVars, endVars
  <2>5. CASE lastFailure # None /\ lastFailure # streamFailure
    <3>1. rows' = [rows EXCEPT ![lastFailure] = IF @ = "pending" THEN "attempt" ELSE @]
      BY <1>2, <2>5 DEF Settled
    <3> QED
      BY <1>2, <2>1, <2>2, <2>3, <2>4, <2>5, <3>1, AttemptsAreNumbers DEF RowsInv, Held
  <2>6. CASE lastFailure = None \/ lastFailure = streamFailure
    <3>1. rows' = rows
      BY <1>2, <2>6
    <3> QED
      BY <1>2, <2>1, <2>2, <2>4, <2>6, <3>1, AttemptsAreNumbers DEF RowsInv, Held
  <2> QED
    BY <2>5, <2>6
<1>7. Unreturned' /\ AttemptsInv' /\ EndInv' /\ HeadersInv'
    BY <1>1, <1>2 DEF LoopInv, Unreturned, AttemptsInv, EndInv, HeadersInv, StreamFailed, Answered,
                AtChannel, attemptVars, endVars, answerVars
<1>8. KeysInv' /\ RouteInv' /\ PinInv'
    BY <1>1, <1>2, <1>3 DEF LoopInv, KeysInv, RouteInv, PinInv, AtChannel,
                requestVars, envVars, attemptVars, loopVars
<1>9. TurnedInv'
    BY <1>1, <1>2 DEF LoopInv, TurnedInv, JustTurned, requestVars, attemptVars, loopVars
<1> QED
    BY <1>1, <1>4, <1>5, <1>6, <1>7, <1>8, <1>9 DEF IInv, LoopInv, Settling

(* The frame of the steps at a channel that end, or begin, an answer.       *)
LEMMA EndFrame ==
    ASSUME IInv, pc \in {"requesting", "priming"}, NEW k, NEW s, NEW step, EndAttempt(k, s, step),
           k \in {"noAnswer", "answer", "stream", "failed stream", "forgotten"}, s \in Statuses \cup {"none"},
           step \in Answered
    PROVE  /\ TypeOK /\ LoopInv /\ RequestType' /\ LoopType' /\ AttemptType'
           /\ kind' \in [Attempts -> {"none", "noAnswer", "answer", "stream", "failed stream", "forgotten"}]
           /\ kind'[attempt] = k /\ \A n \in Attempts \ {attempt} : kind'[n] = kind[n]
           /\ attempt' = attempt /\ attempt \in Attempts /\ lastFailure = None /\ pc' = step /\ status' = s
           /\ UNCHANGED <<failureVars, returned, guard, delivered, refusal, charged>>
           /\ LateInv' /\ ChargedInv' /\ ReturnedInv' /\ FinishingInv' /\ Unreturned' /\ AttemptsInv'
           /\ KeysInv' /\ RouteInv' /\ PinInv'
<1>1. TypeOK /\ LoopInv
    BY DEF IInv, Settling
<1>2. /\ UNCHANGED <<requestVars, envVars, attemptVars, loopVars, failureVars, chosen, returned, guard, delivered,
                     refusal, charged, met, late>>
      /\ pc' = step /\ kind' = [kind EXCEPT ![attempt] = k] /\ status' = s
      /\ turned' = IF s \in {"denied", "bad"} THEN turned \cup {<<chosen.channel, chosen.key>>} ELSE turned
    BY DEF EndAttempt
<1>3. attempt \in Attempts /\ chosen.channel \in Channels /\ chosen.key \in Keys \cup {None} /\ lastFailure = None
    BY <1>1 DEF TypeOK, AttemptType, LoopType, LoopInv, RouteInv, AttemptsInv, AtChannel
<1>4. RequestType' /\ LoopType'
    BY <1>1, <1>2 DEF TypeOK, RequestType, LoopType, requestVars, envVars, loopVars
<1>5. AttemptType'
  <2>1. turned' \subseteq Channels \X (Keys \cup {None})
    <3>1. turned \subseteq Channels \X (Keys \cup {None})
      BY <1>1 DEF TypeOK, AttemptType
    <3>2. <<chosen.channel, chosen.key>> \in Channels \X (Keys \cup {None})
      BY <1>3
    <3>3. turned' \in {turned, turned \cup {<<chosen.channel, chosen.key>>}}
      BY <1>2
    <3> QED
      BY <3>1, <3>2, <3>3
  <2>2. pc' \in {"priming", "succeeded", "failed"}
    BY <1>2 DEF Answered
  <2> QED
    BY <1>1, <1>2, <2>1, <2>2 DEF TypeOK, AttemptType, attemptVars
<1>6. /\ kind' \in [Attempts -> {"none", "noAnswer", "answer", "stream", "failed stream", "forgotten"}]
      /\ kind'[attempt] = k /\ \A n \in Attempts \ {attempt} : kind'[n] = kind[n]
    BY <1>1, <1>2, <1>3 DEF TypeOK, AnswerType
<1>7. LateInv' /\ ChargedInv' /\ ReturnedInv' /\ FinishingInv' /\ Unreturned'
    BY <1>1, <1>2 DEF IInv, LateInv, ChargedInv, RefusalsChargedFairly, ReturnedInv, FinishingInv,
                LoopInv, Unreturned, envVars, Answered
<1>8. AttemptsInv'
  <2>1. pc' \in Answered /\ pc' # "arrived" /\ UNCHANGED <<attempt, lastFailure, streamFailure>>
    BY <1>2 DEF Answered, attemptVars, failureVars
  <2>2. ~(attempt > attempt)
    <3>1. attempt \in Attempts
      BY <1>3
    <3> QED
      BY <3>1, AttemptsAreNumbers
  <2>3. ASSUME NEW n \in Attempts
        PROVE  kind'[n] = "none" <=> (n > attempt \/ (n = attempt /\ pc' \notin Answered))
    <3>1. CASE n = attempt
      BY <1>6, <2>1, <2>2, <3>1
    <3>2. CASE n # attempt
      <4>1. kind[n] = "none" <=> n > attempt
        BY <1>1, <3>2 DEF LoopInv, AttemptsInv
      <4> QED
        BY <1>6, <2>1, <3>2, <4>1
    <3> QED
      BY <3>1, <3>2
  <2> QED
    BY <1>1, <1>3, <2>1, <2>3 DEF LoopInv, AttemptsInv
<1>9. KeysInv' /\ RouteInv' /\ PinInv'
    BY <1>1, <1>2 DEF LoopInv, KeysInv, RouteInv, PinInv, AtChannel, Answered,
                requestVars, envVars, attemptVars, loopVars, failureVars
<1> QED
    BY <1>1, <1>2, <1>3, <1>4, <1>5, <1>6, <1>7, <1>8, <1>9 DEF attemptVars

(* Who turns the request away now is remembered until it is out.            *)
LEMMA TurnedAway ==
    ASSUME IInv, pc \in {"requesting", "priming"}, NEW k, NEW s, NEW step, EndAttempt(k, s, step),
           step \in Answered, s \in {"denied", "bad"} => k = "answer" /\ step = "failed",
           kind'[attempt] = k
    PROVE  TurnedInv'
<1>1. LoopInv /\ TurnedInv
    BY DEF IInv, LoopInv, Settling
<1>2. JustTurned = {}
    BY DEF JustTurned
<1>3. /\ UNCHANGED <<request, excluded, refused, chosen, attempt>>
      /\ pc' = step /\ status' = s
      /\ turned' = IF s \in {"denied", "bad"} THEN turned \cup {<<chosen.channel, chosen.key>>} ELSE turned
    BY DEF EndAttempt, requestVars, loopVars, attemptVars
<1>4. CASE s \in {"denied", "bad"}
  <2>1. JustTurned' = {<<chosen.channel, chosen.key>>}
    BY <1>3, <1>4 DEF JustTurned
  <2> QED
    BY <1>1, <1>2, <1>3, <1>4, <2>1 DEF TurnedInv, Answered
<1>5. CASE s \notin {"denied", "bad"}
    BY <1>1, <1>2, <1>3, <1>5 DEF TurnedInv, Answered
<1> QED
    BY <1>4, <1>5

(* An answer, none, or the beginning of a stream: its row is held.          *)
LEMMA AnswersKeep ==
    ASSUME IInv, NoAnswer \/ Answer \/ Stream
    PROVE  IInv'
<1>1. pc = "requesting" /\ NewRow
    BY DEF NoAnswer, Answer, Stream
<1>2. PICK k \in {"noAnswer", "answer", "stream"}, s \in Statuses \cup {"none"}, step \in Answered :
        /\ EndAttempt(k, s, step)
        /\ \/ k = "noAnswer" /\ s = "none" /\ step = "failed" /\ UNCHANGED headers
           \/ k = "answer" /\ s # "none" /\ step = (IF s = "ok" THEN "succeeded" ELSE "failed") /\ UNCHANGED headers
           \/ k = "stream" /\ s = "ok" /\ step = "succeeded" /\ UNCHANGED headers
           \/ k = "stream" /\ s = "ok" /\ step = "priming" /\ headers' = IF headers = None THEN attempt ELSE headers
    BY DEF NoAnswer, Answer, Stream, Answered, Statuses
<1>3. /\ TypeOK /\ LoopInv /\ RequestType' /\ LoopType' /\ AttemptType'
      /\ kind' \in [Attempts -> {"none", "noAnswer", "answer", "stream", "failed stream", "forgotten"}]
      /\ kind'[attempt] = k /\ \A n \in Attempts \ {attempt} : kind'[n] = kind[n]
      /\ attempt' = attempt /\ attempt \in Attempts /\ lastFailure = None /\ pc' = step /\ status' = s
      /\ UNCHANGED <<failureVars, returned, guard, delivered, refusal, charged>>
      /\ LateInv' /\ ChargedInv' /\ ReturnedInv' /\ FinishingInv' /\ Unreturned' /\ AttemptsInv'
      /\ KeysInv' /\ RouteInv' /\ PinInv'
    BY <1>1, <1>2, EndFrame
<1>4. TurnedInv'
    BY <1>1, <1>2, <1>3, TurnedAway
<1>5. rows' = [rows EXCEPT ![attempt] = "pending"]
    BY <1>1 DEF NewRow
<1>6. AnswerType'
    BY <1>2, <1>3, <1>5 DEF TypeOK, AnswerType, failureVars
<1>7. RowsInv'
    BY <1>2, <1>3, <1>5, AttemptsAreNumbers DEF TypeOK, AnswerType, LoopInv, RowsInv, Held, failureVars
<1>8. EndInv'
    BY <1>2, <1>3 DEF EndInv, StreamFailed, Statuses
<1>9. HeadersInv'
  <2>1. streamFailure' = streamFailure /\ streamFailure # attempt /\ HeadersInv /\ headers # attempt
    <3>1. kind[attempt] = "none"
      BY <1>1, <1>3, AttemptsAreNumbers DEF LoopInv, AttemptsInv, Answered
    <3> QED
      BY <1>1, <1>3, <3>1, AttemptsAreNumbers DEF LoopInv, HeadersInv, failureVars
  <2>2. streamFailure \in Attempts \cup {None} /\ headers \in Attempts \cup {None}
    BY <1>3 DEF TypeOK, AnswerType
  <2>3. headers # None => streamFailure # None
    BY <1>1, <2>1 DEF HeadersInv, Answered
  <2> QED
    BY <1>2, <1>3, <2>1, <2>2, <2>3, AttemptsAreNumbers DEF HeadersInv, StreamFailed, Answered
<1>10. LoopInv' /\ TypeOK' /\ pc' \notin Settling
    BY <1>3, <1>4, <1>6, <1>7, <1>8, <1>9 DEF LoopInv, TypeOK, Settling, Answered
<1> QED
    BY <1>3, <1>10 DEF IInv

(* A held stream shows content, fails, or cannot be remembered: then its    *)
(* row is written at once.                                                  *)
LEMMA PrimingKeeps ==
    ASSUME IInv, Primed \/ PrimeFails \/ RememberFails
    PROVE  IInv'
<1>1. pc = "priming" /\ UNCHANGED headers
    BY DEF Primed, PrimeFails, RememberFails
<1>2. PICK k \in {"stream", "failed stream", "forgotten"}, step \in {"succeeded", "failed"} :
        /\ EndAttempt(k, "ok", step)
        /\ (k = "stream") <=> (step = "succeeded")
        /\ rows' = IF k = "forgotten" THEN [rows EXCEPT ![attempt] = "outcome"] ELSE rows
    BY DEF Primed, PrimeFails, RememberFails
<1>3. /\ TypeOK /\ LoopInv /\ RequestType' /\ LoopType' /\ AttemptType'
      /\ kind' \in [Attempts -> {"none", "noAnswer", "answer", "stream", "failed stream", "forgotten"}]
      /\ kind'[attempt] = k /\ \A n \in Attempts \ {attempt} : kind'[n] = kind[n]
      /\ attempt' = attempt /\ attempt \in Attempts /\ lastFailure = None /\ pc' = step /\ status' = "ok"
      /\ UNCHANGED <<failureVars, returned, guard, delivered, refusal, charged>>
      /\ LateInv' /\ ChargedInv' /\ ReturnedInv' /\ FinishingInv' /\ Unreturned' /\ AttemptsInv'
      /\ KeysInv' /\ RouteInv' /\ PinInv'
    BY <1>1, <1>2, EndFrame DEF Statuses, Answered
<1>4. TurnedInv'
    BY <1>1, <1>2, <1>3, TurnedAway DEF Answered
<1>5. kind[attempt] = "stream" /\ rows[attempt] = "pending" /\ headers # None
    BY <1>1, <1>3 DEF LoopInv, EndInv, RowsInv, Held, HeadersInv
<1>6. AnswerType'
    BY <1>1, <1>2, <1>3 DEF TypeOK, AnswerType, failureVars, Statuses
<1>7. RowsInv'
    BY <1>2, <1>3, <1>5, AttemptsAreNumbers DEF TypeOK, AnswerType, LoopInv, RowsInv, Held, failureVars
<1>8. EndInv'
    BY <1>2, <1>3 DEF EndInv, StreamFailed
<1>9. HeadersInv'
  <2>1. streamFailure' = streamFailure /\ streamFailure # attempt /\ HeadersInv
    BY <1>3, <1>5, AttemptsAreNumbers DEF LoopInv, HeadersInv, failureVars
  <2>2. streamFailure \in Attempts \cup {None} /\ headers \in Attempts
    BY <1>3, <1>5 DEF TypeOK, AnswerType
  <2> QED
    BY <1>1, <1>2, <1>3, <1>5, <2>1, <2>2, AttemptsAreNumbers DEF HeadersInv, StreamFailed, Answered
<1>10. LoopInv' /\ TypeOK' /\ pc' \notin Settling
    BY <1>3, <1>4, <1>6, <1>7, <1>8, <1>9 DEF LoopInv, TypeOK, Settling
<1> QED
    BY <1>3, <1>10 DEF IInv

(* The attempt is the answer, and whoever refused the request before is     *)
(* charged: its channel is none of them.                                    *)
LEMMA SucceedKeeps ==
    ASSUME IInv, Succeed
    PROVE  IInv'
<1>1. TypeOK /\ LoopInv /\ pc = "succeeded" /\ pc' = "returned"
    BY DEF IInv, Settling, Succeed
<1>2. /\ UNCHANGED <<requestVars, attemptVars, loopVars, endVars, failureVars, answerVars, historyVars, routable,
                     keys, edits, gone, chosen>>
      /\ rows' = Released(Settled(attempt, "concluded")) /\ benched' = benched \ {chosen.key}
      /\ charged' = charged \cup rejected /\ returned' = attempt
    BY DEF Succeed
<1>3. /\ attempt \in Attempts /\ attempt # None /\ kind[attempt] \in {"answer", "stream"} /\ status = "ok"
      /\ chosen.channel \notin rejected /\ charged = {} /\ lastFailure = None
    BY <1>1, AttemptsAreNumbers DEF LoopInv, EndInv, RouteInv, AtChannel, Unreturned, AttemptsInv, TypeOK, AttemptType
<1>4. rows' \in [Attempts -> {"none", "pending", "concluded", "attempt", "outcome"}]
    BY <1>1, <1>2 DEF TypeOK, AnswerType, Released, Settled
<1>5. TypeOK'
  <2>1. RequestType' /\ LoopType'
    BY <1>1, <1>2 DEF TypeOK, RequestType, LoopType, requestVars, loopVars
  <2>2. AttemptType'
    BY <1>1, <1>2 DEF TypeOK, AttemptType, attemptVars, historyVars
  <2>3. AnswerType'
    BY <1>1, <1>2, <1>3, <1>4 DEF TypeOK, AnswerType, endVars, failureVars, answerVars
  <2> QED
    BY <2>1, <2>2, <2>3 DEF TypeOK
<1>6. OthersClosed'
    BY <1>1, <1>2, <1>3 DEF OthersClosed, Released, Settled, LoopInv, RowsInv, Held, endVars, TypeOK, AnswerType
<1>7. rows'[attempt] = "concluded"
    BY <1>1, <1>2, <1>3 DEF Released, Settled, LoopInv, RowsInv, Held, TypeOK, AnswerType
<1>8. ReturnedInv'
    BY <1>1, <1>2, <1>3, <1>6, <1>7 DEF ReturnedInv, LoopInv, Unreturned, endVars, answerVars
<1>9. LateInv' /\ ChargedInv' /\ FinishingInv'
    BY <1>1, <1>2, <1>3 DEF IInv, LateInv, ChargedInv, RefusalsChargedFairly, FinishingInv, historyVars, endVars
<1> QED
    BY <1>1, <1>5, <1>8, <1>9 DEF IInv, Settling

(* The last attempt failed: it is the answer, or the stream is whose        *)
(* headers the client holds.                                                *)
LEMMA GiveUpKeeps ==
    ASSUME IInv, GiveUp
    PROVE  IInv'
<1> DEFINE n == IF streamFailure # None /\ ~StreamFailed THEN streamFailure ELSE attempt
<1>1. TypeOK /\ LoopInv /\ pc = "failed" /\ pc' = "returned"
    BY DEF IInv, Settling, GiveUp
<1>2. /\ UNCHANGED <<requestVars, loopVars, endVars, failureVars, answerVars, historyVars, routable, keys, edits,
                     gone, attempt, rejected, previous, chosen, charged>>
      /\ benched' = NowBenched /\ refused' = NowRefused /\ returned' = n
    BY DEF GiveUp
<1>3. /\ attempt \in Attempts /\ attempt # None /\ kind[attempt] # "none" /\ lastFailure = None
      /\ streamFailure \in Attempts \cup {None} /\ streamFailure # attempt
  <2>1. attempt \in Attempts /\ streamFailure \in Attempts \cup {None} /\ lastFailure = None
    BY <1>1 DEF TypeOK, AttemptType, AnswerType, LoopInv, AttemptsInv, AtChannel
  <2>2. kind[attempt] # "none"
    BY <1>1 DEF LoopInv, EndInv, StreamFailed
  <2>3. streamFailure # None => streamFailure < attempt
    BY <1>1 DEF LoopInv, AttemptsInv
  <2> QED
    BY <2>1, <2>2, <2>3, AttemptsAreNumbers
<1>4. n \in Attempts /\ n # None /\ kind[n] # "none" /\ Held(n)
    BY <1>1, <1>3 DEF LoopInv, HeadersInv, Held
<1>5. kind[n] = "noAnswer" \/ kind[n] = "answer" => headers = None
    BY <1>1, <1>3 DEF LoopInv, HeadersInv, StreamFailed
<1>6. rows' = [m \in Attempts |->
                 IF m = n /\ rows[m] = "pending" THEN (IF kind[m] = "noAnswer" THEN "outcome" ELSE "concluded")
                 ELSE IF Held(m) /\ rows[m] = "pending" THEN "attempt" ELSE rows[m]]
  <2>1. rows \in [Attempts -> {"none", "pending", "concluded", "attempt", "outcome"}]
    BY <1>1 DEF TypeOK, AnswerType
  <2>2. CASE streamFailure # None /\ ~StreamFailed
    <3>1. rows' = [Released(Concluded(streamFailure)) EXCEPT ![attempt] = IF @ = "pending" THEN "attempt" ELSE @]
      BY <2>2 DEF GiveUp
    <3> QED
      BY <1>3, <2>1, <2>2, <3>1 DEF Released, Concluded, Settled, Held
  <2>3. CASE streamFailure = None \/ StreamFailed
    <3>1. rows' = Released(Concluded(attempt))
      BY <2>3 DEF GiveUp
    <3> QED
      BY <1>3, <2>1, <2>3, <3>1 DEF Released, Concluded, Settled, Held
  <2> QED
    BY <2>2, <2>3
<1> HIDE DEF n
<1>7. TypeOK'
  <2>1. benched' \subseteq Keys /\ refused' \subseteq Keys
    BY <1>1, <1>2 DEF TypeOK, RequestType, LoopType, AttemptType, NowBenched, NowRefused, KeyRefused
  <2>2. RequestType' /\ LoopType'
    BY <1>1, <1>2, <2>1 DEF TypeOK, RequestType, LoopType, requestVars, loopVars
  <2>3. AttemptType'
    BY <1>1, <1>2, <2>1 DEF TypeOK, AttemptType, historyVars
  <2>4. rows' \in [Attempts -> {"none", "pending", "concluded", "attempt", "outcome"}]
    BY <1>1, <1>6 DEF TypeOK, AnswerType
  <2>5. AnswerType'
    BY <1>1, <1>2, <1>4, <2>4 DEF TypeOK, AnswerType, endVars, failureVars, answerVars
  <2> QED
    BY <2>2, <2>3, <2>5 DEF TypeOK
<1>8. OthersClosed'
    BY <1>1, <1>2, <1>4, <1>6 DEF OthersClosed, LoopInv, RowsInv, endVars
<1>9. rows'[n] = IF kind[n] \in {"noAnswer", "forgotten"} THEN "outcome" ELSE "concluded"
    BY <1>1, <1>4, <1>6 DEF LoopInv, RowsInv
<1>10. ReturnedInv'
    BY <1>1, <1>2, <1>4, <1>5, <1>8, <1>9 DEF ReturnedInv, LoopInv, Unreturned, endVars, answerVars
<1>11. LateInv' /\ ChargedInv' /\ FinishingInv'
    BY <1>1, <1>2 DEF IInv, LateInv, ChargedInv, RefusalsChargedFairly, FinishingInv, LoopInv, Unreturned, historyVars
<1> QED
    BY <1>1, <1>7, <1>10, <1>11 DEF IInv, Settling

(* Another attempt follows. The failure is held; a key or a channel that    *)
(* turned the request away is out; a stream's channel is.                   *)
LEMMA RetriesKeep ==
    ASSUME IInv, Retry \/ RetryStream
    PROVE  IInv'
<1>1. TypeOK /\ LoopInv /\ pc = "failed" /\ pc' = "selecting" /\ ~gone /\ attempt # MaxRetries
    BY DEF IInv, Settling, Retry, RetryStream, NextAttempt, Spent
<1>2. /\ attempt' = attempt + 1 /\ previous' = chosen.channel /\ lastFailure' = attempt
      /\ benched' = NowBenched /\ refused' = NowRefused
      /\ stay' = IF HasFresh THEN [channel |-> chosen.channel, keys |-> chosen.keys] ELSE None
      /\ chosen' = NoChoice /\ status' = "none"
      /\ UNCHANGED <<requestVars, kind, answerVars, historyVars, routable, keys, edits, gone, cooling, lastResort,
                     passed, returned, charged>>
    BY DEF Retry, RetryStream, NextAttempt
<1>3. /\ attempt \in Attempts /\ attempt' \in Attempts /\ attempt < attempt' /\ attempt # attempt'
      /\ \A n \in Attempts : n > attempt <=> (n > attempt' \/ n = attempt')
      /\ \A n \in Attempts : n < attempt => n < attempt' /\ n # attempt
  <2>1. attempt \in Attempts /\ MaxRetries \in Nat
    BY <1>1, AttemptsAreNumbers DEF TypeOK, AttemptType
  <2> QED
    BY <1>1, <1>2, <2>1 DEF Attempts
<1>4. /\ chosen.channel \in Channels /\ chosen.channel \notin excluded /\ chosen.channel \in met
      /\ chosen.keys \subseteq KeysOf[chosen.channel] /\ chosen.key \in chosen.keys \cup {None}
      /\ chosen.keys \subseteq Keys /\ chosen.key \in Keys \cup {None} /\ lastFailure = None
      /\ streamFailure \in Attempts \cup {None} /\ (streamFailure # None => streamFailure < attempt)
    BY <1>1 DEF LoopInv, RouteInv, KeysInv, AttemptsInv, AtChannel, TypeOK, LoopType, AnswerType
<1>5. \/ /\ ~StreamFailed /\ UNCHANGED <<rows, streamFailure>>
         /\ excluded' = (IF Refusing THEN excluded \cup {chosen.channel} ELSE excluded)
         /\ rejected' = (IF Refusing THEN rejected \cup {chosen.channel} ELSE rejected)
      \/ /\ StreamFailed /\ streamFailure' = attempt /\ rejected' = rejected
         /\ excluded' = excluded \cup {chosen.channel}
         /\ rows' = (IF streamFailure # None THEN Settled(streamFailure, "attempt") ELSE rows)
    BY DEF Retry, RetryStream
<1>6. HasFresh => ~request.pinned /\ ~StreamFailed /\ ~Refusing
    BY DEF HasFresh, KeyRefused, StreamFailed, Refusing
<1>7. TypeOK'
  <2>1. benched' \subseteq Keys /\ refused' \subseteq Keys
    BY <1>1, <1>2 DEF TypeOK, RequestType, LoopType, AttemptType, NowBenched, NowRefused, KeyRefused
  <2>2. stay' \in Selections \cup {None}
    BY <1>2, <1>4 DEF Selections
  <2>3. chosen' \in [channel : Channels \cup {None}, keys : SUBSET Keys, key : Keys \cup {None}, stayed : BOOLEAN]
    BY <1>2 DEF NoChoice
  <2>4. rows' \in [Attempts -> {"none", "pending", "concluded", "attempt", "outcome"}]
    <3>1. rows \in [Attempts -> {"none", "pending", "concluded", "attempt", "outcome"}]
      BY <1>1 DEF TypeOK, AnswerType
    <3> QED
      BY <1>5, <3>1 DEF Settled
  <2>5. excluded' \subseteq Channels /\ rejected' \subseteq Channels
    BY <1>1, <1>4, <1>5 DEF TypeOK, LoopType, AttemptType
  <2>6. streamFailure' \in Attempts \cup {None}
    BY <1>3, <1>4, <1>5
  <2>7. RequestType'
    BY <1>1, <1>2, <2>1 DEF TypeOK, RequestType, requestVars
  <2>8. LoopType'
    BY <1>1, <1>2, <2>2, <2>3, <2>5 DEF TypeOK, LoopType
  <2>9. AttemptType'
    BY <1>1, <1>2, <1>3, <1>4, <2>1, <2>5 DEF TypeOK, AttemptType, historyVars
  <2>10. AnswerType'
    BY <1>1, <1>2, <1>3, <2>4, <2>6 DEF TypeOK, AnswerType, answerVars
  <2> QED
    BY <2>7, <2>8, <2>9, <2>10 DEF TypeOK
<1>8. LateInv' /\ ChargedInv' /\ ReturnedInv' /\ FinishingInv' /\ Unreturned' /\ EndInv'
  <2>1. late \in 0..2 /\ late <= 1 /\ late # 1
    BY <1>1 DEF IInv, LateInv, TypeOK, AttemptType
  <2>2. late = 0
    BY <2>1
  <2>3. Unreturned' /\ EndInv'
    BY <1>1, <1>2 DEF LoopInv, Unreturned, EndInv, answerVars
  <2> QED
    BY <1>1, <1>2, <2>2, <2>3 DEF LateInv, ChargedInv, RefusalsChargedFairly, ReturnedInv, FinishingInv,
          Unreturned, historyVars
<1>9. AttemptsInv'
  <2>1. streamFailure' # None => streamFailure' < attempt'
    BY <1>3, <1>4, <1>5
  <2>2. \A n \in Attempts : kind[n] = "none" <=> n > attempt
    BY <1>1, <1>3 DEF LoopInv, AttemptsInv, Answered
  <2>3. \A n \in Attempts : kind'[n] = "none" <=> (n > attempt' \/ n = attempt')
    BY <1>2, <1>3, <2>2
  <2> QED
    BY <1>1, <1>2, <1>3, <2>1, <2>3 DEF AttemptsInv, AtChannel, Answered
<1>10. RowsInv'
  <2>1. kind' = kind /\ lastFailure' = attempt /\ kind[attempt'] = "none" /\ kind[attempt] # "none"
    BY <1>1, <1>2, <1>3, <1>9, AttemptsAreNumbers DEF AttemptsInv, Answered, LoopInv, EndInv, StreamFailed
  <2>2. RowsInv /\ None \notin Attempts /\ rows \in [Attempts -> {"none", "pending", "concluded", "attempt", "outcome"}]
    BY <1>1, AttemptsAreNumbers DEF LoopInv, TypeOK, AnswerType
  <2>3. CASE rows' = rows /\ streamFailure' = streamFailure
    BY <1>3, <1>4, <2>1, <2>2, <2>3 DEF RowsInv, Held
  <2>4. CASE StreamFailed
    <3>1. streamFailure' = attempt /\ streamFailure # attempt
      BY <1>3, <1>4, <1>5, <2>4, AttemptsAreNumbers
    <3>2. CASE streamFailure # None
      <4>1. rows' = [rows EXCEPT ![streamFailure] = IF @ = "pending" THEN "attempt" ELSE @]
        BY <1>5, <2>4, <3>2 DEF Settled
      <4>2. kind[streamFailure] # "none"
        BY <1>1, <3>2 DEF LoopInv, HeadersInv
      <4> QED
        BY <1>3, <1>4, <2>1, <2>2, <3>1, <3>2, <4>1, <4>2 DEF RowsInv, Held
    <3>3. CASE streamFailure = None
      <4>1. rows' = rows
        BY <1>5, <2>4, <3>3
      <4> QED
        BY <1>3, <1>4, <2>1, <2>2, <3>1, <3>3, <4>1 DEF RowsInv, Held
    <3> QED
      BY <3>2, <3>3
  <2> QED
    BY <1>5, <2>3, <2>4
<1>11. HeadersInv'
  <2>1. headers' = headers /\ kind' = kind /\ HeadersInv /\ pc' \notin Answered
    BY <1>1, <1>2 DEF LoopInv, answerVars, Answered
  <2>2. StreamFailed => kind[attempt] \in {"failed stream", "forgotten"} /\ headers # None
    BY <1>1, <2>1 DEF StreamFailed, HeadersInv
  <2>3. CASE ~StreamFailed /\ streamFailure' = streamFailure
    BY <1>1, <2>1, <2>3 DEF HeadersInv
  <2>4. CASE StreamFailed /\ streamFailure' = attempt
    BY <1>1, <1>3, <2>1, <2>2, <2>4, AttemptsAreNumbers DEF HeadersInv
  <2> QED
    BY <1>5, <2>3, <2>4
<1>12. KeysInv'
  <2>1. \A k \in refused' : \E c \in met : k \in KeysOf[c]
    <3>1. refused' \subseteq refused \cup {k \in {chosen.key} : k # None}
      BY <1>2 DEF NowRefused, KeyRefused
    <3> QED
      BY <1>1, <1>4, <3>1 DEF LoopInv, KeysInv
  <2>2. stay' # None => stay'.keys \subseteq KeysOf[stay'.channel]
    BY <1>2, <1>4
  <2>3. keys' = keys /\ directSelection' = directSelection /\ met' = met /\ KeysInv
    BY <1>1, <1>2 DEF requestVars, historyVars, LoopInv
  <2> QED
    BY <1>1, <2>1, <2>2, <2>3 DEF KeysInv, AtChannel
<1>13. RouteInv'
  <2>1. RouteInv /\ met' = met /\ request' = request
    BY <1>1, <1>2 DEF LoopInv, requestVars, historyVars
  <2>2. rejected' \subseteq excluded' /\ excluded' \subseteq met
    BY <1>4, <1>5, <2>1 DEF RouteInv
  <2>3. HasFresh => excluded' = excluded
    BY <1>5, <1>6
  <2>4. stay' # None => stay'.channel \notin excluded' /\ ~request.pinned
    BY <1>2, <1>4, <1>6, <2>3
  <2> QED
    BY <1>1, <2>1, <2>2, <2>4 DEF RouteInv, AtChannel
<1>14. PinInv'
    BY <1>1, <1>2, <1>5 DEF LoopInv, PinInv, AtChannel, requestVars
<1>15. TurnedInv'
  <2>1. turned' = turned /\ request' = request /\ excluded \subseteq excluded' /\ refused \subseteq refused' /\ JustTurned' = {}
    BY <1>1, <1>2, <1>5 DEF NowRefused, requestVars, historyVars, JustTurned
  <2>2. ASSUME NEW x \in JustTurned
        PROVE  x[1] \in excluded' \/ (~request.pinned /\ x[2] \in refused')
    <3>1. x = <<chosen.channel, chosen.key>> /\ kind[attempt] = "answer" /\ status \in {"denied", "bad"}
      BY <2>2 DEF JustTurned
    <3>2. ~StreamFailed
      BY <3>1 DEF StreamFailed
    <3>3. CASE HasFresh
      <4>1. ~request.pinned /\ status # "limited" /\ KeyRefused
        BY <3>1, <3>3 DEF HasFresh
      <4>2. chosen.key \in refused'
        BY <1>2, <4>1 DEF NowRefused
      <4> QED
        BY <3>1, <4>1, <4>2
    <3>4. CASE ~HasFresh
      <4>1. Refusing
        BY <3>1, <3>2, <3>4 DEF Refusing
      <4> QED
        BY <1>5, <3>1, <3>2, <4>1
    <3> QED
      BY <3>3, <3>4
  <2>3. \A x \in turned \ JustTurned : x[1] \in excluded \/ (~request.pinned /\ x[2] \in refused)
    BY <1>1 DEF LoopInv, TurnedInv
  <2> QED
    BY <1>1, <2>1, <2>2, <2>3 DEF TurnedInv
<1> QED
    BY <1>1, <1>7, <1>8, <1>9, <1>10, <1>11, <1>12, <1>13, <1>14, <1>15 DEF IInv, LoopInv

(* The request enters the loop, at its named channel when it names one.     *)
LEMMA BeginKeeps ==
    ASSUME IInv, Begin
    PROVE  IInv'
<1>1. TypeOK /\ LoopInv /\ pc = "arrived" /\ pc' = "selecting"
    BY DEF IInv, Begin, Settling
<1>2. UNCHANGED <<envVars, attemptVars, loopVars, endVars, failureVars, answerVars, historyVars, request, chosen,
                  rows, returned, charged>>
    BY DEF Begin
<1>3. directSelection' = directSelection \/ directSelection' = None \/ \E c \in routable : directSelection' = SelectionOf(c)
    BY DEF Begin
<1>4. streamFailure = None /\ stay = None
  <2>1. streamFailure # None => streamFailure \in Attempts /\ streamFailure < 0
    BY <1>1 DEF TypeOK, AnswerType, LoopInv, AttemptsInv
  <2>2. \A n \in Attempts : ~(n < 0)
    BY DEF Attempts
  <2> QED
    BY <1>1, <2>1, <2>2 DEF LoopInv, RouteInv
<1>5. directSelection' \in Selections \cup {None} /\ (directSelection' # None => directSelection'.keys \subseteq KeysOf[directSelection'.channel])
  <2>1. CASE directSelection' = directSelection
    BY <1>1, <2>1 DEF TypeOK, RequestType, LoopInv, KeysInv
  <2>2. CASE directSelection' = None
    BY <2>2
  <2>3. ASSUME NEW c \in routable, directSelection' = SelectionOf(c)
        PROVE  directSelection' \in Selections /\ directSelection'.keys \subseteq KeysOf[directSelection'.channel]
    BY <1>1, <2>3 DEF SelectionOf, Selections, TypeOK, RequestType, LoopInv, KeysInv
  <2> QED
    BY <1>3, <2>1, <2>2, <2>3
<1>6. TypeOK'
  <2>1. RequestType' /\ LoopType'
    BY <1>1, <1>2, <1>5 DEF TypeOK, RequestType, LoopType, envVars, loopVars
  <2>2. AttemptType' /\ AnswerType'
    BY <1>1, <1>2 DEF TypeOK, AttemptType, AnswerType, attemptVars, historyVars, endVars, failureVars, answerVars
  <2> QED
    BY <2>1, <2>2 DEF TypeOK
<1>7. LateInv' /\ ChargedInv' /\ ReturnedInv' /\ FinishingInv'
    BY <1>1, <1>2 DEF IInv, LateInv, ChargedInv, RefusalsChargedFairly, ReturnedInv, FinishingInv,
                LoopInv, Unreturned, envVars, historyVars
<1>8. Unreturned' /\ AttemptsInv' /\ RowsInv' /\ EndInv' /\ HeadersInv'
    BY <1>1, <1>2 DEF LoopInv, Unreturned, AttemptsInv, RowsInv, Held, EndInv, HeadersInv, StreamFailed, Answered,
                AtChannel, attemptVars, endVars, failureVars, answerVars
<1>9. KeysInv' /\ RouteInv' /\ PinInv' /\ TurnedInv'
  <2>1. KeysInv'
    BY <1>1, <1>2, <1>4, <1>5 DEF LoopInv, KeysInv, AtChannel, envVars, attemptVars, loopVars, historyVars
  <2>2. RouteInv' /\ PinInv'
    BY <1>1, <1>2, <1>4 DEF LoopInv, RouteInv, PinInv, AtChannel, attemptVars, loopVars, historyVars, failureVars
  <2>3. TurnedInv'
    BY <1>1, <1>2 DEF LoopInv, TurnedInv, JustTurned, attemptVars, loopVars, historyVars
  <2> QED
    BY <2>1, <2>2, <2>3
<1> QED
    BY <1>1, <1>6, <1>7, <1>8, <1>9 DEF IInv, LoopInv, Settling

(* After the loop: the error or the answer is the client's, and the guard   *)
(* is claimed.                                                              *)
LEMMA HandlerKeeps ==
    ASSUME IInv, AnswerError \/ Deliver \/ Finish
    PROVE  IInv'
<1> USE DEF Settling
<1>1. TypeOK /\ pc \in Settling /\ pc' \in {"finishing", "done"} /\ ReturnedInv /\ FinishingInv
    BY DEF IInv, AnswerError, Deliver, Finish, HandlerDone
<1>2. UNCHANGED <<requestVars, envVars, attemptVars, loopVars, endVars, failureVars, historyVars, chosen, returned,
                  charged>>
    BY DEF AnswerError, Deliver, Finish, HandlerDone
<1>3. LateInv' /\ ChargedInv' /\ ReturnedInv'
    BY <1>1, <1>2 DEF IInv, LateInv, ChargedInv, RefusalsChargedFairly, ReturnedInv, envVars, historyVars, endVars
<1>4. RequestType' /\ LoopType' /\ AttemptType'
    BY <1>1, <1>2 DEF TypeOK, RequestType, LoopType, AttemptType, requestVars, envVars, attemptVars, loopVars,
          historyVars
<1>5. CASE AnswerError
  <2>1. /\ pc = "returned" /\ kind[returned] = "noAnswer" /\ guard' = "disarmed" /\ refusal' = "no answer"
        /\ UNCHANGED <<rows, headers, delivered>>
    BY <1>5 DEF AnswerError
  <2>2. FinishingInv'
    BY <1>1, <1>2, <2>1 DEF ReturnedInv, FinishingInv, OthersClosed, NothingAfterHeaders, endVars
  <2>3. AnswerType'
    BY <1>1, <1>2, <2>1 DEF TypeOK, AnswerType, endVars, failureVars
  <2> QED
    BY <1>1, <1>3, <1>4, <2>2, <2>3 DEF IInv, TypeOK
<1>6. CASE Deliver
  <2>1. /\ pc = "returned" /\ kind[returned] # "noAnswer" /\ guard' = "disarmed"
        /\ headers' = IF headers = None THEN returned ELSE headers
        /\ delivered' = returned /\ refusal' = refusal
        /\ rows' = [rows EXCEPT ![returned] = IF @ = "concluded" THEN "outcome" ELSE @]
    BY <1>6 DEF Deliver
  <2>2. returned \in Attempts /\ returned # None
    BY <1>1, <2>1 DEF ReturnedInv, TypeOK, AnswerType
  <2>3. rows \in [Attempts -> {"none", "pending", "concluded", "attempt", "outcome"}]
    BY <1>1 DEF TypeOK, AnswerType
  <2>4. rows'[returned] = "outcome"
    BY <1>1, <2>1, <2>2, <2>3 DEF ReturnedInv
  <2>5. OthersClosed'
    BY <1>1, <1>2, <2>1, <2>2, <2>3 DEF ReturnedInv, OthersClosed, endVars
  <2>6. NothingAfterHeaders'
    BY <1>1, <1>2, <2>1 DEF ReturnedInv, NothingAfterHeaders, endVars
  <2>7. FinishingInv'
    BY <1>1, <1>2, <2>1, <2>2, <2>4, <2>5, <2>6 DEF ReturnedInv, FinishingInv, endVars
  <2>8. rows' \in [Attempts -> {"none", "pending", "concluded", "attempt", "outcome"}]
    BY <2>1, <2>2, <2>3
  <2>9. AnswerType'
    BY <1>1, <1>2, <2>1, <2>2, <2>8 DEF TypeOK, AnswerType, endVars, failureVars
  <2> QED
    BY <1>1, <1>3, <1>4, <2>7, <2>9 DEF IInv, TypeOK
<1>7. CASE Finish
  <2>1. /\ pc = "finishing" /\ guard' = (IF guard = "armed" THEN "written" ELSE guard)
        /\ UNCHANGED <<rows, headers, delivered, refusal>>
    BY <1>7 DEF Finish
  <2>2. guard' = guard
    BY <1>1, <2>1 DEF FinishingInv
  <2>3. FinishingInv'
    BY <1>1, <1>2, <2>1, <2>2 DEF FinishingInv, OthersClosed, NothingAfterHeaders, endVars
  <2>4. AnswerType'
    BY <1>1, <1>2, <2>1, <2>2 DEF TypeOK, AnswerType, endVars, failureVars
  <2> QED
    BY <1>1, <1>3, <1>4, <2>3, <2>4 DEF IInv, TypeOK
<1> QED
    BY <1>5, <1>6, <1>7

(* What others do to the client, the keys and the channels meanwhile.       *)
LEMMA ElsewhereKeeps ==
    ASSUME IInv, ClientLeaves \/ KeysElsewhere \/ EditChannels
    PROVE  IInv'
<1>1. TypeOK /\ LoopInv /\ pc' = pc /\ pc \notin Settling
    BY DEF IInv, ClientLeaves, KeysElsewhere, EditChannels, ElsewhereAt, Settling
<1>2. UNCHANGED <<requestVars, attemptVars, loopVars, endVars, failureVars, answerVars, historyVars, pc, chosen, rows,
                  returned, charged>>
    BY DEF ClientLeaves, KeysElsewhere, EditChannels, ElsewhereAt
<1>3. gone => gone'
    BY DEF ClientLeaves, KeysElsewhere, EditChannels
<1>4. \A c \in Channels : keys'[c] \subseteq keys[c]
  <2>1. CASE keys' = keys
    BY <2>1
  <2>2. ASSUME NEW c \in Channels, NEW k \in keys[c], keys' = [keys EXCEPT ![c] = @ \ {k}]
        PROVE  \A d \in Channels : keys'[d] \subseteq keys[d]
    BY <1>1, <2>2 DEF TypeOK, RequestType
  <2> QED
    BY <2>1, <2>2 DEF ClientLeaves, KeysElsewhere, EditChannels
<1>5. RequestType'
  <2>1. CASE ClientLeaves
    BY <1>1, <1>2, <2>1 DEF ClientLeaves, TypeOK, RequestType, requestVars
  <2>2. CASE KeysElsewhere
    BY <1>1, <1>2, <2>2 DEF KeysElsewhere, TypeOK, RequestType, requestVars
  <2>3. CASE EditChannels
    <3>1. edits' \in 0..MaxEdits /\ benched' = benched /\ gone' = gone
      BY <1>1, <2>3, AttemptsAssumption DEF EditChannels, TypeOK, RequestType
    <3>2. routable' \subseteq Channels
      BY <1>1, <2>3 DEF EditChannels, TypeOK, RequestType
    <3>3. keys' \in [Channels -> SUBSET Keys]
      <4>1. CASE keys' = keys
        BY <1>1, <4>1 DEF TypeOK, RequestType
      <4>2. ASSUME NEW c \in Channels, NEW k \in keys[c], keys' = [keys EXCEPT ![c] = @ \ {k}]
            PROVE  keys' \in [Channels -> SUBSET Keys]
        BY <1>1, <4>2 DEF TypeOK, RequestType
      <4> QED
        BY <2>3, <4>1, <4>2 DEF EditChannels
    <3> QED
      BY <1>1, <1>2, <3>1, <3>2, <3>3 DEF TypeOK, RequestType, requestVars
  <2> QED
    BY <2>1, <2>2, <2>3
<1>6. TypeOK'
  <2>1. LoopType'
    BY <1>1, <1>2 DEF TypeOK, LoopType, loopVars
  <2>2. AttemptType'
    BY <1>1, <1>2 DEF TypeOK, AttemptType, attemptVars, historyVars
  <2>3. AnswerType'
    BY <1>1, <1>2 DEF TypeOK, AnswerType, endVars, failureVars, answerVars
  <2> QED
    BY <1>5, <2>1, <2>2, <2>3 DEF TypeOK
<1>7. LateInv' /\ ChargedInv' /\ ReturnedInv' /\ FinishingInv'
    BY <1>1, <1>2, <1>3 DEF IInv, LateInv, ChargedInv, RefusalsChargedFairly, ReturnedInv, FinishingInv, Settling,
          historyVars, endVars
<1>8. Unreturned' /\ AttemptsInv' /\ RowsInv' /\ EndInv' /\ HeadersInv'
    BY <1>1, <1>2 DEF LoopInv, Unreturned, AttemptsInv, RowsInv, Held, EndInv, HeadersInv, StreamFailed,
          attemptVars, endVars, failureVars, answerVars
<1>9. KeysInv'
  <2>1. KeysInv /\ UNCHANGED <<directSelection, stay, chosen, refused, met, pc>>
    BY <1>1, <1>2 DEF LoopInv, requestVars, loopVars, attemptVars, historyVars
  <2> QED
    BY <1>4, <2>1 DEF KeysInv
<1>10. RouteInv' /\ PinInv' /\ TurnedInv'
    BY <1>1, <1>2 DEF LoopInv, RouteInv, PinInv, TurnedInv, JustTurned, requestVars, attemptVars, loopVars, endVars,
          failureVars, historyVars
<1> QED
    BY <1>1, <1>6, <1>7, <1>8, <1>9, <1>10 DEF IInv, LoopInv

(* Nothing happens.                                                         *)
LEMMA StutterKeeps ==
    ASSUME IInv, UNCHANGED vars
    PROVE  IInv'
<1>1. UNCHANGED <<request, directSelection, routable, keys, edits, benched, gone, pc, attempt, previous, refused,
                  rejected, excluded, cooling, lastResort, stay, passed, chosen, kind, status, rows, lastFailure,
                  streamFailure, returned, guard, headers, delivered, refusal, charged, met, turned, late>>
    BY DEF vars, requestVars, envVars, attemptVars, loopVars, endVars, failureVars, answerVars, historyVars
<1>2. TypeOK' /\ LateInv' /\ ChargedInv' /\ ReturnedInv' /\ FinishingInv'
  <2>1. RequestType' /\ LoopType'
    BY <1>1 DEF IInv, TypeOK, RequestType, LoopType
  <2>2. AttemptType' /\ AnswerType'
    BY <1>1 DEF IInv, TypeOK, AttemptType, AnswerType
  <2>3. LateInv' /\ ChargedInv'
    BY <1>1 DEF IInv, LateInv, ChargedInv, RefusalsChargedFairly
  <2>4. ReturnedInv' /\ FinishingInv'
    BY <1>1 DEF IInv, ReturnedInv, FinishingInv, OthersClosed, NothingAfterHeaders
  <2> QED
    BY <2>1, <2>2, <2>3, <2>4 DEF TypeOK
<1>3. ASSUME pc \notin Settling PROVE LoopInv'
  <2>1. LoopInv
    BY <1>3 DEF IInv
  <2>2. Unreturned' /\ AttemptsInv' /\ RowsInv' /\ EndInv' /\ HeadersInv'
    BY <1>1, <2>1 DEF LoopInv, Unreturned, AttemptsInv, RowsInv, Held, EndInv, HeadersInv, StreamFailed
  <2>3. KeysInv' /\ RouteInv' /\ PinInv' /\ TurnedInv'
    BY <1>1, <2>1 DEF LoopInv, KeysInv, RouteInv, PinInv, TurnedInv, JustTurned
  <2> QED
    BY <2>2, <2>3 DEF LoopInv
<1> QED
    BY <1>1, <1>2, <1>3 DEF IInv

(* The invariant holds along every run.                                     *)
LEMMA NextIInv == IInv /\ [Next]_vars => IInv'
<1> SUFFICES ASSUME IInv, [Next]_vars PROVE IInv'
    OBVIOUS
<1>1. CASE HandlerStep
    BY <1>1, LoopExitsKeep, BeginKeeps, HandlerKeeps DEF HandlerStep
<1>2. CASE SelectPass
    BY <1>2, PassesKeep, LoopExitsKeep, ChooseKeeps DEF SelectPass
<1>3. CASE AttemptStep
    BY <1>3, LoopExitsKeep, ForwardKeeps, AnswersKeep, PrimingKeeps, SucceedKeeps, GiveUpKeeps, RetriesKeep
    DEF AttemptStep
<1>4. CASE SelectFails
    BY <1>4, LoopExitsKeep
<1>5. CASE ClientLeaves \/ KeysElsewhere \/ EditChannels
    BY <1>5, ElsewhereKeeps
<1>6. CASE UNCHANGED vars
    BY <1>6, StutterKeeps
<1> QED
    BY <1>1, <1>2, <1>3, <1>4, <1>5, <1>6 DEF Next, RequestStep

(* So it holds of every state of every run.                                 *)
LEMMA Inductive == Spec => []IInv
    BY InitIInv, NextIInv, PTL DEF Spec

(* Every variable has its type; at most MaxRetries + 1 attempts are made.   *)
THEOREM TypeCorrect == Spec => []TypeOK
<1>1. IInv => TypeOK
    BY DEF IInv
<1> QED
    BY <1>1, Inductive, PTL

(* Every attempt that was made is on a row when the request is over         *)
(* (proxy.go:573-587).                                                      *)
THEOREM AttemptsLogged == Spec => []EveryAttemptLogged
<1>1. IInv => EveryAttemptLogged
  <2> SUFFICES ASSUME IInv, pc = "done", NEW n \in Made PROVE rows[n] \in {"attempt", "outcome"}
    BY DEF EveryAttemptLogged
  <2>1. n \in Attempts /\ kind[n] # "none" /\ FinishingInv /\ n # None
    BY AttemptsAreNumbers DEF Made, IInv
  <2>2. OthersClosed /\ (returned # None => rows[returned] = "outcome")
    BY <2>1 DEF FinishingInv
  <2> QED
    BY <2>1, <2>2 DEF OthersClosed
<1> QED
    BY <1>1, Inductive, PTL

(* The rows that count say what the client received (proxy.go:522-536,      *)
(* 935-960).                                                                *)
THEOREM OutcomeIsReceived == Spec => []OutcomeIsTheAnswer
<1>1. IInv => OutcomeIsTheAnswer
  <2> SUFFICES ASSUME IInv, pc = "done" PROVE OutcomeIsTheAnswer
    BY DEF OutcomeIsTheAnswer
  <2>1. FinishingInv /\ OthersClosed /\ returned \in Attempts \cup {None} /\ None \notin Attempts
    BY AttemptsAreNumbers DEF IInv, FinishingInv, TypeOK, AnswerType
  <2> DEFINE counted == Outcomes \ {n \in Made \ {returned} : kind[n] = "forgotten"}
  <2>2. \A n \in Attempts \ {returned} : n \notin counted
    BY <2>1 DEF OthersClosed, Outcomes, Made
  <2>3. counted \subseteq Attempts
    BY DEF Outcomes
  <2>4. CASE returned = None
    BY <2>1, <2>2, <2>3, <2>4 DEF FinishingInv, OutcomeIsTheAnswer
  <2>5. CASE returned # None
    <3>1. returned \in counted
      BY <2>1, <2>5 DEF FinishingInv, Outcomes
    <3>2. counted = {returned}
      BY <2>2, <2>3, <3>1
    <3> QED
      BY <2>1, <2>5, <3>2 DEF FinishingInv, OutcomeIsTheAnswer
  <2> QED
    BY <2>4, <2>5
<1> QED
    BY <1>1, Inductive, PTL

(* Nothing but a body follows a held stream's headers (proxy.go:577-580,    *)
(* 855-858).                                                                *)
THEOREM NothingFollowsHeaders == Spec => []NothingAfterHeaders
<1>1. IInv => NothingAfterHeaders
  <2>1. ASSUME LoopInv PROVE NothingAfterHeaders
    BY <2>1 DEF LoopInv, Unreturned, NothingAfterHeaders
  <2>2. ASSUME pc = "returned", ReturnedInv PROVE NothingAfterHeaders
    BY <2>2 DEF ReturnedInv, NothingAfterHeaders
  <2> QED
    BY <2>1, <2>2 DEF IInv, FinishingInv, Settling
<1> QED
    BY <1>1, Inductive, PTL

(* A channel is charged for refusing a request only when another channel    *)
(* then served it (proxy.go:607-610, 826-832).                              *)
THEOREM RefusalsAreFair == Spec => []RefusalsChargedFairly
<1>1. IInv => RefusalsChargedFairly
    BY DEF IInv, ChargedInv
<1> QED
    BY <1>1, Inductive, PTL

(* No channel is asked in vain: not again with what it just refused, and at *)
(* most once for a client that has left (proxy.go:846-854).                 *)
THEOREM NobodyIsAskedInVain == Spec => NobodyAskedInVain
<1>1. IInv => NoAttemptsForNobody
    BY DEF IInv, LateInv, NoAttemptsForNobody
<1>2. IInv => (pc = "chosen" /\ pc' = "requesting" => <<chosen.channel, chosen.key>> \notin turned)
    BY DEF IInv, LoopInv, TurnedInv, Settling
<1>3. IInv /\ [Next]_vars
        => [pc = "chosen" /\ pc' = "requesting" => <<chosen.channel, chosen.key>> \notin turned]_vars
    BY <1>2
<1>4. Spec => [][Next]_vars
    BY DEF Spec
<1> QED
    BY <1>1, <1>3, <1>4, Inductive, PTL DEF NobodyAskedInVain, NotAskedAgain

(* A request is given up for want of channels only when it came to every    *)
(* channel it could be routed to (proxy.go:612-618, 654-658).               *)
THEOREM NoChannelIsLeftUntried == Spec => NoChannelLeftUntried
<1>1. ASSUME IInv, [Next]_vars, GivenUpForRoutes
      PROVE  routable \subseteq met
  <2>1. pc = "selecting" /\ pc' \in {"returned", "finishing"} /\ Candidates = {} /\ ~request.selector /\ streamFailure = None
    BY <1>1 DEF GivenUpForRoutes, Selecting
  <2>2. TypeOK /\ LoopInv
    BY <1>1, <2>1 DEF IInv, Settling
  <2>3. excluded \subseteq met
    BY <2>2 DEF LoopInv, RouteInv
  <2>4. stay = None /\ routable \ Exclusions = {}
    BY <2>1 DEF Candidates
  <2>5. lastResort \/ cooling = {}
    <3>1. \/ UseCooling \/ PinGone \/ CredentialsChanged \/ ExcludeSpent \/ Cool \/ Unprepared \/ RateLimited
          \/ Choose \/ NothingLeft \/ SelectFails
      BY <1>1, <2>1 DEF Next, RequestStep, HandlerStep, SelectPass, AttemptStep, RefuseEarly, Begin, AnswerError,
            Deliver, Finish, LeaveInBackoff, Forward, NoAnswer, Answer, Stream, Primed, PrimeFails, RememberFails,
            Succeed, GiveUp, Retry, RetryStream, ClientLeaves, KeysElsewhere, EditChannels, ElsewhereAt, vars
    <3>2. pc' # pc
      BY <2>1
    <3>3. ~(PinGone \/ CredentialsChanged \/ ExcludeSpent \/ Cool \/ Unprepared \/ RateLimited \/ Choose)
      BY <2>1 DEF PinGone, CredentialsChanged, ExcludeSpent, Cool, Unprepared, RateLimited, Choose
    <3>4. ~UseCooling
      BY <3>2 DEF UseCooling
    <3>5. CASE NothingLeft
      BY <3>5 DEF NothingLeft
    <3>6. CASE SelectFails
      <4>1. RefuseRequest("selection failed")
        BY <2>1, <3>6 DEF SelectFails, EndWithout
      <4> QED
        BY <1>1, <4>1 DEF RefuseRequest, GivenUpForRoutes
    <3> QED
      BY <3>1, <3>3, <3>4, <3>5, <3>6
  <2>6. Exclusions = excluded
    BY <2>5 DEF Exclusions
  <2> QED
    BY <2>3, <2>4, <2>6
<1>2. IInv /\ [Next]_vars => [GivenUpForRoutes => routable \subseteq met]_vars
    BY <1>1
<1>3. Spec => [][Next]_vars
    BY DEF Spec
<1> QED
    BY <1>2, <1>3, Inductive, PTL DEF NoChannelLeftUntried
=============================================================================

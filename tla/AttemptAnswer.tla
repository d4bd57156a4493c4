--------------------------- MODULE AttemptAnswer ----------------------------
(***************************************************************************)
(* The answer of one upstream attempt, from its first byte to the row in   *)
(* the log: a stream primed, delivered, drained or abandoned, or a body    *)
(* read whole and delivered. The client may leave, the channel's clock may *)
(* run out and the connection may drop at any time.                        *)
(*   proxy/ssestream.go, proxy/bufferedstream.go, proxy/client.go          *)
(*   (ProxyRequest after its headers), handlers/proxy.go (deliver).        *)
(* One read of the upstream and everything the code does with it up to the *)
(* next is one step: all of it runs in the handler's own goroutine.        *)
(***************************************************************************)
EXTENDS SSEObservation

CONSTANTS
    Answers,        \* sequences of lines an upstream may send
    MaxRead,        \* bound on the parts one read returns
    HoldLimit,      \* primeHoldBytes, in parts
    PromptEstimate  \* what estimateRequestTokens makes of the request

ASSUME AnswerAssumption ==
    /\ Answers \subseteq Seq(DOMAIN Lines \cup {""})
    /\ MaxRead \in Nat \ {0} /\ HoldLimit \in Nat /\ PromptEstimate \in Nat

VARIABLES
    bytes,      \* what the upstream has to send
    pos,        \* how much of it was read
    upstream,   \* "open", or how its body ended
    gone,       \* requestCtx.Err: the client has left
    expired,    \* attemptTimeout.expired
    status,     \* the upstream's status
    relayed,    \* the answer is a stream being relayed
    obs,        \* the observation
    pc,
    held,       \* what prime read and Read has not handed over
    heldErr,    \* sseStream.heldErr
    handed,     \* how much was handed to the client's writer
    remembered, \* whether the account of the answer's id was stored
    entry,      \* "pending", "retried" or, once logged, "none"
    rows,       \* the rows scheduled
    health,     \* what was recorded of the channel
    open        \* the gauge of streams being relayed

wireVars == <<bytes, pos, upstream, gone, expired, status, relayed>>
streamVars == <<obs, held, heldErr, handed, remembered>>
logVars == <<entry, rows, health>>
answerVars == <<wireVars, streamVars, logVars, pc, open>>

Received == SubSeq(bytes, 1, pos)
Good == status = "ok"

\* A 2xx event stream is relayed, held back at first on the paths that
\* generate text; everything else is read whole.
AnswerInit ==
    /\ \E lines \in Answers : bytes = Bytes(lines)
    /\ pos = 0 /\ upstream = "open" /\ gone = FALSE /\ expired = FALSE
    /\ \/ status = "ok" /\ pc \in {"prime", "deliver", "buffer"}
       \/ status \in {"refused", "fault"} /\ pc = "buffer"
    /\ obs = Unobserved
    /\ held = 0 /\ heldErr = "none" /\ handed = 0 /\ remembered = "no"
    /\ entry = "pending" /\ rows = <<>>
    /\ health = [charged |-> 0, credited |-> 0]
    /\ relayed = (pc # "buffer") /\ open = IF relayed THEN 1 ELSE 0
-----------------------------------------------------------------------------
(* One read: some bytes, and perhaps the body's end or an error with them. *)
(* The clock runs while a read waits, and may run out just as bytes come.  *)
Reads ==
    {r \in [n : 0..MaxRead, ends : {"open", "eof", "error"}, late : BOOLEAN] :
       /\ pos + r.n <= Len(bytes)
       /\ r.ends = "open" => r.n > 0
       /\ upstream # "open" => r.n = 0 /\ r.ends = upstream
       /\ r.late => upstream = "open" /\ r.ends # "eof"}

Chunk(r) == SubSeq(bytes, pos + 1, pos + r.n)

Receive(r) ==
    /\ pos' = pos + r.n /\ upstream' = r.ends /\ expired' = (expired \/ r.late)
    /\ UNCHANGED <<bytes, gone, status, relayed>>

\* The observation after a read; only an end, or any error for prime, finishes it.
After(r, finishing) ==
    LET o == ObserveChunk(obs, Chunk(r))
    IN  IF r.ends \in finishing THEN FinishObservation(o) ELSE o
-----------------------------------------------------------------------------
(* How a stream's row is written: once, by whoever comes first.            *)
Estimated(counts, text) ==
    LET prompt == IF counts.prompt = 0 THEN PromptEstimate ELSE counts.prompt
        completion == IF counts.completion > text THEN counts.completion ELSE text
    IN  [prompt |-> prompt, completion |-> completion, total |-> SumTokenParts(prompt, completion)]

Row(code, o) ==
    LET ended == FinishObservation(o)
        counts == Counts(ended.usage)
    IN  [status |-> code, retried |-> entry = "retried", read |-> pos', left |-> gone,
         usage |-> IF code = "left" /\ ~ended.final THEN Estimated(counts, ended.text) ELSE counts]

FinishLog(code, o, charged, credited) ==
    IF entry = "none" THEN UNCHANGED logVars
    ELSE /\ rows' = Append(rows, Row(code, o))
         /\ entry' = "none"
         /\ health' = [charged |-> health.charged + charged, credited |-> health.credited + credited]

\* Mutant: the channel is credited outside the guard.
FinishCompleteTwice(o) ==
    LET ended == FinishObservation(o)
    IN  IF ended.error # "none" THEN FinishLog("failed", o, IF ended.error = "channel" THEN 1 ELSE 0, 0)
        ELSE /\ health' = [health EXCEPT !.credited = @ + 1] /\ entry' = "none"
             /\ rows' = IF entry = "none" THEN rows ELSE Append(rows, Row("ok", o))

\* A stream that ended on an error event failed, though it began as a 200.
FinishComplete(o) ==
    LET ended == FinishObservation(o)
    IN  IF ended.error # "none" THEN FinishLog("failed", o, IF ended.error = "channel" THEN 1 ELSE 0, 0)
        ELSE FinishLog("ok", o, 0, 1)

\* A client that left is not the channel's failure, a silent channel is.
FinishInterrupted(o) ==
    IF expired' THEN FinishLog("timeout", o, 1, 0)
    ELSE IF gone THEN FinishLog("left", o, 0, 0)
    ELSE FinishLog("failed", o, 1, 0)

FinishRead(o, ends) ==
    CASE ends = "eof" -> FinishComplete(o)
      [] ends = "open" -> UNCHANGED logVars
      [] OTHER -> FinishInterrupted(o)

\* remember: before any bytes with the answer's id reach the client.
ToRemember(o) == remembered = "no" /\ o.id
RememberFails(o) ==
    /\ ToRemember(o)
    /\ FinishLog("unremembered", o, 0, 0)
    /\ remembered' = "failed"
Remembers(o) == remembered' = IF ToRemember(o) THEN "yes" ELSE remembered
-----------------------------------------------------------------------------
(* prime: read ahead until the stream shows content.                       *)
Prime ==
    /\ pc = "prime"
    /\ \E r \in Reads :
         LET o == After(r, {"eof", "error"})
             ready == o.first \/ (o.error = "none" /\ (o.seen \/ (r.ends = "open" /\ held + r.n > HoldLimit)))
             failed == ~o.first /\ (o.error # "none" \/ (~o.seen /\ r.ends # "open"))
         IN  /\ Receive(r) /\ obs' = o
             /\ \/ /\ RememberFails(o)
                   /\ held' = 0 /\ heldErr' = "error" /\ pc' = "failed"
                \/ /\ Remembers(o)
                   /\ held' = held + r.n
                   /\ heldErr' = IF r.ends = "open" THEN "none" ELSE r.ends
                   /\ pc' = IF ready THEN "deliver" ELSE IF failed THEN "failed" ELSE "prime"
                   /\ UNCHANGED logVars
             /\ UNCHANGED <<handed, open>>

\* With no channel left to try, the failed stream is the answer.
DeliverFailed ==
    /\ pc = "failed" /\ pc' = "deliver"
    /\ UNCHANGED <<wireVars, streamVars, logVars, open>>

\* abandon: another attempt replaces this one.
MarkRetried ==
    /\ pc = "failed"
    /\ entry' = IF entry = "none" THEN "none" ELSE "retried"
    /\ pc' = "abandon"
    /\ UNCHANGED <<wireVars, streamVars, rows, health, open>>

Abandon ==
    /\ pc = "abandon" /\ UNCHANGED <<wireVars, streamVars, open>>
    /\ IF obs.error # "none" THEN FinishComplete(obs)
       ELSE IF heldErr = "error" THEN FinishInterrupted(obs)
       ELSE FinishLog("failed", obs, 1, 0)
    /\ pc' = "close"
-----------------------------------------------------------------------------
(* deliver: Read and write until either fails.                             *)
ReadHeld ==
    /\ pc = "deliver" /\ held > 0
    /\ UNCHANGED <<wireVars, obs, heldErr, remembered, open, pc>>
    /\ \E n \in 1..held :
         /\ held' = held - n /\ handed' = handed + n
         /\ IF n = held /\ obs.seen THEN FinishComplete(obs) ELSE UNCHANGED logVars

ReadHeldErr ==
    /\ pc = "deliver" /\ held = 0 /\ heldErr # "none"
    /\ UNCHANGED <<wireVars, streamVars, open>>
    /\ FinishRead(obs, heldErr)
    /\ pc' = "close"

ReadUpstream ==
    /\ pc = "deliver" /\ held = 0 /\ heldErr = "none"
    /\ \E r \in Reads :
         LET o == After(r, {"eof"})
         IN  /\ Receive(r) /\ obs' = o
             /\ \/ /\ RememberFails(o)
                   /\ pc' = "close" /\ UNCHANGED handed
                \/ /\ Remembers(o)
                   /\ IF o.seen THEN FinishComplete(o) ELSE FinishRead(o, r.ends)
                   /\ handed' = handed + r.n
                   /\ pc' = IF r.ends = "open" THEN "deliver" ELSE "close"
    /\ UNCHANGED <<held, heldErr, open>>

\* A write fails once the client has left.
WriteFails ==
    /\ pc = "deliver" /\ gone /\ pc' = "close"
    /\ UNCHANGED <<wireVars, streamVars, logVars, open>>
-----------------------------------------------------------------------------
(* Close.                                                                  *)
Close ==
    /\ pc = "close"
    /\ pc' = IF entry # "none" /\ ~obs.seen /\ ~obs.pending THEN "drain" ELSE "settle"
    /\ UNCHANGED <<wireVars, streamVars, logVars, open>>

\* Until the terminal event, an error, or the grace is over, which cancels the read.
Drain ==
    /\ pc = "drain"
    /\ \E r \in Reads :
         /\ Receive(r) /\ obs' = After(r, {})
         /\ pc' = IF r.ends # "open" \/ obs'.seen THEN "drained" ELSE "drain"
    /\ UNCHANGED <<held, heldErr, handed, remembered, logVars, open>>

\* A stream whose terminal event arrived before it was abandoned is complete.
Settle ==
    /\ pc \in {"settle", "drained"} /\ UNCHANGED <<wireVars, held, heldErr, handed, remembered>>
    /\ obs' = IF entry = "none" THEN obs ELSE FinishObservation(obs)
    /\ IF pc = "settle" /\ obs'.seen THEN FinishComplete(obs) ELSE FinishLog("left", obs, 0, 0)
    /\ open' = open - 1
    /\ pc' = "closed"
-----------------------------------------------------------------------------
(* A body read whole, and its row.                                         *)

\* Without an answer, the caller decides whether another attempt follows.
NoAnswer(code) ==
    /\ \E retried \in BOOLEAN :
         rows' = Append(rows, [status |-> code, retried |-> retried, read |-> pos', left |-> gone,
                               usage |-> Counts(NoUsage)])
    /\ entry' = "none" /\ pc' = "closed"

\* How a body read to its end is scored.
BodyHealth(o) ==
    IF Good /\ o.error # "none" THEN [charged |-> IF o.error = "channel" THEN 1 ELSE 0, credited |-> 0]
    ELSE [charged |-> IF status = "fault" THEN 1 ELSE 0, credited |-> IF Good THEN 1 ELSE 0]

BufferBody ==
    /\ pc = "buffer" /\ UNCHANGED <<held, heldErr, handed, open>>
    /\ \E r \in Reads :
         LET o == After(r, {"eof"})
         IN  /\ Receive(r) /\ obs' = o
             /\ CASE r.ends = "open" -> UNCHANGED <<logVars, pc, remembered>>
                  [] r.ends = "error" ->
                       LET left == gone /\ ~expired'
                       IN  /\ NoAnswer(IF left THEN "left" ELSE IF expired' THEN "timeout" ELSE "failed")
                           /\ health' = [health EXCEPT !.charged = IF left THEN 0 ELSE 1]
                           /\ UNCHANGED remembered
                  [] OTHER ->
                       /\ health' = BodyHealth(o)
                       /\ \/ /\ Good /\ ToRemember(o) /\ remembered' = "failed"
                             /\ NoAnswer("unremembered")
                          \/ /\ IF Good THEN Remembers(o) ELSE UNCHANGED remembered
                             /\ pc' = "answered" /\ UNCHANGED <<entry, rows>>

\* markRetried, and the body is closed.
RetryBuffered ==
    /\ pc = "answered" /\ ~Good /\ entry = "pending"
    /\ entry' = "retried"
    /\ UNCHANGED <<wireVars, streamVars, rows, health, open, pc>>

\* bufferedStream.Close: delivered, or what the channel did for a retried one.
CloseBuffered ==
    /\ pc = "answered" /\ UNCHANGED <<wireVars, streamVars, health, open>>
    /\ LET answered == IF Good /\ obs.error # "none" THEN "failed" ELSE status
       IN  rows' = Append(rows,
             [status |-> IF entry # "retried" /\ gone THEN "left" ELSE answered,
              retried |-> entry = "retried", read |-> pos, left |-> gone,
              usage |-> ExtractUsage(Received)])
    /\ entry' = "none" /\ pc' = "closed"
-----------------------------------------------------------------------------
Leave ==
    /\ ~gone /\ pc # "closed" /\ gone' = TRUE
    /\ UNCHANGED <<bytes, pos, upstream, expired, status, relayed, streamVars, logVars, pc, open>>

AnswerNext ==
    \/ Prime \/ DeliverFailed \/ MarkRetried \/ Abandon
    \/ ReadHeld \/ ReadHeldErr \/ ReadUpstream \/ WriteFails
    \/ Close \/ Drain \/ Settle
    \/ BufferBody \/ RetryBuffered \/ CloseBuffered
    \/ Leave

AnswerSpec == AnswerInit /\ [][AnswerNext]_answerVars
-----------------------------------------------------------------------------
(* Every variable has its shape; what is held back and what was handed     *)
(* over is what was read, and nothing is kept past the longest line.       *)
AnswerTypeOK ==
    /\ pos \in 0..Len(bytes) /\ upstream \in {"open", "eof", "error"}
    /\ status \in {"ok", "refused", "fault"} /\ relayed => Good
    /\ pc \in {"prime", "deliver", "failed", "abandon", "close", "drain", "settle", "drained",
               "buffer", "answered", "closed"}
    /\ held + handed <= pos
    /\ heldErr \in {"none", "eof", "error"} /\ remembered \in {"no", "yes", "failed"}
    /\ entry \in {"pending", "retried", "none"} /\ (entry = "none" <=> rows # <<>>)
    /\ Len(obs.buf) <= MaxLine /\ Len(obs.tail) <= TailSize /\ ~(obs.seen /\ obs.pending)
    /\ open = IF relayed /\ pc # "closed" THEN 1 ELSE 0

\* A terminal event closed by its blank line.
EndedInFull(run) ==
    \E i, j \in DOMAIN Segments(run) :
      i < j /\ Facts(run)[i].terminal /\ Segments(run)[j] = [text |-> <<>>, complete |-> TRUE]

(* An attempt's answer leaves one row and scores its channel at most once, *)
(* whichever comes first of its terminal event, its end, the channel's     *)
(* clock, a lost connection and the client leaving: complete if its end    *)
(* came and told no error; the client's doing only if it left before it    *)
(* was handed the end, and then nobody's charge; the channel's charge only *)
(* for a failure of its own (proxy/ssestream.go:38-46, 295-362).           *)
EndsAsItWas ==
    pc = "closed" =>
      /\ Len(rows) = 1 /\ health.charged + health.credited <= 1
      /\ LET row == rows[1]
             read == SubSeq(bytes, 1, row.read)
             ownFault == \/ status = "fault" \/ ErrorOf(read) = "channel" \/ row.status = "timeout"
                         \/ upstream = "error" /\ ~row.left
                         \/ upstream = "eof" /\ row.retried
         IN  /\ health.charged = 1 => ownFault
             /\ row.status = "ok" => /\ Ended(read) \/ upstream = "eof"
                                     /\ ErrorOf(read) = "none" /\ health.credited = 1
             /\ row.status = "left" => row.left
             /\ relayed /\ row.status = "left" =>
                  /\ health.charged + health.credited = 0
                  /\ ~EndedInFull(SubSeq(bytes, 1, handed))
             /\ relayed /\ EndedInFull(read) /\ ErrorOf(read) = "none" => row.status \notin {"failed", "timeout"}
             /\ relayed /\ row.status = "failed" /\ ErrorOf(read) = "channel" => health.charged = 1

(* The usage a stream is billed is all the upstream reported in what was   *)
(* read of it, however reads cut its lines, in an event too long to keep   *)
(* or in one without its end; a client that left before the final report   *)
(* is billed no less than what was said so far                             *)
(* (proxy/sse.go:322-329, 700-706; proxy/ssestream.go:389-392).            *)
UsageIsWhatWasSaid ==
    relayed => \A i \in DOMAIN rows :
      LET read == SubSeq(bytes, 1, rows[i].read)
          said == Reported(read)
      IN  rows[i].usage = IF rows[i].status = "left" /\ ~FinalReported(read)
                          THEN Estimated(said, TextOf(read)) ELSE said

(* What the account of an attempt says is what its answer was: once, with  *)
(* the end it had, and with the usage it told                              *)
(* (proxy/ssestream.go:295-392).                                           *)
AccountIsTheAnswer == EndsAsItWas /\ UsageIsWhatWasSaid
=============================================================================

--------------------------- MODULE SSEObservation ---------------------------
(***************************************************************************)
(* What a stream of server-sent events reveals as its bytes pass through:  *)
(* lines cut anywhere between two reads, lines too long to keep, a final   *)
(* line without its end.                                                   *)
(*   proxy/sse.go; estimates of proxy/estimate.go.                         *)
(* A line is a name with a size; its bytes are its parts, in order, and a  *)
(* line break follows. Half a line parses as nothing.                      *)
(***************************************************************************)
EXTENDS Integers, Sequences, SequencesExt

CONSTANTS
    Lines,      \* what each line says: [name -> LineFacts]
    MaxLine,    \* maxSSEEventBytes, in parts
    TailSize,   \* overflowTailBytes, in parts
    MaxCount    \* the largest int32

\* The fields of a usage object, 0 for one it leaves out: OpenAI's prompt
\* includes the cache, Anthropic's input does not.
UsageFields == [prompt : Nat, input : Nat, output : Nat, cacheRead : Nat, cacheNew : Nat, total : Nat]

\* usageAt: the part its usage starts at; placeholder: message_start, whose
\* output is no count.
LineFacts ==
    [size : Nat \ {0}, visible : BOOLEAN, terminal : BOOLEAN, id : BOOLEAN,
     usage : UsageFields, usageAt : Nat, placeholder : BOOLEAN,
     error : {"none", "request", "channel"}, text : Nat]

ASSUME ObservationAssumption ==
    /\ Lines \in [DOMAIN Lines -> LineFacts]
    /\ MaxLine \in Nat \ {0} /\ TailSize \in Nat \ {0} /\ TailSize <= MaxLine
    /\ MaxCount \in Nat

LineBreak == <<"line break", 0>>
Parts(line) == [k \in 1..Lines[line].size |-> <<line, k>>]

\* The bytes of a sequence of lines; "" is a blank one.
Bytes(lines) ==
    FlattenSeq([i \in DOMAIN lines |->
                  IF lines[i] = "" THEN <<LineBreak>> ELSE Append(Parts(lines[i]), LineBreak)])
-----------------------------------------------------------------------------
NoUsage == [prompt |-> 0, input |-> 0, output |-> 0, cacheRead |-> 0, cacheNew |-> 0, total |-> 0]
Nothing == [size |-> 1, visible |-> FALSE, terminal |-> FALSE, id |-> FALSE, usage |-> NoUsage,
            usageAt |-> 0, placeholder |-> FALSE, error |-> "none", text |-> 0]

Parsed(text) ==
    IF text # <<>> /\ text = Parts(text[1][1]) THEN Lines[text[1][1]] ELSE Nothing

\* usageReport.add: a field a later report repeats wins, one it omits stays.
Merge(usage, more) ==
    [f \in DOMAIN usage |-> IF more[f] = 0 THEN usage[f] ELSE more[f]]

\* sumTokenParts: a sum that does not fit is no count.
SumTokenParts(a, b) == IF a + b > MaxCount THEN 0 ELSE a + b

IsAnthropicStyle(usage) ==
    usage.prompt = 0 /\ (usage.cacheRead # 0 \/ (usage.cacheNew # 0 /\ usage.total = 0))

\* extractUsageValues, on the fields all reports left together.
Counts(usage) ==
    LET style == IsAnthropicStyle(usage)
        read == IF usage.prompt # 0 THEN usage.prompt ELSE usage.input
        whole == SumTokenParts(read, SumTokenParts(usage.cacheNew, usage.cacheRead))
        prompt == IF style /\ whole # 0 THEN whole ELSE read
    IN  [prompt |-> prompt, completion |-> usage.output,
         total |-> IF usage.total # 0 /\ (~style \/ prompt = 0 \/ usage.output = 0) THEN usage.total
                   ELSE SumTokenParts(prompt, usage.output)]

\* keepOverflowTail
Kept(text) == SubSeq(text, IF Len(text) > TailSize THEN Len(text) - TailSize + 1 ELSE 1, Len(text))

\* The usage at the end of a line too long to parse, if all of it is there.
TailUsage(tail) ==
    IF tail = <<>> THEN NoUsage
    ELSE LET line == Lines[Last(tail)[1]]
         IN  IF Last(tail)[2] = line.size /\ line.usageAt > line.size - Len(tail)
             THEN line.usage ELSE NoUsage
-----------------------------------------------------------------------------
Unobserved ==
    [buf |-> <<>>, overflow |-> FALSE, tail |-> <<>>, first |-> FALSE, pending |-> FALSE,
     seen |-> FALSE, id |-> FALSE, usage |-> NoUsage, final |-> FALSE, error |-> "none", text |-> 0]

\* A blank line closes an event: a terminal one has arrived in full.
ObserveBlank(o) == [o EXCEPT !.seen = @ \/ o.pending, !.pending = FALSE]

ObserveLine(o) ==
    LET line == Parsed(o.buf)
    IN  IF o.buf = <<>> THEN ObserveBlank(o)
        ELSE [o EXCEPT !.first = @ \/ line.visible,
                       !.pending = @ \/ (line.terminal /\ ~o.seen),
                       !.id = @ \/ line.id,
                       !.usage = Merge(@, line.usage),
                       !.final = @ \/ (line.usage # NoUsage /\ ~line.placeholder),
                       !.text = @ + line.text,
                       !.error = IF @ = "none" THEN line.error ELSE @]

ObserveOversizedTail(o) ==
    LET usage == TailUsage(o.tail)
    IN  [o EXCEPT !.usage = Merge(@, usage), !.final = @ \/ usage # NoUsage, !.tail = <<>>]

\* A buffered line, whole or too long, and the buffer cleared for the next.
ObserveBuffered(o) ==
    [(IF o.overflow THEN ObserveOversizedTail(o) ELSE ObserveLine(o))
       EXCEPT !.buf = <<>>, !.overflow = FALSE]

\* Mutant: what was buffered of a line too long is not part of its end.
BufferForgetsHead(o, text) ==
    IF o.overflow THEN [o EXCEPT !.tail = Kept(@ \o text)]
    ELSE IF Len(o.buf) + Len(text) <= MaxLine THEN [o EXCEPT !.buf = @ \o text]
    ELSE [o EXCEPT !.tail = Kept(text), !.buf = <<>>, !.overflow = TRUE]

\* Mutant: the bound is checked before the bytes are added.
BufferPastLimit(o, text) ==
    IF o.overflow THEN [o EXCEPT !.tail = Kept(@ \o text)]
    ELSE IF Len(o.buf) <= MaxLine THEN [o EXCEPT !.buf = @ \o text]
    ELSE [o EXCEPT !.tail = Kept(o.buf \o text), !.buf = <<>>, !.overflow = TRUE]

Buffer(o, text) ==
    IF o.overflow THEN [o EXCEPT !.tail = Kept(@ \o text)]
    ELSE IF Len(o.buf) + Len(text) <= MaxLine THEN [o EXCEPT !.buf = @ \o text]
    ELSE [o EXCEPT !.tail = Kept(o.buf \o text), !.buf = <<>>, !.overflow = TRUE]

\* A run of bytes split at its line breaks.
Segments(bytes) ==
    LET breaks == {i \in DOMAIN bytes : bytes[i] = LineBreak}
        complete == Cardinality(breaks)
        break(n) == CHOOSE i \in breaks : Cardinality({j \in breaks : j <= i}) = n
        from(n) == IF n = 1 THEN 1 ELSE break(n - 1) + 1
        rest == SubSeq(bytes, from(complete + 1), Len(bytes))
    IN  [n \in 1..complete |-> [text |-> SubSeq(bytes, from(n), break(n) - 1), complete |-> TRUE]]
        \o IF rest = <<>> THEN <<>> ELSE <<[text |-> rest, complete |-> FALSE]>>

ObserveSegment(o, segment) ==
    LET buffered == Buffer(o, segment.text)
    IN  IF segment.complete THEN ObserveBuffered(buffered) ELSE buffered

ObserveChunk(o, chunk) == FoldLeft(ObserveSegment, o, Segments(chunk))

\* finish: a partial line is read, and a pending terminal event counts.
FinishObservation(o) ==
    ObserveBlank(IF o.overflow \/ o.buf # <<>> THEN ObserveBuffered(o) ELSE o)
-----------------------------------------------------------------------------
(* The same said of a whole run of bytes, without reads.                   *)
Said(segment) ==
    IF Len(segment.text) <= MaxLine THEN Parsed(segment.text)
    ELSE [Nothing EXCEPT !.usage = TailUsage(Kept(segment.text))]

Facts(bytes) == LET segments == Segments(bytes) IN [i \in DOMAIN segments |-> Said(segments[i])]

\* ExtractUsage: every line counts, however long.
ExtractUsage(bytes) ==
    Counts(FoldLeft(LAMBDA usage, segment : Merge(usage, Parsed(segment.text).usage), NoUsage,
                    Segments(bytes)))

\* Each field as the last line that gives it says.
Reported(bytes) ==
    LET facts == Facts(bytes)
        given(f) == {i \in DOMAIN facts : facts[i].usage[f] # 0}
    IN  Counts([f \in DOMAIN NoUsage |-> IF given(f) = {} THEN 0 ELSE facts[Max(given(f))].usage[f]])
FinalReported(bytes) ==
    \E i \in DOMAIN Facts(bytes) : Facts(bytes)[i].usage # NoUsage /\ ~Facts(bytes)[i].placeholder
AddText(sum, line) == sum + line.text
TextOf(bytes) == FoldLeft(AddText, 0, Facts(bytes))
ErrorOf(bytes) ==
    LET facts == Facts(bytes)
        errors == {i \in DOMAIN facts : facts[i].error # "none"}
    IN  IF errors = {} THEN "none" ELSE facts[Min(errors)].error
Ended(bytes) == \E i \in DOMAIN Facts(bytes) : Facts(bytes)[i].terminal
=============================================================================

------------------------------ MODULE Routing ------------------------------
(***************************************************************************)
(* Which channel serves a request, draw after draw: the selection by group, *)
(* model, priority and weight inside one routing snapshot, for a request   *)
(* that rules out the channels that failed it, while the health of all of  *)
(* them moves.                                                             *)
(*   proxy/matcher.go, and its caller in handlers/proxy.go                 *)
(* The draw by weight is any channel that has some. What a snapshot holds  *)
(* against edits is ChannelCaches'.                                        *)
(***************************************************************************)
EXTENDS Integers, Sequences, FiniteSets, SequencesExt

CONSTANTS
    Snapshots,      \* routing tables: channel id -> its parsed row
    Asks,           \* requests: [selector, model, group], "" where absent
    Normal,         \* normalizeModelMatch, over the model names in use
    Starts,         \* pairs <<name, prefix>> of normalized names
    MaxTries,       \* bound on the attempts of the request
    MaxTurns        \* bound on changes of health

\* Rows are finitely many, under names of their own (a UNIQUE column).
ASSUME RoutingAssumption ==
    /\ \A s \in Snapshots : /\ IsFiniteSet(DOMAIN s)
                            /\ \A c, d \in DOMAIN s : s[c].name = s[d].name => c = d
                            /\ \A c \in DOMAIN s : s[c].priority \in Int
    /\ MaxTries \in Nat /\ MaxTurns \in Nat

VARIABLES
    snapshot,
    ask,
    ailing,         \* channels whose health leaves them no routing weight
    phase,          \* of the request: "select", "drawn", "tried", "ended"
    selected,       \* the Selection of the attempt under way
    excluded,       \* what the request has ruled out
    cooling,        \* channels whose keys all sit out
    lastResort,     \* nothing but those is left
    tried,          \* history: [upstream, out], out once it is ruled out
    revived,        \* history: channels that came back from no health
    turns

requestVars == <<phase, selected, excluded, cooling, lastResort, tried>>
routeVars == <<snapshot, ask, ailing, requestVars, revived, turns>>

NoSelection == [upstream |-> "", forwardModel |-> ""]

RoutingInit ==
    /\ snapshot \in Snapshots /\ ask \in Asks
    /\ ailing \in SUBSET DOMAIN snapshot
    /\ phase = "select" /\ selected = NoSelection
    /\ excluded = {} /\ cooling = {} /\ lastResort = FALSE
    /\ tried = <<>> /\ revived = {} /\ turns = 0
-----------------------------------------------------------------------------
\* The parsed mappings are a function of normalized names; "" is a mapping
\* whose value is not a string. The names keep their spelling.
Mapped(c) == Normal[ask.model] \in DOMAIN snapshot[c].mappings
NamedAs(c) == SelectSeq(snapshot[c].names, LAMBDA name : Normal[name] = Normal[ask.model])

ModelMatchScore(c) ==
    CASE ask.model = "" -> 0
      [] ask.model # "" /\ (Mapped(c) \/ NamedAs(c) # <<>>) -> 2
      [] OTHER -> IF \E p \in snapshot[c].prefixes : <<Normal[ask.model], p>> \in Starts THEN 1 ELSE 0

MatchesModel(c) == ask.model = "" \/ ModelMatchScore(c) > 0

ForwardModel(c) ==
    CASE ask.model # "" /\ Mapped(c) /\ snapshot[c].mappings[Normal[ask.model]] # "" ->
           snapshot[c].mappings[Normal[ask.model]]
      [] ask.model # "" /\ NamedAs(c) # <<>> /\ ~(Mapped(c) /\ snapshot[c].mappings[Normal[ask.model]] # "") ->
           Head(NamedAs(c))
      [] OTHER -> ask.model

NewSelection(c) == [upstream |-> c, forwardModel |-> ForwardModel(c)]

ServesGroup(c) == ask.group \in snapshot[c].groups

\* A selector is an id, or failing that a name. Weight and health do not count.
SelectDirect ==
    LET serves(c) == ServesGroup(c) /\ MatchesModel(c)
        byID == {c \in DOMAIN snapshot : c = ask.selector /\ serves(c)}
        byName == {c \in DOMAIN snapshot : snapshot[c].name = ask.selector /\ serves(c)}
    IN  IF byID # {} THEN byID ELSE byName

Best(candidates) ==
    IF ask.model = "" THEN candidates
    ELSE {c \in candidates : /\ ModelMatchScore(c) > 0
                             /\ \A d \in candidates : ModelMatchScore(d) <= ModelMatchScore(c)}

\* routingExclusions: those cooling sit out while others remain.
Excluding == IF lastResort THEN excluded ELSE excluded \cup cooling

\* Mutant: exclusion narrows what scoring has kept.
ScoreThenExclude == Best({c \in DOMAIN snapshot : ServesGroup(c)}) \ Excluding

\* Group, exclusion, score, in this order.
Candidates == Best({c \in DOMAIN snapshot : ServesGroup(c)} \ Excluding)

Weightless(c) == snapshot[c].weight = 0 \/ c \in ailing

\* The first priority that has any routing weight.
SelectWeightedByPriority(candidates) ==
    {c \in candidates : /\ ~Weightless(c)
                        /\ \A d \in candidates : Weightless(d) \/ snapshot[d].priority <= snapshot[c].priority}

SelectFromSnapshot ==
    IF ask.selector # "" THEN SelectDirect ELSE SelectWeightedByPriority(Candidates)
-----------------------------------------------------------------------------
\* What the caller may select: a direct selection is made once for the whole
\* request, whatever else changes, and given up once it is ruled out.
Selectable ==
    IF ask.selector # "" THEN {c \in SelectDirect : c \notin excluded} ELSE SelectFromSnapshot

Select(c) ==
    /\ phase = "select" /\ c \in Selectable
    /\ phase' = "drawn" /\ selected' = NewSelection(c)
    /\ UNCHANGED <<snapshot, ask, ailing, excluded, cooling, lastResort, tried, revived, turns>>

UseCoolingAfterAll ==
    /\ phase = "select" /\ Selectable = {}
    /\ ~lastResort /\ cooling # {} /\ lastResort' = TRUE
    /\ UNCHANGED <<snapshot, ask, ailing, phase, selected, excluded, cooling, tried, revived, turns>>

NoRoute ==
    /\ phase = "select" /\ Selectable = {}
    /\ lastResort \/ cooling = {}
    /\ phase' = "ended"
    /\ UNCHANGED <<snapshot, ask, ailing, selected, excluded, cooling, lastResort, tried, revived, turns>>

\* All keys that may still be asked sit out: the channel waits for the others.
KeysCool ==
    /\ phase = "drawn" /\ ~lastResort /\ ask.selector = ""
    /\ cooling' = cooling \cup {selected.upstream} /\ phase' = "select"
    /\ UNCHANGED <<snapshot, ask, ailing, selected, excluded, lastResort, tried, revived, turns>>

\* Its rate limit is full, its keys are spent or no request can be built for it.
PassedOver ==
    /\ phase = "drawn"
    /\ excluded' = excluded \cup {selected.upstream} /\ phase' = "select"
    /\ UNCHANGED <<snapshot, ask, ailing, selected, cooling, lastResort, tried, revived, turns>>

Attempt ==
    /\ phase = "drawn" /\ Len(tried) < MaxTries
    /\ phase' = "tried"
    /\ tried' = Append(tried, [upstream |-> selected.upstream, out |-> FALSE])
    /\ UNCHANGED <<snapshot, ask, ailing, selected, excluded, cooling, lastResort, revived, turns>>

\* A refusal rules the channel out; a fault of the channel does not.
AttemptFails(refused) ==
    /\ phase = "tried" /\ phase' = "select"
    /\ excluded' = IF refused THEN excluded \cup {selected.upstream} ELSE excluded
    /\ tried' = [tried EXCEPT ![Len(tried)].out = refused]
    /\ UNCHANGED <<snapshot, ask, ailing, selected, cooling, lastResort, revived, turns>>

\* Elsewhere, a failure takes the last health or time restores some.
HealthTurns(c) ==
    /\ phase # "ended" /\ turns < MaxTurns /\ turns' = turns + 1
    /\ ailing' = IF c \in ailing THEN ailing \ {c} ELSE ailing \cup {c}
    /\ revived' = IF c \in ailing THEN revived \cup {c} ELSE revived
    /\ UNCHANGED <<snapshot, ask, requestVars>>

RoutingNext ==
    \/ \E c \in DOMAIN snapshot : Select(c) \/ HealthTurns(c)
    \/ UseCoolingAfterAll \/ NoRoute \/ KeysCool \/ PassedOver \/ Attempt
    \/ \E refused \in BOOLEAN : AttemptFails(refused)
-----------------------------------------------------------------------------
RoutingTypeOK ==
    /\ snapshot \in Snapshots /\ ask \in Asks
    /\ phase \in {"select", "drawn", "tried", "ended"} /\ lastResort \in BOOLEAN
    /\ ailing \cup excluded \cup cooling \cup revived \subseteq DOMAIN snapshot
    /\ \A i \in DOMAIN tried : tried[i].upstream \in DOMAIN snapshot /\ tried[i].out \in BOOLEAN
    /\ turns \in 0..MaxTurns /\ Len(tried) <= MaxTries

(* The channels one request is given, in turn, are all of its token's group *)
(* and serve its model; one that refused it does not come again; a better   *)
(* match comes before a worse one, and among equals a higher priority       *)
(* before a lower one, unless the first one's keys sat out or its health    *)
(* only came back later. It is told there is no route only when the best    *)
(* matches it has not ruled out have no weight left.                        *)
(* (selectFromSnapshot: the order of its filters, against exclusions and a  *)
(* health that move between two draws)                                      *)
FailoverIsOrderly ==
    LET given(i) == tried[i].upstream
        left == {c \in DOMAIN snapshot : ServesGroup(c) /\ MatchesModel(c) /\ c \notin excluded}
    IN  /\ \A i \in DOMAIN tried : ServesGroup(given(i)) /\ MatchesModel(given(i))
        /\ \A j \in DOMAIN tried : \A i \in 1..(j - 1) :
              /\ tried[i].out => given(j) # given(i)
              /\ \/ ModelMatchScore(given(i)) > ModelMatchScore(given(j))
                 \/ given(j) \in cooling
                 \/ /\ ModelMatchScore(given(i)) = ModelMatchScore(given(j))
                    /\ \/ snapshot[given(i)].priority >= snapshot[given(j)].priority
                       \/ given(j) \in revived
        /\ phase = "ended" /\ ask.selector = "" =>
              \A c \in left : Weightless(c) \/ \E d \in left : ModelMatchScore(d) > ModelMatchScore(c)
=============================================================================

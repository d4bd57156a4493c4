------------------------------ MODULE Throttle ------------------------------
(***************************************************************************)
(* The throttle in front of admin verifications: a failure gate for remote *)
(* callers and one for the local machine, and a bounded map of the remote  *)
(* callers that have failed, each with its own growing delay.              *)
(*   authstate/throttle.go.                                                *)
(* Its two mutexes guard structures that are never compared, so one step   *)
(* visits both. A caller that was admitted is judged some time later.      *)
(***************************************************************************)
EXTENDS Integers, FiniteSets, FiniteSetsExt, TLC

CONSTANTS
    Clients, Kind,      \* callers, and "loopback", "remote" or "unknown" for each
    FreeAttempts, BaseBackoff, MaxBackoff, ClientResetAfter, MaxTracked,
    GlobalWindow, GlobalThreshold, GlobalCooldown,
    MaxVerifying,       \* bound on the callers admitted and not judged yet: in the slot, in
                        \* its queue or on their way to it
    MaxClock            \* bound on the clock

ASSUME ThrottleAssumption ==
    /\ IsFiniteSet(Clients) /\ Kind \in [Clients -> {"loopback", "remote", "unknown"}]
    /\ FreeAttempts \in Nat /\ BaseBackoff \in Nat \ {0}
    /\ MaxBackoff \in Nat \ {0} /\ ClientResetAfter \in Nat
    /\ MaxTracked \in Nat \ {0} /\ MaxVerifying \in Nat \ {0} /\ MaxClock \in Nat \ {0}
    /\ GlobalWindow \in Nat \ {0} /\ GlobalThreshold \in Nat \ {0}
    /\ GlobalCooldown \in Nat \ {0}

\* A streak is forgotten only long after its block is over; a cooldown is
\* shorter than the window it follows.
ASSUME BackoffAssumption ==
    /\ BaseBackoff <= MaxBackoff /\ MaxBackoff < ClientResetAfter
    /\ GlobalCooldown <= GlobalWindow

VARIABLES
    clock,      \* Throttle.now
    clients,    \* Throttle.clients
    gates,      \* Throttle.remote and Throttle.loopback
    verifying,  \* how many verifications each caller has been admitted to
    failed      \* how many failed at each gate, at each time of the last window

throttleVars == <<clock, clients, gates, verifying, failed>>

Gates == {"remote", "loopback"}

ThrottleInit ==
    /\ clock = 1
    /\ clients = <<>>
    /\ gates = [g \in Gates |-> [windowStart |-> 1, failures |-> 0, cooldownUntil |-> 0]]
    /\ verifying = [c \in Clients |-> 0]
    /\ failed = [g \in Gates |-> [t \in 1..MaxClock |-> 0]]
-----------------------------------------------------------------------------
\* Loopback callers count against a gate of their own.
GateFor(c) == IF Kind[c] = "loopback" THEN "loopback" ELSE "remote"

\* Only a remote caller with an address is tracked on its own.
Tracked(c) == Kind[c] = "remote"

Cooling(c) == clock < gates[GateFor(c)].cooldownUntil
Blocked(c) == Tracked(c) /\ c \in DOMAIN clients /\ clock < clients[c].blockedUntil

\* 0 while the caller is within its free attempts.
Backoff(failures) ==
    LET delay[n \in Nat] == IF n = 0 THEN BaseBackoff ELSE 2 * delay[n-1]
        wanted == delay[failures - FreeAttempts - 1]
    IN  IF failures <= FreeAttempts THEN 0
        ELSE IF wanted > MaxBackoff THEN MaxBackoff ELSE wanted

\* prune: a caller still penalised keeps its entry, however full the map is.
Pruned ==
    LET kept == {c \in DOMAIN clients : \/ clock - clients[c].lastFailure < ClientResetAfter
                                        \/ clock < clients[c].blockedUntil}
    IN  IF Cardinality(DOMAIN clients) < MaxTracked THEN clients
        ELSE [c \in kept |-> clients[c]]

Unmarked == [failures |-> 0, lastFailure |-> clock, blockedUntil |-> 0]

\* Mutant: a newcomer to a full map takes the room of the others.
NewcomerEvicts(c) ==
    IF c \in DOMAIN Pruned THEN Pruned
    ELSE IF Cardinality(DOMAIN Pruned) >= MaxTracked THEN c :> Unmarked
    ELSE Pruned @@ (c :> Unmarked)

\* A caller not tracked yet gets an entry only if there is room.
Enrolled(c) ==
    IF c \in DOMAIN Pruned \/ Cardinality(DOMAIN Pruned) >= MaxTracked THEN Pruned
    ELSE [d \in DOMAIN Pruned \cup {c} |-> IF d = c THEN Unmarked ELSE Pruned[d]]

\* A streak that was quiet long enough starts over.
Charged(state) ==
    LET failures == 1 + IF clock - state.lastFailure >= ClientResetAfter THEN 0 ELSE state.failures
    IN  [failures |-> failures, lastFailure |-> clock,
         blockedUntil |-> IF Backoff(failures) = 0 THEN 0 ELSE clock + Backoff(failures)]

\* Mutant: the threshold starts no cooldown.
GateOnlyCounts(gate) ==
    IF clock - gate.windowStart >= GlobalWindow \/ gate.failures + 1 >= GlobalThreshold
    THEN [gate EXCEPT !.windowStart = clock, !.failures = 0]
    ELSE [gate EXCEPT !.failures = @ + 1]

GateCharged(gate) ==
    LET counted == IF clock - gate.windowStart >= GlobalWindow
                   THEN [gate EXCEPT !.windowStart = clock, !.failures = 1]
                   ELSE [gate EXCEPT !.failures = @ + 1]
    IN  IF counted.failures >= GlobalThreshold
        THEN [windowStart |-> clock, failures |-> 0, cooldownUntil |-> clock + GlobalCooldown]
        ELSE counted
-----------------------------------------------------------------------------
Verifying == MapThenSumSet(LAMBDA c : verifying[c], Clients)

Admit(c) ==
    /\ Verifying < MaxVerifying
    /\ ~Cooling(c) /\ ~Blocked(c)
    /\ gates' = [gates EXCEPT ![GateFor(c)].cooldownUntil = 0]
    /\ verifying' = [verifying EXCEPT ![c] = @ + 1]
    /\ UNCHANGED <<clock, clients, failed>>

RecordFailure(c) ==
    /\ verifying[c] > 0
    /\ verifying' = [verifying EXCEPT ![c] = @ - 1]
    /\ gates' = [gates EXCEPT ![GateFor(c)] = GateCharged(@)]
    /\ failed' = [failed EXCEPT ![GateFor(c)][clock] = @ + 1]
    /\ clients' = IF ~Tracked(c) THEN clients
                  ELSE IF c \in DOMAIN Enrolled(c) THEN [Enrolled(c) EXCEPT ![c] = Charged(@)]
                  ELSE Enrolled(c)
    /\ UNCHANGED clock

RecordSuccess(c) ==
    /\ verifying[c] > 0
    /\ verifying' = [verifying EXCEPT ![c] = @ - 1]
    /\ clients' = IF Tracked(c) THEN [d \in DOMAIN clients \ {c} |-> clients[d]] ELSE clients
    /\ UNCHANGED <<clock, gates, failed>>

\* Refused by the queue, answered from the cache, or stopped by a rotation:
\* neither a failure nor a success.
Unjudged(c) ==
    /\ verifying[c] > 0
    /\ verifying' = [verifying EXCEPT ![c] = @ - 1]
    /\ UNCHANGED <<clock, clients, gates, failed>>

Tick ==
    /\ clock < MaxClock /\ clock' = clock + 1
    /\ failed' = [g \in Gates |-> [t \in 1..MaxClock |->
                    IF clock' - t < GlobalWindow THEN failed[g][t] ELSE 0]]
    /\ UNCHANGED <<clients, gates, verifying>>

ThrottleNext ==
    \/ \E c \in Clients : Admit(c) \/ RecordFailure(c) \/ RecordSuccess(c) \/ Unjudged(c)
    \/ Tick

ThrottleSpec == ThrottleInit /\ [][ThrottleNext]_throttleVars
-----------------------------------------------------------------------------
(* Every variable has its shape; the map of callers keeps its bound, and a *)
(* gate that reaches its threshold is closed, not left counting.           *)
ThrottleTypeOK ==
    /\ clock \in 1..MaxClock
    /\ DOMAIN clients \subseteq {c \in Clients : Tracked(c)}
    /\ Cardinality(DOMAIN clients) <= MaxTracked
    /\ \A c \in DOMAIN clients :
         clients[c] \in [failures : Nat \ {0}, lastFailure : 1..clock, blockedUntil : Nat]
    /\ gates \in [Gates -> [windowStart : 1..clock, failures : 0..GlobalThreshold-1,
                            cooldownUntil : Nat]]
    /\ verifying \in [Clients -> Nat] /\ Verifying <= MaxVerifying
    /\ failed \in [Gates -> [1..MaxClock -> Nat]]

\* However many addresses they come from, wrong tokens are verified at a
\* bounded rate. In any span as long as the gate's window there are so many
\* rounds, each of a threshold's failures and of those already admitted when it
\* is reached; a count that its window had just ended comes on top.
GuessesAreBounded ==
    LET rounds == (GlobalWindow - 1) \div GlobalCooldown + 1
    IN  \A g \in Gates :
          MapThenSumSet(LAMBDA t : failed[g][t], 1..clock)
            <= rounds * (GlobalThreshold + MaxVerifying - 1) + GlobalThreshold - 1

\* A caller that is being held back stays held back until its time is up,
\* whatever other callers do to the map, unless it proves a token.
KeepsPenalties ==
    \A c \in DOMAIN clients :
      clock < clients[c].blockedUntil =>
        \/ c \in DOMAIN clients' /\ clients'[c].blockedUntil >= clients[c].blockedUntil
        \/ RecordSuccess(c)

(* A guesser is held back alone and in a crowd: no step gives up a penalty  *)
(* before its time, or lets more wrong tokens be verified in the span of a  *)
(* gate's window than its rounds let through                                *)
(* (authstate/throttle.go:124-134, 253-260).                                *)
GuessersAreHeldBack == [][KeepsPenalties /\ GuessesAreBounded']_throttleVars
=============================================================================

---------------------------- MODULE HealthScores ----------------------------
(***************************************************************************)
(* The health score each channel is routed by: failures cost it, successes *)
(* and time restore it. Time is credited whenever somebody looks, and a    *)
(* channel back at full health is no longer kept.                          *)
(*   proxy/health.go                                                       *)
(***************************************************************************)
EXTENDS Integers, Functions

CONSTANTS
    Upstreams,
    MaxHealthScore,
    Policies,           \* AutoWeightPolicy: [penalty, credit, recovery, interval]
    MaxHealthNow        \* bound on the clock, in seconds

ASSUME HealthAssumption ==
    /\ MaxHealthScore \in Nat \ {0} /\ MaxHealthNow \in Nat
    /\ Policies \subseteq [penalty : Nat, credit : Nat, recovery : Nat, interval : Nat \ {0}]

VARIABLES
    policy,     \* what the settings say
    states,     \* a channel without an entry is in full health
    unread,     \* history: the same, had nobody but its attempts looked
    healthNow

healthVars == <<policy, states, unread, healthNow>>

HealthInit ==
    /\ policy \in Policies
    /\ states = <<>> /\ unread = <<>> /\ healthNow = 0
-----------------------------------------------------------------------------
\* Mutant: the seconds past the last whole interval are lost.
RecoverToNow(state) ==
    LET intervals == (healthNow - state.at) \div policy.interval
    IN  IF state.score >= MaxHealthScore \/ policy.recovery = 0 \/ intervals = 0 THEN state
        ELSE [score |-> IF state.score + policy.recovery * intervals > MaxHealthScore
                        THEN MaxHealthScore ELSE state.score + policy.recovery * intervals,
              at |-> healthNow]

\* recoverHealth: whole intervals are credited, the rest stays to be.
Recover(state) ==
    LET intervals == (healthNow - state.at) \div policy.interval
    IN  IF state.score >= MaxHealthScore \/ policy.recovery = 0 \/ intervals = 0 THEN state
        ELSE [score |-> IF state.score + policy.recovery * intervals > MaxHealthScore
                        THEN MaxHealthScore ELSE state.score + policy.recovery * intervals,
              at |-> state.at + policy.interval * intervals]

\* An entry at full health is dropped.
Keep(entries, u, state) ==
    IF state.score = MaxHealthScore THEN Restrict(entries, DOMAIN entries \ {u})
    ELSE [v \in DOMAIN entries \cup {u} |-> IF v = u THEN state ELSE entries[v]]

Entry(entries, u) ==
    Recover(IF u \in DOMAIN entries THEN entries[u] ELSE [score |-> MaxHealthScore, at |-> healthNow])

Failed(entries, u) ==
    LET state == Entry(entries, u)
        score == IF state.score > policy.penalty THEN state.score - policy.penalty ELSE 0
    IN  Keep(entries, u, [score |-> score, at |-> IF policy.penalty > 0 THEN healthNow ELSE state.at])

Succeeded(entries, u) ==
    LET state == Entry(entries, u)
        score == IF state.score + policy.credit > MaxHealthScore THEN MaxHealthScore
                 ELSE state.score + policy.credit
    IN  IF u \notin DOMAIN entries THEN entries
        ELSE Keep(entries, u, [score |-> score, at |-> IF score # state.score THEN healthNow ELSE state.at])

RecordFailure(u) ==
    /\ states' = Failed(states, u) /\ unread' = Failed(unread, u)
    /\ UNCHANGED <<policy, healthNow>>

RecordSuccess(u) ==
    /\ states' = Succeeded(states, u) /\ unread' = Succeeded(unread, u)
    /\ UNCHANGED <<policy, healthNow>>

\* Snapshot: routing, or the console, looks.
HealthSnapshot(u) ==
    /\ states' = IF u \in DOMAIN states THEN Keep(states, u, Recover(states[u])) ELSE states
    /\ UNCHANGED <<policy, unread, healthNow>>

\* Reset: the channel was re-enabled, or its automatic weight switched.
ResetHealth(u) ==
    /\ states' = Restrict(states, DOMAIN states \ {u})
    /\ unread' = Restrict(unread, DOMAIN unread \ {u})
    /\ UNCHANGED <<policy, healthNow>>

HealthTick ==
    /\ healthNow < MaxHealthNow /\ healthNow' = healthNow + 1
    /\ UNCHANGED <<policy, states, unread>>

HealthNext ==
    \/ \E u \in Upstreams : RecordFailure(u) \/ RecordSuccess(u) \/ HealthSnapshot(u) \/ ResetHealth(u)
    \/ HealthTick

HealthSpec == HealthInit /\ [][HealthNext]_healthVars
-----------------------------------------------------------------------------
(* A kept score is short of full and none is adjusted in the future.       *)
HealthTypeOK ==
    /\ policy \in Policies /\ healthNow \in 0..MaxHealthNow
    /\ \A entries \in {states, unread} :
         /\ DOMAIN entries \subseteq Upstreams
         /\ \A u \in DOMAIN entries : /\ entries[u].score \in 0..(MaxHealthScore - 1)
                                      /\ entries[u].at \in 0..healthNow

(* Health is earned by what the channel does and by time, never by being   *)
(* looked at: routing and the console read the scores at every request,    *)
(* and a channel stands where it would had nobody read                     *)
(* (proxy/health.go:68-88, 139-170).                                       *)
HealthIsEarned == \A u \in Upstreams : Entry(states, u).score = Entry(unread, u).score
=============================================================================

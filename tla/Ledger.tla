------------------------------- MODULE Ledger -------------------------------
(***************************************************************************)
(* What the quota accounting promises, whatever happens to the log rows    *)
(* that carry the usage: usage a request incurred is owed to its token's   *)
(* stored total until one commit moves it there, once and in full.         *)
(* Usage is never forgotten: only an operator's reset lowers a total, and  *)
(* nothing but a commit lowers a debt.                                     *)
(***************************************************************************)
EXTENDS Integers

CONSTANT Tokens

VARIABLES rows,     \* tokens whose row exists
          used,     \* used[t]: the stored total, api_tokens.used_tokens
          owed      \* owed[t]: incurred, not stored yet

ledgerVars == <<rows, used, owed>>

Init ==
    /\ rows = Tokens
    /\ used = [t \in Tokens |-> 0]
    /\ owed = [t \in Tokens |-> 0]

\* A finished attempt of t's request reports what it cost.
Incur(t) ==
    /\ owed' \in [Tokens -> Nat]
    /\ owed'[t] >= owed[t]
    /\ \A s \in Tokens \ {t} : owed'[s] = owed[s]
    /\ UNCHANGED <<rows, used>>

\* One transaction stores part of every token's debt. A token deleted in the
\* meantime has no total left to advance.
Commit ==
    /\ owed' \in [Tokens -> Nat]
    /\ \A t \in Tokens : owed'[t] <= owed[t]
    /\ used' = [t \in Tokens |->
                  IF t \in rows THEN used[t] + (owed[t] - owed'[t]) ELSE used[t]]
    /\ UNCHANGED rows

\* The operator hands the token a fresh budget.
Reset(t) ==
    /\ used' = [used EXCEPT ![t] = 0]
    /\ UNCHANGED <<rows, owed>>

Delete(t) ==
    /\ rows' = rows \ {t}
    /\ UNCHANGED <<used, owed>>

Next == Commit \/ \E t \in Tokens : Incur(t) \/ Reset(t) \/ Delete(t)

Spec == Init /\ [][Next]_ledgerVars
=============================================================================

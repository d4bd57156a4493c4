----------------------------- MODULE MCService -----------------------------
(* What runs beside the retry loop while the gateway serves: the answer of  *)
(* one attempt, the channels' health, the console's feed and its credential, *)
(* and the process itself. They share no state here, so a behaviour of the instance runs    *)
(* one of them and leaves the others as they started: every state of each   *)
(* of them is reached, and none of their products.                          *)
EXTENDS AttemptAnswer, HealthScores, ConsoleFeed, AdminAuth, Lifecycle, TLC

Line == [size |-> 1, visible |-> FALSE, terminal |-> FALSE, id |-> FALSE, usage |-> NoUsage,
         usageAt |-> 0, placeholder |-> FALSE, error |-> "none", text |-> 0]

\* Streams as three protocols send them, and a body that is not one.
MCLines == [
    start  |-> [Line EXCEPT !.id = TRUE, !.usage = [NoUsage EXCEPT !.input = 5, !.cacheRead = 2, !.output = 1],
                            !.usageAt = 1, !.placeholder = TRUE],
    delta  |-> [Line EXCEPT !.size = 2, !.visible = TRUE, !.text = 3],
    usage  |-> [Line EXCEPT !.usage = [NoUsage EXCEPT !.output = 9], !.usageAt = 1],
    image  |-> [Line EXCEPT !.size = 4, !.usage = [NoUsage EXCEPT !.prompt = 7, !.output = 8, !.total = 15], !.usageAt = 3],
    busy   |-> [Line EXCEPT !.terminal = TRUE, !.error = "channel"],
    tooBig |-> [Line EXCEPT !.error = "request"],
    done   |-> [Line EXCEPT !.terminal = TRUE]]

MCAnswers == {
    <<"start", "", "delta", "", "usage", "", "done", "">>,
    <<"delta", "", "image", "", "done", "">>,
    <<"start", "", "busy", "">>,
    <<"delta", "", "tooBig", "">>,
    <<"usage", "done">>}

\* A harsh policy, and a forgiving one.
MCPolicies == {[penalty |-> 2, credit |-> 1, recovery |-> 1, interval |-> 2],
               [penalty |-> 3, credit |-> 0, recovery |-> 2, interval |-> 3]}

\* One start each for the components that do not move.
OneAnswer == AnswerInit /\ bytes = Bytes(CHOOSE lines \in Answers : TRUE) /\ pc = "prime"
OnePolicy == HealthInit /\ policy = CHOOSE p \in Policies : TRUE

VARIABLE running
vars == <<running, answerVars, healthVars, feedVars, authVars, lifeVars>>

Init ==
    /\ FeedInit /\ AuthInit /\ LifeInit
    /\ \/ running = "answer" /\ AnswerInit /\ OnePolicy
       \/ running = "health" /\ OneAnswer /\ HealthInit
       \/ running \in {"feed", "auth", "life"} /\ OneAnswer /\ OnePolicy
Next ==
    \/ running = "answer" /\ AnswerNext /\ UNCHANGED <<running, healthVars, feedVars, authVars, lifeVars>>
    \/ running = "health" /\ HealthNext /\ UNCHANGED <<running, answerVars, feedVars, authVars, lifeVars>>
    \/ running = "feed" /\ FeedNext /\ UNCHANGED <<running, answerVars, healthVars, authVars, lifeVars>>
    \/ running = "auth" /\ AuthNext /\ UNCHANGED <<running, answerVars, healthVars, feedVars, lifeVars>>
    \/ running = "life" /\ LifeNext /\ UNCHANGED <<running, answerVars, healthVars, feedVars, authVars>>
Spec == Init /\ [][Next]_vars /\ FeedFairness /\ AuthFairness

(* Every variable of the components has its shape. *)
TypeOK == AnswerTypeOK /\ HealthTypeOK /\ FeedTypeOK /\ AuthTypeOK /\ LifeTypeOK
=============================================================================

--------------------------- MODULE ResponseRoutes ---------------------------
(***************************************************************************)
(* Which account a stored response belongs to. The response's ID is bound  *)
(* to the token, channel, key and credentials that made it before the      *)
(* client sees it, and a request that names the ID goes there or nowhere,  *)
(* while operators edit channels and delete tokens.                        *)
(*   handlers/response_routes.go, db/response.go, proxy/response.go,       *)
(*   handlers/proxy.go                                                     *)
(***************************************************************************)
EXTENDS Integers, FiniteSets

CONSTANTS
    Callers,        \* requests that may run at once
    Owners,         \* downstream tokens
    Channels0,      \* the channels at the start: id -> [header, keys]
    Accounts,       \* accounts at the providers, told apart by their credentials
    ResponseIds,
    MaxKeyRow,      \* bound on key rows
    MaxAccountEdits \* bound on what operators do

\* A channel signs in under its headers or under the rows of its keys.
SignInRows == [header : Accounts, keys : UNION {[rows -> Accounts] : rows \in SUBSET (1..(MaxKeyRow + MaxAccountEdits))}]

ASSUME ResponsesAssumption ==
    /\ "" \notin ResponseIds
    /\ MaxKeyRow \in Nat /\ MaxAccountEdits \in Nat
    /\ Channels0 \in [DOMAIN Channels0 -> SignInRows]

VARIABLES
    tokenRows,      \* rows of api_tokens
    channelRows,    \* rows of upstreams: [header, keys], key row -> account
    nextKey,        \* AUTOINCREMENT: a key row's ID is never given twice
    responseRoutes, \* rows: [token, id, channel, key, account]
    callers,
    made,           \* history: who made which response for whom
    delivered,      \* history: the stored responses clients were told of
    accountEdits

responseVars == <<tokenRows, channelRows, nextKey, responseRoutes, callers, made, delivered, accountEdits>>

NoRow == [token |-> "", id |-> "", channel |-> "", key |-> 0, account |-> ""]
Idle == [at |-> "idle", token |-> "", refers |-> "", stores |-> FALSE, route |-> NoRow, new |-> NoRow]

ResponsesInit ==
    /\ tokenRows = Owners /\ channelRows = Channels0 /\ nextKey = MaxKeyRow
    /\ responseRoutes = {} /\ callers = [r \in Callers |-> Idle]
    /\ made = {} /\ delivered = {} /\ accountEdits = 0
-----------------------------------------------------------------------------
At(r, place) == callers[r].at = place
GoOn(r, record) == callers' = [callers EXCEPT ![r] = record]

\* Only a POST to responses stores, and only unless it says store: false.
Arrive(r, token, refers, stores) ==
    /\ At(r, "idle") /\ token \in tokenRows
    /\ GoOn(r, [Idle EXCEPT !.at = "load", !.token = token, !.refers = refers, !.stores = stores])
    /\ UNCHANGED <<tokenRows, channelRows, nextKey, responseRoutes, made, delivered, accountEdits>>

\* GetResponseRoute, under the caller's own token.
LoadResponseRoute(r) ==
    LET found == {row \in responseRoutes : row.token = callers[r].token /\ row.id = callers[r].refers}
    IN  /\ At(r, "load")
        /\ \/ callers[r].refers = "" /\ GoOn(r, [callers[r] EXCEPT !.at = "choose"])
           \/ \E row \in found : GoOn(r, [callers[r] EXCEPT !.at = "choose", !.route = row])
           \/ callers[r].refers # "" /\ found = {} /\ GoOn(r, Idle)
        /\ UNCHANGED <<tokenRows, channelRows, nextKey, responseRoutes, made, delivered, accountEdits>>

\* What a channel's request signs in with, under one of its keys or its headers.
AccountOf(c, key) == IF key = 0 THEN channelRows[c].header ELSE channelRows[c].keys[key]

\* Mutant: the account behind the key is not compared.
PinnedAnyAccount(c, key, route) == c = route.channel /\ key = route.key

\* responseRouteSelector, responseRouteKey, and the digest of the credentials.
Pinned(c, key, route) ==
    c = route.channel /\ key = route.key /\ AccountOf(c, key) = route.account

MayUse(r, c, key) ==
    /\ IF DOMAIN channelRows[c].keys = {} THEN key = 0 ELSE key \in DOMAIN channelRows[c].keys
    /\ callers[r].route = NoRow \/ Pinned(c, key, callers[r].route)

Forward(r, c, key) ==
    /\ At(r, "choose") /\ MayUse(r, c, key)
    /\ GoOn(r, [callers[r] EXCEPT !.at = "sent",
                   !.new = [token |-> callers[r].token, id |-> "", channel |-> c, key |-> key,
                            account |-> AccountOf(c, key)]])
    /\ UNCHANGED <<tokenRows, channelRows, nextKey, responseRoutes, made, delivered, accountEdits>>

\* The pin is gone, or nothing is left to route to.
RefusePinned(r) ==
    /\ At(r, "choose")
    /\ \A c \in DOMAIN channelRows : \A key \in 0..(MaxKeyRow + MaxAccountEdits) : ~MayUse(r, c, key)
    /\ GoOn(r, Idle)
    /\ UNCHANGED <<tokenRows, channelRows, nextKey, responseRoutes, made, delivered, accountEdits>>

\* The provider answers under an ID of its own choosing.
ProviderAnswers(r, id) ==
    LET new == [callers[r].new EXCEPT !.id = id]
    IN  /\ At(r, "sent")
        /\ made' = made \cup {[token |-> new.token, id |-> id, account |-> new.account]}
        /\ GoOn(r, IF callers[r].stores THEN [callers[r] EXCEPT !.at = "remember", !.new = new] ELSE Idle)
        /\ UNCHANGED <<tokenRows, channelRows, nextKey, responseRoutes, delivered, accountEdits>>

\* Mutant: a row that exists is left as it is, whosever it is.
StorableOverOther(row) == row.token \in tokenRows /\ row.channel \in DOMAIN channelRows

\* The foreign keys, and the row that is there only if it is the same account's.
Storable(row) ==
    /\ row.token \in tokenRows /\ row.channel \in DOMAIN channelRows
    /\ \A old \in responseRoutes : old.token = row.token /\ old.id = row.id => old = row

Known(row) == \E old \in responseRoutes : old.token = row.token /\ old.id = row.id

\* StoreResponseRoute: before any of the answer that holds the ID goes out.
RememberResponse(r) ==
    LET row == callers[r].new
    IN  /\ At(r, "remember")
        /\ IF Storable(row)
           THEN /\ responseRoutes' = IF Known(row) THEN responseRoutes ELSE responseRoutes \cup {row}
                /\ GoOn(r, [callers[r] EXCEPT !.at = "deliver"])
           ELSE GoOn(r, Idle) /\ UNCHANGED responseRoutes
        /\ UNCHANGED <<tokenRows, channelRows, nextKey, made, delivered, accountEdits>>

DeliverResponse(r) ==
    /\ At(r, "deliver") /\ GoOn(r, Idle)
    /\ delivered' = delivered \cup {callers[r].new}
    /\ UNCHANGED <<tokenRows, channelRows, nextKey, responseRoutes, made, accountEdits>>

\* A failure, or a client that left.
GiveUpRequest(r) ==
    /\ callers[r].at \in {"choose", "sent", "remember", "deliver"} /\ GoOn(r, Idle)
    /\ UNCHANGED <<tokenRows, channelRows, nextKey, responseRoutes, made, delivered, accountEdits>>
-----------------------------------------------------------------------------
AccountEdited ==
    /\ accountEdits < MaxAccountEdits /\ accountEdits' = accountEdits + 1
    /\ UNCHANGED <<callers, made, delivered>>

\* A saved channel signs in to another account, under the same row of a key.
ChangeAccount(c, key, account) ==
    /\ AccountEdited
    /\ channelRows' = IF key = 0 THEN [channelRows EXCEPT ![c].header = account]
                   ELSE [channelRows EXCEPT ![c].keys[key] = account]
    /\ UNCHANGED <<tokenRows, nextKey, responseRoutes>>

\* The form's list replaces the keys: a new row, for an old one that is left
\* out or for none.
ReplaceKey(c, key, account) ==
    /\ AccountEdited /\ nextKey' = nextKey + 1
    /\ channelRows' = [channelRows EXCEPT ![c].keys =
           [k \in (DOMAIN @ \ {key}) \cup {nextKey + 1} |-> IF k = nextKey + 1 THEN account ELSE @[k]]]
    /\ UNCHANGED <<tokenRows, responseRoutes>>

RemoveChannel(c) ==
    /\ AccountEdited
    /\ channelRows' = [d \in DOMAIN channelRows \ {c} |-> channelRows[d]]
    /\ responseRoutes' = {row \in responseRoutes : row.channel # c}
    /\ UNCHANGED <<tokenRows, nextKey>>

RemoveToken(token) ==
    /\ AccountEdited /\ tokenRows' = tokenRows \ {token}
    /\ responseRoutes' = {row \in responseRoutes : row.token # token}
    /\ UNCHANGED <<channelRows, nextKey>>

OperatorEdits ==
    \/ \E c \in DOMAIN channelRows : RemoveChannel(c)
    \/ \E token \in tokenRows : RemoveToken(token)
    \/ \E c \in DOMAIN channelRows, account \in Accounts : \E key \in {0} \cup DOMAIN channelRows[c].keys :
         ChangeAccount(c, key, account) \/ ReplaceKey(c, key, account)

ResponsesNext ==
    \/ \E r \in Callers, token \in Owners, refers \in ResponseIds \cup {""}, stores \in BOOLEAN :
         Arrive(r, token, refers, stores)
    \/ \E r \in Callers :
         \/ LoadResponseRoute(r) \/ RefusePinned(r)
         \/ \E c \in DOMAIN channelRows : \E key \in {0} \cup DOMAIN channelRows[c].keys : Forward(r, c, key)
         \/ \E id \in ResponseIds : ProviderAnswers(r, id)
         \/ RememberResponse(r) \/ DeliverResponse(r) \/ GiveUpRequest(r)
    \/ OperatorEdits

ResponsesSpec == ResponsesInit /\ [][ResponsesNext]_responseVars
-----------------------------------------------------------------------------
ResponsesTypeOK ==
    /\ tokenRows \subseteq Owners /\ DOMAIN channelRows \subseteq DOMAIN Channels0
    /\ \A row \in responseRoutes \cup delivered :
         row.id \in ResponseIds /\ row.token \in Owners /\ row.account \in Accounts
    /\ \A r \in Callers : callers[r].at \in {"idle", "load", "choose", "sent", "remember", "deliver"}
    /\ nextKey \in MaxKeyRow..(MaxKeyRow + MaxAccountEdits) /\ accountEdits \in 0..MaxAccountEdits

(* A response is asked for, or built on, only at the account that made it   *)
(* for the very token that asks; and a stored one that a client was told of *)
(* is bound to what made it for as long as its token and channel exist,     *)
(* whichever other account chose the same ID meanwhile and however the      *)
(* channel is edited between the route's read and the request.              *)
(* (loadResponseRoute, the digest check of runProxyAttempts,                *)
(* StoreResponseRoute)                                                      *)
ResponsesStayHome ==
    /\ \A r \in Callers : callers[r].refers # "" /\ callers[r].at \in {"sent", "remember", "deliver"} =>
         [token |-> callers[r].token, id |-> callers[r].refers, account |-> callers[r].new.account] \in made
    /\ \A row \in delivered :
         row.token \in tokenRows /\ row.channel \in DOMAIN channelRows => row \in responseRoutes
=============================================================================

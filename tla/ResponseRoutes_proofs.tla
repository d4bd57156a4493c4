----------------------- MODULE ResponseRoutes_proofs -----------------------
(***************************************************************************)
(* A stored response stays with the account that made it, for any number   *)
(* of requests, tokens, channels, accounts and edits.                      *)
(***************************************************************************)
EXTENDS ResponseRoutes, TLAPS

Places == {"idle", "load", "choose", "sent", "remember", "deliver"}
Sent == {"sent", "remember", "deliver"}

Rows == [token : Owners \cup {""}, id : ResponseIds \cup {""}, channel : DOMAIN Channels0 \cup {""},
         key : Nat, account : Accounts \cup {""}]
StoredRows == [token : Owners, id : ResponseIds, channel : DOMAIN Channels0, key : Nat, account : Accounts]
CallerRecords == [at : Places, token : Owners \cup {""}, refers : ResponseIds \cup {""}, stores : BOOLEAN,
                  route : Rows, new : Rows]

\* Who made a response, for whom.
Maker(row) == [token |-> row.token, id |-> row.id, account |-> row.account]

\* A row that a client may rely on is there while its token and channel are.
Bound(row) == row.token \in tokenRows /\ row.channel \in DOMAIN channelRows => row \in responseRoutes

TablesInv ==
    /\ tokenRows \subseteq Owners
    /\ DOMAIN channelRows \subseteq DOMAIN Channels0
    /\ channelRows \in [DOMAIN channelRows -> SignInRows]
    /\ accountEdits \in 0..MaxAccountEdits /\ nextKey \in MaxKeyRow..(MaxKeyRow + accountEdits)

RowsInv ==
    /\ responseRoutes \subseteq StoredRows /\ delivered \subseteq StoredRows
    /\ \A row \in responseRoutes : Maker(row) \in made
    /\ \A row \in delivered : Bound(row)

\* What each step of a request has established for the next.
Rightful(x) ==
    /\ x.at # "idle" => x.token \in Owners
    /\ x.at = "choose" /\ x.refers # "" =>
         x.route.id = x.refers /\ x.route.token = x.token /\ Maker(x.route) \in made
    /\ x.at \in Sent => x.new \in Rows /\ x.new.token \in Owners /\ x.new.channel \in DOMAIN Channels0
                        /\ x.new.account \in Accounts
    /\ x.at \in Sent /\ x.refers # "" =>
         [token |-> x.token, id |-> x.refers, account |-> x.new.account] \in made
    /\ x.at \in {"remember", "deliver"} => x.new \in StoredRows /\ Maker(x.new) \in made
    /\ x.at = "deliver" => Bound(x.new)

CallersInv ==
    /\ callers \in [Callers -> CallerRecords]
    /\ \A r \in Callers : Rightful(callers[r])

IInv == TablesInv /\ RowsInv /\ CallersInv

(* Nothing is stored, asked for or told of at the start.                    *)
LEMMA InitIInv == ResponsesInit => IInv
<1> SUFFICES ASSUME ResponsesInit PROVE IInv
    OBVIOUS
<1>1. TablesInv
  <2>1. accountEdits \in 0..MaxAccountEdits /\ nextKey \in MaxKeyRow..(MaxKeyRow + accountEdits)
    <3>1. MaxKeyRow \in Nat /\ MaxAccountEdits \in Nat
      BY ResponsesAssumption
    <3>2. accountEdits = 0 /\ nextKey = MaxKeyRow
      BY DEF ResponsesInit
    <3> QED
      BY <3>1, <3>2
  <2>2. channelRows \in [DOMAIN channelRows -> SignInRows]
    BY ResponsesAssumption DEF ResponsesInit
  <2> QED
    BY <2>1, <2>2 DEF ResponsesInit, TablesInv
<1>2. RowsInv
    BY DEF ResponsesInit, RowsInv
<1>3. Idle \in CallerRecords /\ Rightful(Idle)
    BY DEF Idle, NoRow, CallerRecords, Rows, Places, Rightful, Sent
<1>4. CallersInv
    BY <1>3 DEF ResponsesInit, CallersInv
<1> QED
    BY <1>1, <1>2, <1>4 DEF IInv

(* An idle request claims nothing.                                          *)
LEMMA IdleIsRightful ==
    ASSUME NEW r \in Callers, callers'[r] = Idle
    PROVE  callers'[r] \in CallerRecords /\ Rightful(callers[r])'
<1>1. Idle \in CallerRecords
    BY DEF Idle, NoRow, CallerRecords, Rows, Places
<1>2. Idle.at = "idle"
    BY DEF Idle
<1> QED
    BY <1>1, <1>2 DEF Rightful, Sent

(* What the other requests have established, they keep while one request    *)
(* moves, the operators do nothing and the stored responses only grow.      *)
LEMMA OneRequestMoves ==
    ASSUME CallersInv, UNCHANGED <<tokenRows, channelRows>>,
           made \subseteq made', responseRoutes \subseteq responseRoutes',
           callers' \in [Callers -> CallerRecords],
           NEW r \in Callers, \A q \in Callers \ {r} : callers'[q] = callers[q],
           Rightful(callers[r])'
    PROVE  CallersInv'
<1>1. ASSUME NEW q \in Callers
      PROVE  Rightful(callers[q])'
  <2>1. CASE q = r
    BY <2>1 DEF Rightful, Bound
  <2>2. CASE q # r
    <3>1. callers'[q] = callers[q] /\ Rightful(callers[q])
      BY <2>2 DEF CallersInv
    <3> QED
      BY <3>1 DEF Rightful, Bound
  <2> QED
    BY <2>1, <2>2
<1> QED
    BY <1>1 DEF CallersInv

(* A request comes in, asking for a response or for none.                   *)
LEMMA ArriveKeeps ==
    ASSUME IInv, NEW r \in Callers, NEW token \in Owners, NEW refers \in ResponseIds \cup {""},
           NEW stores \in BOOLEAN, Arrive(r, token, refers, stores)
    PROVE  IInv'
<1> DEFINE x == [Idle EXCEPT !.at = "load", !.token = token, !.refers = refers, !.stores = stores]
<1>1. x \in CallerRecords /\ x.at = "load" /\ x.token \in Owners
    BY DEF Idle, NoRow, CallerRecords, Rows, Places
<1>2. callers' = [callers EXCEPT ![r] = x] /\ UNCHANGED <<tokenRows, channelRows, nextKey, responseRoutes, made, delivered, accountEdits>>
    BY DEF Arrive, GoOn
<1> HIDE DEF x
<1>3. callers' \in [Callers -> CallerRecords] /\ callers'[r] = x /\ \A q \in Callers \ {r} : callers'[q] = callers[q]
    BY <1>1, <1>2 DEF IInv, CallersInv
<1>4. Rightful(callers[r])'
    BY <1>1, <1>3 DEF Rightful, Sent
<1>5. CallersInv'
    BY <1>2, <1>3, <1>4, OneRequestMoves DEF IInv
<1>6. TablesInv' /\ RowsInv'
    BY <1>2 DEF IInv, TablesInv, RowsInv, Bound
<1> QED
    BY <1>5, <1>6 DEF IInv

(* A request that ends leaves nothing behind.                               *)
LEMMA EndingKeeps ==
    ASSUME IInv, NEW r \in Callers, callers' = [callers EXCEPT ![r] = Idle],
           UNCHANGED <<tokenRows, channelRows, nextKey, responseRoutes, accountEdits>>,
           made \subseteq made', delivered' \subseteq StoredRows,
           \A row \in delivered' : Bound(row)
    PROVE  IInv'
<1>1. callers'[r] = Idle /\ \A q \in Callers \ {r} : callers'[q] = callers[q]
    BY DEF IInv, CallersInv
<1>2. callers' \in [Callers -> CallerRecords]
    BY <1>1, IdleIsRightful DEF IInv, CallersInv
<1>3. Rightful(callers[r])'
    BY <1>1, IdleIsRightful
<1>4. CallersInv'
    BY <1>1, <1>2, <1>3, OneRequestMoves DEF IInv
<1>5. TablesInv' /\ RowsInv'
    BY DEF IInv, TablesInv, RowsInv, Bound
<1> QED
    BY <1>4, <1>5 DEF IInv

(* The route that is read is the caller's own, for the response it names.   *)
LEMMA LoadKeeps ==
    ASSUME IInv, NEW r \in Callers, LoadResponseRoute(r)
    PROVE  IInv'
<1> DEFINE found == {row \in responseRoutes : row.token = callers[r].token /\ row.id = callers[r].refers}
<1>1. CASE callers' = [callers EXCEPT ![r] = Idle]
    BY <1>1, EndingKeeps DEF LoadResponseRoute, IInv, RowsInv
<1>2. ASSUME NEW x \in CallerRecords, callers' = [callers EXCEPT ![r] = x],
             x.at = "choose", x.token = callers[r].token, x.refers = callers[r].refers,
             x.refers # "" => x.route \in found
      PROVE  IInv'
  <2>1. /\ callers'[r] = x /\ \A q \in Callers \ {r} : callers'[q] = callers[q]
        /\ callers' \in [Callers -> CallerRecords]
    BY <1>2 DEF IInv, CallersInv
  <2>2. x.token \in Owners
    BY <1>2 DEF IInv, CallersInv, Rightful, LoadResponseRoute, At
  <2>3. x.refers # "" => x.route.id = x.refers /\ x.route.token = x.token /\ Maker(x.route) \in made
    BY <1>2 DEF IInv, RowsInv
  <2>4. Rightful(callers[r])'
    BY <1>2, <2>1, <2>2, <2>3 DEF Rightful, Sent, LoadResponseRoute
  <2>5. CallersInv'
    BY <2>1, <2>4, OneRequestMoves DEF IInv, LoadResponseRoute
  <2>6. TablesInv' /\ RowsInv'
    BY DEF IInv, TablesInv, RowsInv, Bound, LoadResponseRoute
  <2> QED
    BY <2>5, <2>6 DEF IInv
<1>3. CASE callers[r].refers = "" /\ GoOn(r, [callers[r] EXCEPT !.at = "choose"])
  <2> DEFINE x == [callers[r] EXCEPT !.at = "choose"]
  <2>1. x \in CallerRecords /\ x.at = "choose" /\ x.token = callers[r].token /\ x.refers = callers[r].refers
    BY DEF IInv, CallersInv, CallerRecords, Places
  <2>2. callers' = [callers EXCEPT ![r] = x]
    BY <1>3 DEF GoOn
  <2> HIDE DEF x
  <2> QED
    BY <1>2, <1>3, <2>1, <2>2
<1>4. ASSUME NEW row \in found, GoOn(r, [callers[r] EXCEPT !.at = "choose", !.route = row])
      PROVE  IInv'
  <2> DEFINE x == [callers[r] EXCEPT !.at = "choose", !.route = row]
  <2>1. row \in StoredRows
    BY DEF IInv, RowsInv
  <2>2. row \in Rows
    BY <2>1 DEF StoredRows, Rows
  <2>3. x \in CallerRecords /\ x.at = "choose" /\ x.token = callers[r].token /\ x.refers = callers[r].refers /\ x.route = row
    BY <2>2 DEF IInv, CallersInv, CallerRecords, Places
  <2>4. callers' = [callers EXCEPT ![r] = x]
    BY <1>4 DEF GoOn
  <2> HIDE DEF x, found
  <2> QED
    BY <1>2, <1>4, <2>3, <2>4
<1> QED
    BY <1>1, <1>3, <1>4 DEF LoadResponseRoute, GoOn

(* Whoever answers, the attempt's account is one the channel signs in with. *)
LEMMA AccountsAreKnown ==
    ASSUME TablesInv, NEW c \in DOMAIN channelRows, NEW key \in {0} \cup DOMAIN channelRows[c].keys
    PROVE  AccountOf(c, key) \in Accounts /\ key \in Nat
<1>1. channelRows[c] \in SignInRows
    BY DEF TablesInv
<1>2. PICK rows \in SUBSET (1..(MaxKeyRow + MaxAccountEdits)) : channelRows[c].keys \in [rows -> Accounts]
    BY <1>1 DEF SignInRows
<1>3. channelRows[c].header \in Accounts
    BY <1>1 DEF SignInRows
<1>4. key \in Nat
  <2>1. DOMAIN channelRows[c].keys = rows
    BY <1>2
  <2>2. \A k \in 1..(MaxKeyRow + MaxAccountEdits) : k \in Nat
    OBVIOUS
  <2> QED
    BY <2>1, <2>2
<1>5. AccountOf(c, key) \in Accounts
    BY <1>2, <1>3 DEF AccountOf
<1> QED
    BY <1>4, <1>5

(* A request that names a response goes to the account that made it: the    *)
(* credentials are compared as they are when it is sent.                    *)
LEMMA ForwardKeeps ==
    ASSUME IInv, NEW r \in Callers, NEW c \in DOMAIN channelRows,
           NEW key \in {0} \cup DOMAIN channelRows[c].keys, Forward(r, c, key)
    PROVE  IInv'
<1> DEFINE new == [token |-> callers[r].token, id |-> "", channel |-> c, key |-> key, account |-> AccountOf(c, key)]
<1> DEFINE x == [callers[r] EXCEPT !.at = "sent", !.new = new]
<1>1. callers[r] \in CallerRecords /\ callers[r].token \in Owners /\ callers[r].at = "choose" /\ Rightful(callers[r])
    BY DEF IInv, CallersInv, Rightful, Forward, At
<1>2. AccountOf(c, key) \in Accounts /\ key \in Nat
    BY AccountsAreKnown DEF IInv
<1>3. c \in DOMAIN Channels0
    BY DEF IInv, TablesInv
<1>4. new \in Rows /\ new.token \in Owners /\ new.channel \in DOMAIN Channels0 /\ new.account \in Accounts
    BY <1>1, <1>2, <1>3 DEF Rows
<1>5. new.account = AccountOf(c, key)
    OBVIOUS
<1> HIDE DEF new
<1>6. /\ x \in CallerRecords /\ x.at = "sent" /\ x.token = callers[r].token /\ x.refers = callers[r].refers
      /\ x.new = new
    BY <1>1, <1>4 DEF CallerRecords, Places
<1>7. callers' = [callers EXCEPT ![r] = x]
    BY DEF Forward, GoOn, new
<1>8. UNCHANGED <<tokenRows, channelRows, nextKey, responseRoutes, made, delivered, accountEdits>>
    BY DEF Forward
<1> HIDE DEF x
<1>9. /\ callers'[r] = x /\ \A q \in Callers \ {r} : callers'[q] = callers[q]
      /\ callers' \in [Callers -> CallerRecords]
    BY <1>6, <1>7 DEF IInv, CallersInv
<1>10. x.refers # "" => [token |-> x.token, id |-> x.refers, account |-> x.new.account] \in made
  <2> SUFFICES ASSUME x.refers # "" PROVE [token |-> x.token, id |-> x.refers, account |-> x.new.account] \in made
    OBVIOUS
  <2>1. callers[r].route.id = x.refers /\ callers[r].route.token = x.token /\ Maker(callers[r].route) \in made
    BY <1>1, <1>6 DEF Rightful
  <2>2. callers[r].route # NoRow
    <3>1. NoRow.id = ""
      BY DEF NoRow
    <3> QED
      BY <2>1, <3>1
  <2>3. Pinned(c, key, callers[r].route)
    BY <2>2 DEF Forward, MayUse
  <2>4. callers[r].route.account = x.new.account
    BY <2>3, <1>5, <1>6 DEF Pinned
  <2> QED
    BY <2>1, <2>4 DEF Maker
<1>11. Rightful(callers[r])'
    BY <1>1, <1>4, <1>6, <1>8, <1>9, <1>10 DEF Rightful, Sent
<1>12. CallersInv'
    BY <1>8, <1>9, <1>11, OneRequestMoves DEF IInv
<1>13. TablesInv' /\ RowsInv'
    BY <1>8 DEF IInv, TablesInv, RowsInv, Bound
<1> QED
    BY <1>12, <1>13 DEF IInv

(* Whatever the provider answers it has made, under the account that the    *)
(* attempt signed in with.                                                  *)
LEMMA AnswerKeeps ==
    ASSUME IInv, NEW r \in Callers, NEW id \in ResponseIds, ProviderAnswers(r, id)
    PROVE  IInv'
<1> DEFINE new == [callers[r].new EXCEPT !.id = id]
<1> DEFINE x == [callers[r] EXCEPT !.at = "remember", !.new = new]
<1>1. /\ callers[r] \in CallerRecords /\ callers[r].at = "sent" /\ Rightful(callers[r])
      /\ UNCHANGED <<tokenRows, channelRows, nextKey, responseRoutes, delivered, accountEdits>>
    BY DEF IInv, CallersInv, ProviderAnswers, At
<1>2. /\ callers[r].token \in Owners /\ callers[r].new \in Rows /\ callers[r].new.token \in Owners
      /\ callers[r].new.channel \in DOMAIN Channels0 /\ callers[r].new.account \in Accounts
    BY <1>1 DEF Rightful, Sent
<1>3. /\ new \in Rows /\ new \in StoredRows /\ new.id = id /\ new.token = callers[r].new.token
      /\ new.channel = callers[r].new.channel /\ new.account = callers[r].new.account
    BY <1>2 DEF Rows, StoredRows
<1>4. made' = made \cup {[token |-> new.token, id |-> id, account |-> new.account]}
    BY DEF ProviderAnswers
<1>5. Maker(new) \in made'
    BY <1>3, <1>4 DEF Maker
<1>6. callers' = [callers EXCEPT ![r] = x] \/ callers' = [callers EXCEPT ![r] = Idle]
    BY DEF ProviderAnswers, GoOn
<1> HIDE DEF new
<1>7. CASE callers' = [callers EXCEPT ![r] = Idle]
    BY <1>1, <1>4, <1>7, EndingKeeps DEF IInv, RowsInv
<1>8. CASE callers' = [callers EXCEPT ![r] = x]
  <2>1. /\ x \in CallerRecords /\ x.at = "remember" /\ x.token = callers[r].token
        /\ x.refers = callers[r].refers /\ x.new = new
    BY <1>1, <1>3 DEF CallerRecords, Places
  <2> HIDE DEF x
  <2>2. /\ callers'[r] = x /\ \A q \in Callers \ {r} : callers'[q] = callers[q]
        /\ callers' \in [Callers -> CallerRecords]
    BY <1>8, <2>1 DEF IInv, CallersInv
  <2>3. x.refers # "" => [token |-> x.token, id |-> x.refers, account |-> x.new.account] \in made
    BY <1>1, <1>3, <2>1 DEF Rightful, Sent
  <2>4. Rightful(callers[r])'
    BY <1>2, <1>3, <1>4, <1>5, <2>1, <2>2, <2>3 DEF Rightful, Sent
  <2>5. CallersInv'
    BY <1>1, <1>4, <2>2, <2>4, OneRequestMoves DEF IInv
  <2>6. TablesInv' /\ RowsInv'
    BY <1>1, <1>4 DEF IInv, TablesInv, RowsInv, Bound
  <2> QED
    BY <2>5, <2>6 DEF IInv
<1> QED
    BY <1>6, <1>7, <1>8

(* The row is there before the answer goes out, and is the one the caller's *)
(* attempt made: another account's row under the same ID refuses it.        *)
LEMMA RememberKeeps ==
    ASSUME IInv, NEW r \in Callers, RememberResponse(r)
    PROVE  IInv'
<1> DEFINE row == callers[r].new
<1> DEFINE x == [callers[r] EXCEPT !.at = "deliver"]
<1>1. /\ callers[r] \in CallerRecords /\ callers[r].at = "remember" /\ Rightful(callers[r])
      /\ UNCHANGED <<tokenRows, channelRows, nextKey, made, delivered, accountEdits>>
    BY DEF IInv, CallersInv, RememberResponse, At
<1>2. /\ callers[r].token \in Owners /\ row \in Rows /\ row.token \in Owners
      /\ row.channel \in DOMAIN Channels0 /\ row.account \in Accounts
      /\ row \in StoredRows /\ Maker(row) \in made
    BY <1>1 DEF Rightful, Sent
<1>3. CASE ~Storable(row)
  <2>1. callers' = [callers EXCEPT ![r] = Idle] /\ UNCHANGED responseRoutes
    BY <1>3 DEF RememberResponse, GoOn
  <2> QED
    BY <1>1, <2>1, EndingKeeps DEF IInv, RowsInv
<1>4. CASE Storable(row)
  <2>1. callers' = [callers EXCEPT ![r] = x]
    BY <1>4 DEF RememberResponse, GoOn
  <2>2. responseRoutes' = responseRoutes \/ responseRoutes' = responseRoutes \cup {row}
    BY <1>4 DEF RememberResponse
  <2>3. row \in responseRoutes'
    <3>1. CASE Known(row)
      BY <1>4, <3>1 DEF RememberResponse, Known, Storable
    <3>2. CASE ~Known(row)
      BY <1>4, <3>2 DEF RememberResponse
    <3> QED
      BY <3>1, <3>2
  <2>4. /\ x \in CallerRecords /\ x.at = "deliver" /\ x.token = callers[r].token
        /\ x.refers = callers[r].refers /\ x.new = row
    BY <1>1 DEF CallerRecords, Places
  <2> HIDE DEF row, x
  <2>5. /\ callers'[r] = x /\ \A q \in Callers \ {r} : callers'[q] = callers[q]
        /\ callers' \in [Callers -> CallerRecords]
    BY <2>1, <2>4 DEF IInv, CallersInv
  <2>6. x.refers # "" => [token |-> x.token, id |-> x.refers, account |-> x.new.account] \in made
    BY <1>1, <2>4 DEF Rightful, Sent, row
  <2>7. Rightful(callers[r])'
    BY <1>1, <1>2, <2>3, <2>4, <2>5, <2>6 DEF Rightful, Sent, Bound
  <2>8. CallersInv'
    BY <1>1, <2>2, <2>5, <2>7, OneRequestMoves DEF IInv
  <2>9. TablesInv' /\ RowsInv'
    BY <1>1, <1>2, <2>2 DEF IInv, TablesInv, RowsInv, Bound
  <2> QED
    BY <2>8, <2>9 DEF IInv
<1> QED
    BY <1>3, <1>4

(* What a client is told of is stored.                                      *)
LEMMA DeliverKeeps ==
    ASSUME IInv, NEW r \in Callers, DeliverResponse(r)
    PROVE  IInv'
<1>1. callers[r].new \in StoredRows /\ Bound(callers[r].new)
    BY DEF IInv, CallersInv, Rightful, DeliverResponse, At
<1> QED
    BY <1>1, EndingKeeps DEF IInv, RowsInv, DeliverResponse, GoOn

(* How far the numbers of keys and edits go.                                *)
LEMMA EditsAreBounded ==
    ASSUME TablesInv
    PROVE  /\ MaxKeyRow \in Nat /\ MaxAccountEdits \in Nat
           /\ accountEdits \in 0..MaxAccountEdits /\ nextKey \in MaxKeyRow..(MaxKeyRow + accountEdits)
BY ResponsesAssumption DEF TablesInv

(* A channel's row stays a channel's row, whatever account it is given and  *)
(* whichever of its keys is replaced.                                       *)
LEMMA EditKeepsTables ==
    ASSUME IInv, NEW c \in DOMAIN channelRows, NEW account \in Accounts,
           NEW key \in {0} \cup DOMAIN channelRows[c].keys,
           ChangeAccount(c, key, account) \/ ReplaceKey(c, key, account)
    PROVE  TablesInv' /\ DOMAIN channelRows' = DOMAIN channelRows
<1> DEFINE KeyRows == 1..(MaxKeyRow + MaxAccountEdits)
<1>1. channelRows[c] \in SignInRows /\ channelRows \in [DOMAIN channelRows -> SignInRows]
    BY DEF IInv, TablesInv
<1>2. PICK rows \in SUBSET KeyRows : channelRows[c].keys \in [rows -> Accounts]
    BY <1>1 DEF SignInRows
<1>3. channelRows[c].header \in Accounts
    BY <1>1 DEF SignInRows
<1>4. /\ MaxKeyRow \in Nat /\ MaxAccountEdits \in Nat
      /\ accountEdits \in 0..MaxAccountEdits /\ accountEdits < MaxAccountEdits /\ accountEdits' = accountEdits + 1
      /\ nextKey \in MaxKeyRow..(MaxKeyRow + accountEdits)
    BY ResponsesAssumption DEF IInv, TablesInv, ChangeAccount, ReplaceKey, AccountEdited
<1>5. /\ nextKey' \in MaxKeyRow..(MaxKeyRow + accountEdits') /\ accountEdits' \in 0..MaxAccountEdits
      /\ nextKey + 1 \in KeyRows
  <2>1. nextKey' = nextKey \/ nextKey' = nextKey + 1
    BY DEF ChangeAccount, ReplaceKey
  <2> QED
    BY <1>4, <2>1
<1> HIDE DEF KeyRows
<1>6. ASSUME NEW edited \in SignInRows, channelRows' = [channelRows EXCEPT ![c] = edited]
      PROVE  channelRows' \in [DOMAIN channelRows -> SignInRows] /\ DOMAIN channelRows' = DOMAIN channelRows
    BY <1>1, <1>6
<1>7. channelRows' \in [DOMAIN channelRows -> SignInRows] /\ DOMAIN channelRows' = DOMAIN channelRows
  <2>1. CASE channelRows' = [channelRows EXCEPT ![c].header = account]
    <3> DEFINE edited == [channelRows[c] EXCEPT !.header = account]
    <3>1. edited \in SignInRows
      BY <1>1 DEF SignInRows
    <3>2. channelRows' = [channelRows EXCEPT ![c] = edited]
      BY <2>1
    <3> HIDE DEF edited
    <3> QED
      BY <1>6, <3>1, <3>2
  <2>2. CASE key # 0 /\ channelRows' = [channelRows EXCEPT ![c].keys[key] = account]
    <3> DEFINE keys == [channelRows[c].keys EXCEPT ![key] = account]
    <3> DEFINE edited == [channelRows[c] EXCEPT !.keys = keys]
    <3>1. keys \in [rows -> Accounts]
      BY <1>2
    <3>2. keys \in UNION {[some -> Accounts] : some \in SUBSET KeyRows}
      BY <3>1
    <3>3. channelRows' = [channelRows EXCEPT ![c] = edited]
      BY <2>2
    <3> HIDE DEF keys
    <3>4. edited \in SignInRows
      BY <1>1, <3>2 DEF SignInRows, KeyRows
    <3> HIDE DEF edited
    <3> QED
      BY <1>6, <3>3, <3>4
  <2>3. CASE ReplaceKey(c, key, account)
    <3> DEFINE kept == DOMAIN channelRows[c].keys \ {key}
    <3> DEFINE keys == [k \in kept \cup {nextKey + 1} |-> IF k = nextKey + 1 THEN account ELSE channelRows[c].keys[k]]
    <3> DEFINE edited == [channelRows[c] EXCEPT !.keys = keys]
    <3>1. keys \in [kept \cup {nextKey + 1} -> Accounts] /\ kept \cup {nextKey + 1} \in SUBSET KeyRows
      BY <1>2, <1>5
    <3>2. keys \in UNION {[some -> Accounts] : some \in SUBSET KeyRows}
      BY <3>1
    <3>3. channelRows' = [channelRows EXCEPT ![c] = edited]
      BY <2>3 DEF ReplaceKey
    <3> HIDE DEF keys
    <3>4. edited \in SignInRows
      BY <1>1, <3>2 DEF SignInRows, KeyRows
    <3> HIDE DEF edited
    <3> QED
      BY <1>6, <3>3, <3>4
  <2> QED
    BY <2>1, <2>2, <2>3 DEF ChangeAccount
<1>8. tokenRows' = tokenRows
    BY DEF ChangeAccount, ReplaceKey
<1> QED
    BY <1>5, <1>7, <1>8 DEF IInv, TablesInv

(* Operators only take rows away: a route that goes, goes with its token or *)
(* its channel.                                                             *)
LEMMA OperatorsKeep ==
    ASSUME IInv, OperatorEdits
    PROVE  IInv'
<1>1. /\ UNCHANGED <<callers, made, delivered>>
      /\ accountEdits < MaxAccountEdits /\ accountEdits' = accountEdits + 1
    BY DEF OperatorEdits, RemoveChannel, RemoveToken, ChangeAccount, ReplaceKey, AccountEdited
\* What is bound stays bound, and what the tables hold was there.
<1>2. ASSUME TablesInv', tokenRows' \subseteq tokenRows, DOMAIN channelRows' \subseteq DOMAIN channelRows,
             responseRoutes' \subseteq responseRoutes,
             \A row \in responseRoutes \ responseRoutes' :
               row.token \notin tokenRows' \/ row.channel \notin DOMAIN channelRows'
      PROVE  IInv'
  <2>1. ASSUME NEW row, Bound(row)
        PROVE  row.token \in tokenRows' /\ row.channel \in DOMAIN channelRows' => row \in responseRoutes'
    BY <1>2, <2>1 DEF Bound
  <2>2. RowsInv'
    BY <1>1, <1>2, <2>1 DEF IInv, RowsInv, Bound
  <2>3. CallersInv'
    <3>1. ASSUME NEW r \in Callers
          PROVE  Rightful(callers[r])'
      <4>1. Rightful(callers[r])
        BY DEF IInv, CallersInv
      <4> QED
        BY <1>1, <2>1, <4>1 DEF Rightful, Bound
    <3> QED
      BY <1>1, <3>1 DEF IInv, CallersInv
  <2> QED
    BY <1>2, <2>2, <2>3 DEF IInv
<1>3. ASSUME NEW c \in DOMAIN channelRows, RemoveChannel(c)
      PROVE  IInv'
  <2>1. /\ channelRows' = [d \in DOMAIN channelRows \ {c} |-> channelRows[d]]
        /\ responseRoutes' = {row \in responseRoutes : row.channel # c}
        /\ UNCHANGED <<tokenRows, nextKey>>
    BY <1>3 DEF RemoveChannel
  <2>2. DOMAIN channelRows' = DOMAIN channelRows \ {c} /\ channelRows' \in [DOMAIN channelRows' -> SignInRows]
    BY <2>1 DEF IInv, TablesInv
  <2>3. nextKey' \in MaxKeyRow..(MaxKeyRow + accountEdits') /\ accountEdits' \in 0..MaxAccountEdits
    BY <1>1, <2>1, EditsAreBounded DEF IInv
  <2>4. TablesInv'
    BY <2>1, <2>2, <2>3 DEF IInv, TablesInv
  <2> QED
    BY <1>2, <2>1, <2>2, <2>4
<1>4. ASSUME NEW token \in tokenRows, RemoveToken(token)
      PROVE  IInv'
  <2>1. /\ tokenRows' = tokenRows \ {token}
        /\ responseRoutes' = {row \in responseRoutes : row.token # token}
        /\ UNCHANGED <<channelRows, nextKey>>
    BY <1>4 DEF RemoveToken
  <2>2. nextKey' \in MaxKeyRow..(MaxKeyRow + accountEdits') /\ accountEdits' \in 0..MaxAccountEdits
    BY <1>1, <2>1, EditsAreBounded DEF IInv
  <2>3. TablesInv'
    BY <2>1, <2>2 DEF IInv, TablesInv
  <2> QED
    BY <1>2, <2>1, <2>3
<1>5. ASSUME NEW c \in DOMAIN channelRows, NEW account \in Accounts, NEW key \in {0} \cup DOMAIN channelRows[c].keys,
             ChangeAccount(c, key, account) \/ ReplaceKey(c, key, account)
      PROVE  IInv'
  <2>1. tokenRows' = tokenRows /\ responseRoutes' = responseRoutes
    BY <1>5 DEF ChangeAccount, ReplaceKey
  <2> QED
    BY <1>2, <1>5, <2>1, EditKeepsTables
<1> QED
    BY <1>3, <1>4, <1>5 DEF OperatorEdits

(* Every step keeps the invariant.                                          *)
LEMMA NextIInv == IInv /\ [ResponsesNext]_responseVars => IInv'
<1> SUFFICES ASSUME IInv, [ResponsesNext]_responseVars PROVE IInv'
    OBVIOUS
<1>1. CASE \E r \in Callers, token \in Owners, refers \in ResponseIds \cup {""}, stores \in BOOLEAN :
             Arrive(r, token, refers, stores)
    BY <1>1, ArriveKeeps
<1>2. ASSUME NEW r \in Callers, LoadResponseRoute(r)
      PROVE  IInv'
    BY <1>2, LoadKeeps
<1>3. ASSUME NEW r \in Callers, RefusePinned(r) \/ GiveUpRequest(r)
      PROVE  IInv'
    BY <1>3, EndingKeeps DEF RefusePinned, GiveUpRequest, GoOn, IInv, RowsInv
<1>4. ASSUME NEW r \in Callers, NEW c \in DOMAIN channelRows, NEW key \in {0} \cup DOMAIN channelRows[c].keys,
             Forward(r, c, key)
      PROVE  IInv'
    BY <1>4, ForwardKeeps
<1>5. ASSUME NEW r \in Callers, NEW id \in ResponseIds, ProviderAnswers(r, id)
      PROVE  IInv'
    BY <1>5, AnswerKeeps
<1>6. ASSUME NEW r \in Callers, RememberResponse(r) \/ DeliverResponse(r)
      PROVE  IInv'
    BY <1>6, RememberKeeps, DeliverKeeps
<1>7. CASE OperatorEdits
    BY <1>7, OperatorsKeep
<1>8. CASE UNCHANGED responseVars
    BY <1>8 DEF responseVars, IInv, TablesInv, RowsInv, CallersInv, Rightful, Bound
<1> QED
    BY <1>1, <1>2, <1>3, <1>4, <1>5, <1>6, <1>7, <1>8 DEF ResponsesNext

LEMMA ResponsesShape == IInv => ResponsesTypeOK
<1> SUFFICES ASSUME IInv PROVE ResponsesTypeOK
    OBVIOUS
<1>1. tokenRows \subseteq Owners /\ DOMAIN channelRows \subseteq DOMAIN Channels0
    BY DEF IInv, TablesInv
<1>2. \A row \in responseRoutes \cup delivered :
        row.id \in ResponseIds /\ row.token \in Owners /\ row.account \in Accounts
    BY DEF IInv, RowsInv, StoredRows
<1>3. \A r \in Callers : callers[r].at \in {"idle", "load", "choose", "sent", "remember", "deliver"}
    BY DEF IInv, CallersInv, CallerRecords, Places
<1>4. nextKey \in MaxKeyRow..(MaxKeyRow + MaxAccountEdits) /\ accountEdits \in 0..MaxAccountEdits
    BY EditsAreBounded DEF IInv
<1> QED
    BY <1>1, <1>2, <1>3, <1>4 DEF ResponsesTypeOK

(* The types of the model's state.                                          *)
THEOREM TypeCorrect == ResponsesSpec => []ResponsesTypeOK
    BY ResponsesShape, InitIInv, NextIInv, PTL DEF ResponsesSpec

(* A response is asked for only at the account that made it for the token   *)
(* that asks, and what a client was told of is bound to its maker while its *)
(* token and channel exist: whatever the edits, the failures and the IDs    *)
(* the providers choose (StoreResponseRoute, the digest of                  *)
(* runProxyAttempts).                                                       *)
THEOREM ResponsesAreAtHome == ResponsesSpec => []ResponsesStayHome
<1>1. IInv => ResponsesStayHome
    BY DEF IInv, RowsInv, CallersInv, Rightful, Bound, Sent, ResponsesStayHome
<1> QED
    BY <1>1, InitIInv, NextIInv, PTL DEF ResponsesSpec
=============================================================================

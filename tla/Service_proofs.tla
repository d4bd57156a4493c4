--------------------------- MODULE Service_proofs ---------------------------
(***************************************************************************)
(* What holds of the parts that run beside the retry loop, for every       *)
(* number of requests, handlers and channels: no old admin credential lets *)
(* anybody in, a shutdown loses no row it could keep, and a channel's      *)
(* health does not depend on who looks at it.                              *)
(***************************************************************************)
EXTENDS MCService, AttemptAnswer_proofs, FiniteSetTheorems, SequenceTheorems, TLAPS

-----------------------------------------------------------------------------
(* The admin credential: AdminAuth.                                        *)
\* The steps after a look in the cache or a verification that succeeded, and those
\* of a rotation that committed.
Proved == {"proved", "store", "granted"}
Publishing == {"publish", "adopt", "clear"}
ReqRecord == [pc : Pcs, token : Tokens, since : Nat, seen : Nat]

\* The generations, from the table to what was answered.
GenerationsInv ==
    /\ stored \in Seq(Tokens) /\ Len(stored) \in 1..MaxGeneration
    /\ answered \in 1..current /\ current \in 1..version /\ version \in 1..Len(stored)

\* The cache holds the token of the generation it was proved against.
CacheInv ==
    /\ verified \in [generation : 0..version, token : Tokens]
    /\ verified # NoProof => verified.generation >= 1 /\ verified.token = stored[verified.generation]

\* What a request has read: a generation that was current when it arrived or later,
\* and once it is proved its token is that generation's.
Sound(e) ==
    /\ e \in ReqRecord /\ e.since <= answered
    /\ e.pc # "idle" => e.since <= e.seen /\ 1 <= e.seen
    /\ e.pc \notin Publishing => e.seen <= version
    /\ e.pc \in Proved => e.token = stored[e.seen]
    /\ e.pc \in Publishing => e.seen <= Len(stored)
    /\ e.pc = "adopt" => e.seen <= version
    /\ e.pc = "clear" => e.seen <= current

RequestsInv == req \in [Requests -> ReqRecord] /\ \A r \in Requests : Sound(req[r])

SlotInv ==
    /\ slot = "free" \/ slot \in Requests
    /\ \A r \in Requests : req[r].pc \in HoldsSlot <=> slot = r
    /\ Cardinality(Waiting) <= MaxWaiters

AuthInv == restarts \in 0..MaxRestarts /\ GenerationsInv /\ CacheInv /\ RequestsInv /\ SlotInv

(* The generations are numbers, in the order of what follows from what.     *)
LEMMA GenerationsAreNumbers ==
    ASSUME GenerationsInv
    PROVE  /\ answered \in Nat /\ current \in Nat /\ version \in Nat /\ Len(stored) \in Nat
           /\ 1 <= answered /\ answered <= current /\ current <= version /\ version <= Len(stored)
           /\ \A i \in 1..Len(stored) : stored[i] \in Tokens
<1>1. Len(stored) \in Nat /\ \A i \in 1..Len(stored) : stored[i] \in Tokens
    BY DEF GenerationsInv
<1> QED
    BY <1>1 DEF GenerationsInv

(* The process starts with the first generation, and nobody inside.         *)
LEMMA AuthStarts == AuthInit => AuthInv
<1> SUFFICES ASSUME AuthInit PROVE AuthInv
    OBVIOUS
<1>1. GenerationsInv /\ restarts \in 0..MaxRestarts
    BY AuthAssumption DEF AuthInit, GenerationsInv
<1>2. CacheInv
    BY AuthAssumption DEF AuthInit, CacheInv, NoProof
<1>3. Sound(Idle)
    BY AuthAssumption DEF AuthInit, Sound, Idle, ReqRecord, Pcs, Proved, Publishing
<1>4. RequestsInv
    BY <1>3 DEF AuthInit, RequestsInv, Sound
<1>5. SlotInv
  <2>1. \A r \in Requests : req[r].pc = "idle"
    BY DEF AuthInit, Idle
  <2>2. Waiting = {}
    BY <2>1 DEF Waiting, At
  <2>3. Cardinality(Waiting) = 0
    BY <2>2, FS_EmptySet
  <2> QED
    BY <2>1, <2>3, AuthAssumption DEF AuthInit, SlotInv, HoldsSlot
<1> QED
    BY <1>1, <1>2, <1>4, <1>5 DEF AuthInv

(* A step of one request: what it holds of the slot goes with its place.    *)
SlotFollows(r, e) ==
    /\ e.pc \in HoldsSlot => slot' = r /\ slot \in {"free", r}
    /\ e.pc \notin HoldsSlot => slot' = (IF slot = r THEN "free" ELSE slot)
    /\ e.pc = "waiting" => Cardinality(Waiting) < MaxWaiters

(* The slot has one holder and the queue its bound.                         *)
LEMMA SlotKeeps ==
    ASSUME SlotInv, req \in [Requests -> ReqRecord], NEW r \in Requests, NEW e, req' = [req EXCEPT ![r] = e],
           SlotFollows(r, e)
    PROVE  SlotInv'
<1>1. \A q \in Requests : req'[q] = IF q = r THEN e ELSE req[q]
    OBVIOUS
<1>2. slot' = "free" \/ slot' \in Requests
    BY DEF SlotInv, SlotFollows
<1>3. \A q \in Requests : req'[q].pc \in HoldsSlot <=> slot' = q
    BY <1>1, AuthAssumption DEF SlotInv, SlotFollows
<1>4. Cardinality(Waiting') <= MaxWaiters
  <2>1. IsFiniteSet(Waiting) /\ Waiting \subseteq Requests
    BY AuthAssumption, FS_Subset DEF Waiting
  <2>2. Cardinality(Waiting) \in Nat /\ MaxWaiters \in Nat
    BY <2>1, FS_CardinalityType, AuthAssumption
  <2>3. CASE e.pc = "waiting"
    <3>1. Waiting' \subseteq Waiting \cup {r}
      BY <1>1 DEF Waiting, At
    <3>2. IsFiniteSet(Waiting \cup {r}) /\ Cardinality(Waiting \cup {r}) <= Cardinality(Waiting) + 1
      BY <2>1, <2>2, FS_AddElement
    <3>3. Cardinality(Waiting') <= Cardinality(Waiting \cup {r}) /\ Cardinality(Waiting') \in Nat
      BY <3>1, <3>2, FS_Subset, FS_CardinalityType
    <3>4. Cardinality(Waiting \cup {r}) \in Nat
      BY <3>2, FS_CardinalityType
    <3> QED
      BY <2>2, <2>3, <3>2, <3>3, <3>4 DEF SlotFollows
  <2>4. CASE e.pc # "waiting"
    <3>1. Waiting' \subseteq Waiting
      BY <1>1, <2>4 DEF Waiting, At
    <3>2. Cardinality(Waiting') <= Cardinality(Waiting) /\ Cardinality(Waiting') \in Nat
      BY <2>1, <3>1, FS_Subset, FS_CardinalityType
    <3> QED
      BY <2>2, <3>2 DEF SlotInv
  <2> QED
    BY <2>3, <2>4
<1> QED
    BY <1>2, <1>3, <1>4 DEF SlotInv

(* A step of one request that leaves the credential and the cache alone.    *)
LEMMA StepKeeps ==
    ASSUME AuthInv, NEW r \in Requests, NEW e, Sound(e), req' = [req EXCEPT ![r] = e], SlotFollows(r, e),
           UNCHANGED <<credentialVars, verified, restarts>>
    PROVE  AuthInv'
<1>1. UNCHANGED <<stored, version, current, answered, verified, restarts>>
    BY DEF credentialVars
<1>2. GenerationsInv' /\ CacheInv' /\ restarts' \in 0..MaxRestarts
    BY <1>1 DEF AuthInv, GenerationsInv, CacheInv
<1>3. RequestsInv'
  <2>1. \A q \in Requests : Sound(req[q]) /\ req'[q] = IF q = r THEN e ELSE req[q]
    BY DEF AuthInv, RequestsInv
  <2>2. Sound(e)' /\ \A q \in Requests : q # r => Sound(req[q])'
    BY <1>1, <2>1 DEF Sound
  <2>3. \A q \in Requests : Sound(req[q])'
    <3>1. Sound(req[r])'
      BY <1>1, <2>1 DEF Sound
    <3> QED
      BY <2>2, <3>1
  <2>4. req' \in [Requests -> ReqRecord]
    BY DEF AuthInv, RequestsInv, Sound
  <2> QED
    BY <2>3, <2>4 DEF RequestsInv
<1>4. SlotInv'
    BY SlotKeeps DEF AuthInv, RequestsInv
<1> QED
    BY <1>2, <1>3, <1>4 DEF AuthInv

(* Going to another step, or out, as records.                               *)
LEMMA WhereItGoes ==
    ASSUME AuthInv, NEW r \in Requests, NEW at \in Pcs
    PROVE  /\ GoTo(r, at) => req' = [req EXCEPT ![r] = [req[r] EXCEPT !.pc = at]]
           /\ [req[r] EXCEPT !.pc = at] \in ReqRecord
           /\ LET e == [req[r] EXCEPT !.pc = at]
              IN  e.pc = at /\ e.token = req[r].token /\ e.since = req[r].since /\ e.seen = req[r].seen
           /\ Finish(r) => req' = [req EXCEPT ![r] = Idle]
           /\ Sound(Idle) /\ Idle.pc = "idle"
<1>1. req[r] \in ReqRecord /\ req \in [Requests -> ReqRecord]
    BY DEF AuthInv, RequestsInv
<1>2. Sound(Idle) /\ Idle.pc = "idle"
    BY AuthAssumption, GenerationsAreNumbers DEF AuthInv, Sound, Idle, ReqRecord, Pcs, Proved, Publishing
<1> QED
    BY <1>1, <1>2 DEF ReqRecord, GoTo, Finish

(* A look in the cache, first or with the slot: what is found there proves  *)
(* the token of the generation read.                                        *)
LEMMA HitProves ==
    ASSUME AuthInv, NEW r \in Requests, Hit(r), req[r].pc \in {"hit", "again"}
    PROVE  req[r].token = stored[req[r].seen]
    BY DEF AuthInv, CacheInv, Hit

(* A request arrives.                                                       *)
LEMMA BeginKeeps ==
    ASSUME AuthInv, NEW r \in Requests, Begin(r)
    PROVE  AuthInv'
<1>1. PICK t \in Tokens : req' = [req EXCEPT ![r] = [pc |-> "hit", token |-> t, since |-> answered, seen |-> version]]
    BY DEF Begin
<1> DEFINE e == [pc |-> "hit", token |-> t, since |-> answered, seen |-> version]
<1>2. Sound(e)
    BY GenerationsAreNumbers DEF AuthInv, Sound, ReqRecord, Pcs, Proved, Publishing
<1>3. slot # r
    BY DEF Begin, At, AuthInv, SlotInv, HoldsSlot
<1>4. SlotFollows(r, e)
    BY <1>3 DEF SlotFollows, HoldsSlot, Begin
<1> QED
    BY <1>1, <1>2, <1>4, StepKeeps DEF Begin

(* What a request does that reads, waits, is let in or sent away: it moves  *)
(* with what it has read.                                                   *)
LEMMA GoingOn ==
    ASSUME AuthInv, NEW r \in Requests, UNCHANGED <<credentialVars, verified, restarts>>,
           NEW at \in Pcs \ Publishing,
           req[r].pc \notin Publishing \cup {"idle"},
           at \in Proved => req[r].token = stored[req[r].seen],
           req' = [req EXCEPT ![r] = [req[r] EXCEPT !.pc = at]], SlotFollows(r, [req[r] EXCEPT !.pc = at])
    PROVE  AuthInv'
<1> DEFINE e == [req[r] EXCEPT !.pc = at]
<1>1. e \in ReqRecord /\ e.pc = at /\ e.token = req[r].token /\ e.since = req[r].since /\ e.seen = req[r].seen
    BY WhereItGoes
<1>2. Sound(req[r])
    BY DEF AuthInv, RequestsInv
<1> HIDE DEF e
<1>3. Sound(e)
    BY <1>1, <1>2 DEF Sound, Publishing, Proved
<1> QED
    BY <1>3, StepKeeps DEF e

(* It is sent away, or done.                                                *)
LEMMA FinishKeeps ==
    ASSUME AuthInv, NEW r \in Requests, UNCHANGED <<credentialVars, verified, restarts>>, Finish(r),
           slot' = (IF slot = r THEN "free" ELSE slot)
    PROVE  AuthInv'
<1>1. req' = [req EXCEPT ![r] = Idle] /\ Sound(Idle) /\ Idle.pc = "idle"
    BY WhereItGoes DEF Pcs
<1>2. SlotFollows(r, Idle)
    BY <1>1 DEF SlotFollows, HoldsSlot
<1> QED
    BY <1>1, <1>2, StepKeeps

(* The steps of an authentication.                                          *)
LEMMA AuthenticateKeeps ==
    ASSUME AuthInv, NEW r \in Requests, Authenticate(r) \/ TakeSlot(r) \/ Serve(r)
    PROVE  AuthInv'
<1>1. SlotInv /\ (req[r].pc \in HoldsSlot <=> slot = r) /\ r # "free"
    BY AuthAssumption DEF AuthInv, SlotInv
<1>2. ASSUME NEW at \in Pcs
      PROVE  /\ GoTo(r, at) => req' = [req EXCEPT ![r] = [req[r] EXCEPT !.pc = at]]
             /\ [req[r] EXCEPT !.pc = at].pc = at
    BY <1>2, WhereItGoes
<1> USE DEF At
<1>3. CASE LookInCache(r)
  <2> DEFINE at == IF Hit(r) THEN "granted" ELSE "admit"
  <2>1. at \in Pcs \ Publishing /\ req[r].pc = "hit" /\ GoTo(r, at) /\ slot' = slot /\ at \notin HoldsSlot \cup {"waiting"}
    BY <1>3 DEF LookInCache, Pcs, Publishing, HoldsSlot
  <2>2. at \in Proved => req[r].token = stored[req[r].seen]
    BY <2>1, HitProves DEF Proved
  <2> HIDE DEF at
  <2>3. SlotFollows(r, [req[r] EXCEPT !.pc = at])
    BY <1>1, <1>2, <2>1 DEF SlotFollows, HoldsSlot
  <2> QED
    BY <1>2, <1>3, <2>1, <2>2, <2>3, GoingOn DEF LookInCache, Publishing
<1>4. CASE PassThrottle(r)
  <2>1. CASE GoTo(r, "enter")
    <3>1. SlotFollows(r, [req[r] EXCEPT !.pc = "enter"])
      BY <1>1, <1>2, <1>4 DEF SlotFollows, HoldsSlot, PassThrottle, Pcs
    <3> QED
      BY <1>2, <1>4, <2>1, <3>1, GoingOn DEF PassThrottle, Publishing, Pcs, Proved
  <2>2. CASE Finish(r)
    BY <1>1, <1>4, <2>2, FinishKeeps DEF PassThrottle, HoldsSlot
  <2> QED
    BY <1>4, <2>1, <2>2 DEF PassThrottle
<1>5. CASE Enter(r)
  <2>1. CASE Cardinality(Waiting) >= MaxWaiters
    BY <1>1, <1>5, <2>1, FinishKeeps DEF Enter, HoldsSlot
  <2>2. CASE ~(Cardinality(Waiting) >= MaxWaiters)
    <3>1. Cardinality(Waiting) < MaxWaiters
      <4>1. IsFiniteSet(Waiting)
        BY AuthAssumption, FS_Subset DEF Waiting
      <4>2. Cardinality(Waiting) \in Nat
        BY <4>1, FS_CardinalityType
      <4> QED
        BY <2>2, <4>2, AuthAssumption
    <3>2. SlotFollows(r, [req[r] EXCEPT !.pc = "waiting"])
      BY <1>1, <1>2, <1>5, <3>1 DEF SlotFollows, HoldsSlot, Enter, Pcs
    <3> QED
      BY <1>2, <1>5, <2>2, <3>2, GoingOn DEF Enter, Publishing, Pcs, Proved
  <2> QED
    BY <2>1, <2>2
<1>6. CASE TakeSlot(r)
  <2>1. SlotFollows(r, [req[r] EXCEPT !.pc = "version"])
    BY <1>1, <1>2, <1>6 DEF SlotFollows, HoldsSlot, TakeSlot, Pcs
  <2> QED
    BY <1>2, <1>6, <2>1, GoingOn DEF TakeSlot, Publishing, Pcs, Proved
<1>7. CASE ReadVersion(r)
  <2> DEFINE e == [req[r] EXCEPT !.pc = "again", !.seen = version]
  <2>1. Sound(req[r]) /\ req[r] \in ReqRecord /\ version \in Nat /\ answered <= version /\ 1 <= version /\ answered \in Nat
    BY GenerationsAreNumbers DEF AuthInv, RequestsInv
  <2>2. e \in ReqRecord /\ e.pc = "again" /\ e.since = req[r].since /\ e.seen = version
    BY <2>1 DEF ReqRecord, Pcs
  <2>3. req' = [req EXCEPT ![r] = e]
    BY <1>7 DEF ReadVersion
  <2> HIDE DEF e
  <2>4. Sound(e)
    BY <2>1, <2>2 DEF Sound, Publishing, Proved, ReqRecord
  <2>5. SlotFollows(r, e)
    BY <1>1, <1>7, <2>2 DEF SlotFollows, HoldsSlot, ReadVersion
  <2> QED
    BY <1>7, <2>3, <2>4, <2>5, StepKeeps DEF ReadVersion
<1>8. CASE LookAgain(r)
  <2>1. CASE Hit(r)
    <3>1. SlotFollows(r, [req[r] EXCEPT !.pc = "granted"])
      BY <1>1, <1>2, <1>8, <2>1 DEF SlotFollows, HoldsSlot, LookAgain, Pcs
    <3> QED
      BY <1>2, <1>8, <2>1, <3>1, GoingOn, HitProves DEF LookAgain, Publishing, Pcs, Proved
  <2>2. CASE ~Hit(r)
    <3>1. SlotFollows(r, [req[r] EXCEPT !.pc = "snapshot"])
      BY <1>1, <1>2, <1>8, <2>2 DEF SlotFollows, HoldsSlot, LookAgain, Pcs
    <3> QED
      BY <1>2, <1>8, <2>2, <3>1, GoingOn DEF LookAgain, Publishing, Pcs, Proved
  <2> QED
    BY <2>1, <2>2
<1>9. CASE Snapshot(r)
  <2>1. CASE current # req[r].seen
    BY <1>1, <1>9, <2>1, FinishKeeps DEF Snapshot, HoldsSlot
  <2>2. CASE current = req[r].seen
    <3>1. SlotFollows(r, [req[r] EXCEPT !.pc = "verify"])
      BY <1>1, <1>2, <1>9, <2>2 DEF SlotFollows, HoldsSlot, Snapshot, Pcs
    <3> QED
      BY <1>2, <1>9, <2>2, <3>1, GoingOn DEF Snapshot, Publishing, Pcs, Proved
  <2> QED
    BY <2>1, <2>2
<1>10. CASE Verify(r)
  <2>1. CASE stored[req[r].seen] # req[r].token
    BY <1>1, <1>10, <2>1, FinishKeeps DEF Verify, HoldsSlot
  <2>2. CASE stored[req[r].seen] = req[r].token
    <3>1. SlotFollows(r, [req[r] EXCEPT !.pc = "proved"])
      BY <1>1, <1>2, <1>10, <2>2 DEF SlotFollows, HoldsSlot, Verify, Pcs
    <3> QED
      BY <1>2, <1>10, <2>2, <3>1, GoingOn DEF Verify, Publishing, Pcs, Proved
  <2> QED
    BY <2>1, <2>2
<1>11. CASE Recheck(r)
  <2>1. CASE version # req[r].seen
    BY <1>1, <1>11, <2>1, FinishKeeps DEF Recheck, HoldsSlot
  <2>2. CASE version = req[r].seen
    <3>1. SlotFollows(r, [req[r] EXCEPT !.pc = "store"])
      BY <1>1, <1>2, <1>11, <2>2 DEF SlotFollows, HoldsSlot, Recheck, Pcs
    <3>2. req[r].token = stored[req[r].seen]
      BY <1>11 DEF Recheck, AuthInv, RequestsInv, Sound, Proved
    <3> QED
      BY <1>2, <1>11, <2>2, <3>1, <3>2, GoingOn DEF Recheck, Publishing, Pcs, Proved
  <2> QED
    BY <2>1, <2>2
<1>12. CASE StoreProof(r)
  <2> DEFINE e == [req[r] EXCEPT !.pc = "granted"]
  <2>1. /\ Sound(req[r]) /\ req[r].pc = "store" /\ slot = r /\ slot' = "free" /\ req' = [req EXCEPT ![r] = e]
        /\ verified' = [generation |-> req[r].seen, token |-> req[r].token]
        /\ UNCHANGED <<stored, version, current, answered, restarts>>
    BY <1>1, <1>2, <1>12 DEF StoreProof, AuthInv, RequestsInv, HoldsSlot, Pcs, credentialVars
  <2>2. e \in ReqRecord /\ e.pc = "granted" /\ e.token = req[r].token /\ e.since = req[r].since /\ e.seen = req[r].seen
    BY WhereItGoes DEF Pcs
  <2>3. /\ req[r].token = stored[req[r].seen] /\ req[r].seen <= version /\ 1 <= req[r].seen
        /\ req[r].seen \in Nat /\ req[r].token \in Tokens
    BY <2>1 DEF Sound, Proved, Publishing, ReqRecord
  <2> HIDE DEF e
  <2>4. Sound(e)
    BY <2>1, <2>2, <2>3 DEF Sound, Publishing, Proved
  <2>5. SlotInv'
    <3>1. SlotFollows(r, e)
      BY <2>1, <2>2 DEF SlotFollows, HoldsSlot
    <3> QED
      BY <1>1, <2>1, <3>1, SlotKeeps DEF AuthInv, RequestsInv
  <2>6. GenerationsInv' /\ restarts' \in 0..MaxRestarts
    BY <2>1 DEF AuthInv, GenerationsInv
  <2>7. CacheInv'
    <3>1. verified'.generation = req[r].seen /\ verified'.token = req[r].token
      BY <2>1
    <3>2. version \in Nat
      BY GenerationsAreNumbers DEF AuthInv
    <3>3. req[r].seen \in 0..version
      BY <2>3, <3>2
    <3> QED
      BY <2>1, <2>3, <3>1, <3>3 DEF CacheInv
  <2>8. RequestsInv'
    <3>1. \A q \in Requests : Sound(req[q])'
      BY <2>1, <2>4 DEF AuthInv, RequestsInv, Sound
    <3>2. req' \in [Requests -> ReqRecord]
      BY <2>1, <2>2 DEF AuthInv, RequestsInv
    <3> QED
      BY <3>1, <3>2 DEF RequestsInv
  <2> QED
    BY <2>5, <2>6, <2>7, <2>8 DEF AuthInv
<1>13. CASE Serve(r)
    BY <1>1, <1>13, FinishKeeps DEF Serve, HoldsSlot
<1> QED
    BY <1>3, <1>4, <1>5, <1>6, <1>7, <1>8, <1>9, <1>10, <1>11, <1>12, <1>13 DEF Authenticate

(* A rotation: the row is replaced only under the generation the request    *)
(* was let in at, and what is stored by then stays.                         *)
LEMMA RotateKeeps ==
    ASSUME AuthInv, NEW r \in Requests, Rotate(r)
    PROVE  AuthInv'
<1>1. SlotInv /\ (req[r].pc \in HoldsSlot <=> slot = r) /\ req[r].pc = "granted" /\ slot # r /\ slot' = slot
    BY DEF AuthInv, SlotInv, Rotate, At, HoldsSlot
<1>2. CASE Len(stored) # req[r].seen
    BY <1>1, <1>2, FinishKeeps DEF Rotate, credentialVars
<1>3. CASE Len(stored) = req[r].seen
  <2>1. PICK t \in Tokens : /\ stored' = Append(stored, t)
                            /\ req' = [req EXCEPT ![r] = [req[r] EXCEPT !.pc = "publish", !.seen = Len(stored) + 1]]
    BY <1>3 DEF Rotate, AuthInv, RequestsInv
  <2>2. /\ Len(stored) < MaxGeneration /\ UNCHANGED <<version, current, answered, verified, restarts>>
        /\ Sound(req[r]) /\ req[r] \in ReqRecord
    BY <1>3 DEF Rotate, AuthInv, RequestsInv
  <2>3. /\ Len(stored') = Len(stored) + 1 /\ stored' \in Seq(Tokens)
        /\ \A i \in 1..Len(stored) : stored'[i] = stored[i]
    BY <2>1 DEF AuthInv, GenerationsInv
  <2>4. /\ answered \in Nat /\ current \in Nat /\ version \in Nat /\ Len(stored) \in Nat
        /\ 1 <= answered /\ answered <= current /\ current <= version /\ version <= Len(stored)
    BY GenerationsAreNumbers DEF AuthInv
  <2>5. PICK e \in ReqRecord : /\ req' = [req EXCEPT ![r] = e]
                               /\ e.pc = "publish" /\ e.since = req[r].since /\ e.seen = Len(stored) + 1
    <3>1. Len(stored) + 1 \in Nat /\ "publish" \in Pcs
      BY <2>4 DEF Pcs
    <3>2. \A n \in Nat, p \in Pcs : [req[r] EXCEPT !.pc = p, !.seen = n] \in ReqRecord
      BY <2>2 DEF ReqRecord
    <3>3. [req[r] EXCEPT !.pc = "publish", !.seen = Len(stored) + 1] \in ReqRecord
      BY <3>1, <3>2
    <3>4. /\ [req[r] EXCEPT !.pc = "publish", !.seen = Len(stored) + 1].pc = "publish"
          /\ [req[r] EXCEPT !.pc = "publish", !.seen = Len(stored) + 1].since = req[r].since
          /\ [req[r] EXCEPT !.pc = "publish", !.seen = Len(stored) + 1].seen = Len(stored) + 1
      BY <2>2 DEF ReqRecord
    <3> QED
      BY <2>1, <3>3, <3>4
  <2>6. GenerationsInv' /\ restarts' \in 0..MaxRestarts
    <3>1. Len(stored') \in 1..MaxGeneration /\ version \in 1..Len(stored')
      BY <2>2, <2>3, <2>4, AuthAssumption
    <3> QED
      BY <2>2, <2>3, <3>1 DEF AuthInv, GenerationsInv
  <2>7. CacheInv'
    <3>1. verified # NoProof => verified.generation \in 1..Len(stored)
      BY <2>4 DEF AuthInv, CacheInv
    <3> QED
      BY <2>2, <2>3, <3>1 DEF AuthInv, CacheInv
  <2>8. RequestsInv'
    <3>1. Sound(e)'
      <4>1. req[r].since \in Nat /\ req[r].since <= answered
        BY <2>2 DEF Sound, ReqRecord
      <4> QED
        BY <2>2, <2>3, <2>4, <2>5, <4>1 DEF Sound, Publishing, Proved
    <3>2. \A q \in Requests : q # r => Sound(req[q])'
      <4>1. SUFFICES ASSUME NEW q \in Requests, q # r PROVE Sound(req[q])'
        OBVIOUS
      <4>2. Sound(req[q]) /\ req'[q] = req[q] /\ req[q] \in ReqRecord
        BY <2>5, <4>1 DEF AuthInv, RequestsInv
      <4>3. req[q].seen \in Nat
        BY <4>2 DEF ReqRecord
      <4>4. req[q].pc \in Proved => req[q].seen \in 1..Len(stored)
        BY <2>4, <4>2, <4>3 DEF Sound, Proved, Publishing
      <4>5. req[q].pc \in Publishing => req[q].seen <= Len(stored')
        BY <2>3, <2>4, <4>2, <4>3 DEF Sound
      <4> QED
        BY <2>2, <2>3, <4>2, <4>4, <4>5 DEF Sound
    <3>3. req' \in [Requests -> ReqRecord] /\ req'[r] = e
      BY <2>5 DEF AuthInv, RequestsInv
    <3>4. Sound(req[r])'
      BY <3>1, <3>3 DEF Sound
    <3> QED
      BY <3>2, <3>3, <3>4 DEF RequestsInv
  <2>9. SlotInv'
    <3>1. SlotFollows(r, e)
      BY <1>1, <2>5 DEF SlotFollows, HoldsSlot
    <3> QED
      BY <1>1, <2>5, <3>1, SlotKeeps DEF AuthInv, RequestsInv
  <2> QED
    BY <2>6, <2>7, <2>8, <2>9 DEF AuthInv
<1> QED
    BY <1>2, <1>3

(* Publication moves the generations forward only, in the order that lets   *)
(* nobody be proved against one that is not stored.                         *)
LEMMA PublishKeeps ==
    ASSUME AuthInv, NEW r \in Requests, Publish(r)
    PROVE  AuthInv'
<1>1. SlotInv /\ slot # r /\ slot' = slot /\ stored' = stored /\ restarts' = restarts
    BY DEF AuthInv, SlotInv, Publish, PublishVersion, PublishSnapshot, PublishDone, At, HoldsSlot
<1>2. /\ answered \in Nat /\ current \in Nat /\ version \in Nat /\ Len(stored) \in Nat
      /\ 1 <= answered /\ answered <= current /\ current <= version /\ version <= Len(stored)
    BY GenerationsAreNumbers DEF AuthInv
<1>3. PICK e \in ReqRecord :
        /\ req' = [req EXCEPT ![r] = e]
        /\ \/ req[r].pc = "publish" /\ e.pc = "adopt" /\ e.since = req[r].since /\ e.seen = req[r].seen
           \/ req[r].pc = "adopt" /\ e.pc = "clear" /\ e.since = req[r].since /\ e.seen = req[r].seen
           \/ req[r].pc = "clear" /\ e = Idle
        /\ version' = IF e.pc = "adopt" /\ req[r].seen > version THEN req[r].seen ELSE version
        /\ current' = IF e.pc = "clear" /\ req[r].seen > current THEN req[r].seen ELSE current
        /\ answered' = IF e.pc = "idle" /\ req[r].seen > answered THEN req[r].seen ELSE answered
        /\ verified' = IF e.pc = "idle" THEN NoProof ELSE verified
  <2>1. CASE PublishVersion(r)
    <3>1. [req[r] EXCEPT !.pc = "adopt"] \in ReqRecord
      BY WhereItGoes DEF Pcs
    <3> QED
      BY <2>1, <3>1, WhereItGoes DEF PublishVersion, At, Pcs
  <2>2. CASE PublishSnapshot(r)
    <3>1. [req[r] EXCEPT !.pc = "clear"] \in ReqRecord
      BY WhereItGoes DEF Pcs
    <3> QED
      BY <2>2, <3>1, WhereItGoes DEF PublishSnapshot, At, Pcs
  <2>3. CASE PublishDone(r)
    <3>1. Idle \in ReqRecord /\ Idle.pc = "idle"
      BY WhereItGoes DEF Pcs, Sound
    <3> QED
      BY <2>3, <3>1, WhereItGoes DEF PublishDone, At, Pcs
  <2> QED
    BY <2>1, <2>2, <2>3 DEF Publish
<1>4. Sound(req[r]) /\ req[r].seen \in Nat /\ req[r].seen <= Len(stored) /\ 1 <= req[r].seen /\ req[r].since <= req[r].seen
    BY <1>3 DEF AuthInv, RequestsInv, ReqRecord, Sound, Publishing
<1>5. /\ answered' \in Nat /\ current' \in Nat /\ version' \in Nat
      /\ answered <= answered' /\ current <= current' /\ version <= version'
      /\ 1 <= answered' /\ answered' <= current' /\ current' <= version' /\ version' <= Len(stored)
      /\ e.pc = "adopt" => req[r].seen <= version'
      /\ e.pc = "clear" => req[r].seen <= current'
    BY <1>2, <1>3, <1>4 DEF Sound, Idle
<1>6. GenerationsInv'
    BY <1>1, <1>2, <1>5 DEF AuthInv, GenerationsInv
<1>7. CacheInv'
  <2>1. NoProof \in [generation : 0..version', token : Tokens]
    BY <1>5, AuthAssumption DEF NoProof
  <2>2. verified \in [generation : 0..version', token : Tokens]
    BY <1>2, <1>5 DEF AuthInv, CacheInv
  <2> QED
    BY <1>1, <1>3, <2>1, <2>2 DEF AuthInv, CacheInv
<1>8. RequestsInv'
  <2>1. ASSUME NEW q \in Requests, q # r PROVE Sound(req[q])'
    <3>1. Sound(req[q]) /\ req'[q] = req[q] /\ req[q].since \in Nat /\ req[q].seen \in Nat
      BY <1>3, <2>1 DEF AuthInv, RequestsInv, ReqRecord
    <3> QED
      BY <1>1, <1>2, <1>5, <3>1 DEF Sound
  <2>2. req'[r] = e /\ req' \in [Requests -> ReqRecord]
    BY <1>3 DEF AuthInv, RequestsInv
  <2>3. e.since \in Nat /\ e.since <= answered'
    BY <1>2, <1>3, <1>4, <1>5 DEF Sound, Idle, ReqRecord
  <2>4. e.pc \in {"adopt", "clear"} => e.since <= e.seen /\ 1 <= e.seen /\ e.seen <= Len(stored)
    BY <1>3, <1>4 DEF Idle
  <2>5. Sound(req[r])'
    BY <1>1, <1>2, <1>3, <1>4, <1>5, <2>2, <2>3, <2>4 DEF Sound, Publishing, Proved, Idle
  <2> QED
    BY <2>1, <2>2, <2>5 DEF RequestsInv
<1>9. SlotInv'
  <2>1. SlotFollows(r, e)
    BY <1>1, <1>3 DEF SlotFollows, HoldsSlot, Idle
  <2> QED
    BY <1>1, <1>3, <2>1, SlotKeeps DEF AuthInv, RequestsInv
<1> QED
    BY <1>1, <1>6, <1>7, <1>8, <1>9 DEF AuthInv

(* A restart forgets what was not stored.                                   *)
LEMMA RestartKeeps ==
    ASSUME AuthInv, Restart
    PROVE  AuthInv'
<1>1. /\ stored' = stored /\ answered' = answered /\ version' = Len(stored) /\ current' = Len(stored)
      /\ verified' = NoProof /\ slot' = "free" /\ req' = [r \in Requests |-> Idle]
      /\ restarts' \in 0..MaxRestarts
    BY AuthAssumption DEF Restart, AuthInv
<1>2. /\ answered \in Nat /\ version \in Nat /\ Len(stored) \in Nat /\ 1 <= answered /\ answered <= Len(stored)
      /\ 1 <= Len(stored)
    BY GenerationsAreNumbers DEF AuthInv
<1>3. GenerationsInv'
    BY <1>1, <1>2 DEF AuthInv, GenerationsInv
<1>4. CacheInv'
    BY <1>1, <1>2, AuthAssumption DEF CacheInv, NoProof
<1>5. Idle \in ReqRecord
    BY AuthAssumption DEF Idle, ReqRecord, Pcs
<1>6. RequestsInv'
    BY <1>1, <1>2, <1>5 DEF RequestsInv, Sound, Idle, Proved, Publishing
<1>7. SlotInv'
  <2>1. \A r \in Requests : req'[r].pc = "idle"
    BY <1>1 DEF Idle
  <2>2. Waiting' = {}
    BY <2>1 DEF Waiting, At
  <2>3. Cardinality(Waiting') = 0
    BY <2>2, FS_EmptySet
  <2> QED
    BY <1>1, <2>1, <2>3, AuthAssumption DEF SlotInv, HoldsSlot
<1> QED
    BY <1>1, <1>3, <1>4, <1>6, <1>7 DEF AuthInv

(* The invariant holds along every run.                                     *)
LEMMA AuthKeeps == AuthInv /\ [AuthNext]_authVars => AuthInv'
<1> SUFFICES ASSUME AuthInv, [AuthNext]_authVars PROVE AuthInv'
    OBVIOUS
<1>1. ASSUME NEW r \in Requests,
             Begin(r) \/ Authenticate(r) \/ TakeSlot(r) \/ Serve(r) \/ Rotate(r) \/ Publish(r)
      PROVE  AuthInv'
    BY <1>1, BeginKeeps, AuthenticateKeeps, RotateKeeps, PublishKeeps
<1>2. CASE Restart
    BY <1>2, RestartKeeps
<1>3. CASE UNCHANGED authVars
  <2>1. UNCHANGED <<stored, version, current, answered, verified, slot, req, restarts>>
    BY <1>3 DEF authVars
  <2>2. GenerationsInv' /\ CacheInv' /\ restarts' \in 0..MaxRestarts
    BY <2>1 DEF AuthInv, GenerationsInv, CacheInv
  <2>3. RequestsInv'
    BY <2>1 DEF AuthInv, RequestsInv, Sound
  <2>4. SlotInv'
    BY <2>1 DEF AuthInv, SlotInv, Waiting, At
  <2> QED
    BY <2>2, <2>3, <2>4 DEF AuthInv
<1> QED
    BY <1>1, <1>2, <1>3 DEF AuthNext

(* No request or rotation breaks it.                                        *)
LEMMA AuthInductive == AuthSpec => []AuthInv
    BY AuthStarts, AuthKeeps, PTL DEF AuthSpec

LEMMA AuthShape == AuthInv => AuthTypeOK
<1> SUFFICES ASSUME AuthInv PROVE AuthTypeOK
  OBVIOUS
<1>1. /\ answered \in Nat /\ current \in Nat /\ version \in Nat /\ Len(stored) \in Nat
      /\ 1 <= answered /\ answered <= current /\ current <= version /\ version <= Len(stored)
  BY GenerationsAreNumbers DEF AuthInv
<1>2. verified = NoProof \/ verified \in [generation : 1..version, token : Tokens]
  BY <1>1 DEF AuthInv, CacheInv
<1>3. \A r \in Requests : req[r] \in [pc : Pcs, token : Tokens, since : 0..answered, seen : 0..Len(stored)]
  BY <1>1 DEF AuthInv, RequestsInv, Sound, ReqRecord
<1>4. req \in [Requests -> [pc : Pcs, token : Tokens, since : 0..answered, seen : 0..Len(stored)]]
  BY <1>3 DEF AuthInv, RequestsInv
<1> QED
  BY <1>2, <1>4 DEF AuthInv, AuthTypeOK, GenerationsInv, SlotInv

(* Every variable has its shape; the queue keeps its bound and the slot has *)
(* one holder; no generation is ahead of the stored one.                    *)
THEOREM AuthTypesCorrect == AuthSpec => []AuthTypeOK
    BY AuthShape, AuthInductive, PTL

(* A request is let in only on the token of the generation it is let in     *)
(* under, and never on one whose replacement was answered before it arrived *)
(* (authstate/credential.go:204-208).                                       *)
THEOREM OldCredentialsAreRefused == AuthSpec => []GrantsAreCurrent
<1>1. AuthInv => GrantsAreCurrent
  <2> SUFFICES ASSUME AuthInv, NEW r \in Requests, req[r].pc = "granted"
               PROVE  req[r].token = stored[req[r].seen] /\ req[r].seen >= req[r].since
    BY DEF GrantsAreCurrent, At
  <2>1. Sound(req[r]) /\ req[r].since \in Nat /\ req[r].seen \in Nat
    BY DEF AuthInv, RequestsInv, ReqRecord
  <2> QED
    BY <2>1 DEF Sound, Proved
<1> QED
    BY <1>1, AuthInductive, PTL
-----------------------------------------------------------------------------
(* The process: Lifecycle.                                                 *)
Distinct(s) == \A i, j \in 1..Len(s) : s[i] = s[j] => i = j

(* A row at the end of a queue of rows.                                     *)
LEMMA RowAppended ==
    ASSUME NEW S, NEW s \in Seq(S), NEW e \in S
    PROVE  /\ Append(s, e) \in Seq(S) /\ Len(Append(s, e)) = Len(s) + 1
           /\ Range(Append(s, e)) = Range(s) \cup {e}
           /\ Distinct(s) /\ e \notin Range(s) => Distinct(Append(s, e))
<1>1. Append(s, e) \in Seq(S) /\ Len(Append(s, e)) = Len(s) + 1 /\ Len(s) \in Nat
    OBVIOUS
<1>2. /\ \A i \in 1..Len(s) : Append(s, e)[i] = s[i]
      /\ Append(s, e)[Len(s) + 1] = e
    OBVIOUS
<1>3. DOMAIN s = 1..Len(s) /\ DOMAIN Append(s, e) = 1..(Len(s) + 1)
    BY <1>1
<1>4. 1..(Len(s) + 1) = 1..Len(s) \cup {Len(s) + 1}
    BY <1>1
<1>5. Range(Append(s, e)) = Range(s) \cup {e}
    BY <1>2, <1>3, <1>4 DEF Range
<1>6. ASSUME Distinct(s), e \notin Range(s)
      PROVE  Distinct(Append(s, e))
  <2>1. \A i \in 1..Len(s) : Append(s, e)[i] # e
    BY <1>2, <1>3, <1>6 DEF Range
  <2> QED
    BY <1>1, <1>2, <1>4, <1>6, <2>1 DEF Distinct
<1> QED
    BY <1>1, <1>5, <1>6

(* The row at the head of a queue, and the rest.                            *)
LEMMA RowTaken ==
    ASSUME NEW S, NEW s \in Seq(S), s # <<>>
    PROVE  /\ Head(s) \in S /\ Tail(s) \in Seq(S) /\ Len(Tail(s)) = Len(s) - 1 /\ Len(s) \in Nat \ {0}
           /\ Range(s) = {Head(s)} \cup Range(Tail(s))
           /\ Distinct(s) => Distinct(Tail(s)) /\ Head(s) \notin Range(Tail(s))
<1>1. /\ Head(s) \in S /\ Tail(s) \in Seq(S) /\ Len(Tail(s)) = Len(s) - 1 /\ Len(s) \in Nat \ {0}
      /\ Head(s) = s[1]
    OBVIOUS
<1>2. \A i \in 1..(Len(s) - 1) : Tail(s)[i] = s[i + 1]
    BY <1>1
<1>3. DOMAIN s = 1..Len(s) /\ DOMAIN Tail(s) = 1..(Len(s) - 1)
    BY <1>1
<1>4. Range(Tail(s)) \subseteq Range(s)
    BY <1>1, <1>2, <1>3 DEF Range
<1>5. Head(s) \in Range(s)
    BY <1>1, <1>3 DEF Range
<1>6. ASSUME NEW x \in Range(s), x # Head(s) PROVE x \in Range(Tail(s))
  <2>1. PICK i \in 1..Len(s) : s[i] = x
    BY <1>3 DEF Range
  <2>2. i # 1
    BY <1>1, <1>6, <2>1
  <2>3. i - 1 \in 1..(Len(s) - 1) /\ (i - 1) + 1 = i
    BY <1>1, <2>1, <2>2
  <2>4. Tail(s)[i - 1] = x
    BY <1>2, <2>1, <2>3
  <2> QED
    BY <1>3, <2>3, <2>4 DEF Range
<1>7. ASSUME Distinct(s) PROVE Distinct(Tail(s)) /\ Head(s) \notin Range(Tail(s))
  <2>1. \A i \in 1..(Len(s) - 1) : i + 1 \in 1..Len(s) /\ i + 1 # 1
    BY <1>1
  <2>2. Head(s) \notin Range(Tail(s))
    BY <1>1, <1>2, <1>3, <1>7, <2>1 DEF Distinct, Range
  <2>3. \A i, j \in 1..(Len(s) - 1) : i + 1 = j + 1 => i = j
    OBVIOUS
  <2> QED
    BY <1>1, <1>2, <1>7, <2>1, <2>2, <2>3 DEF Distinct
<1> QED
    BY <1>1, <1>4, <1>5, <1>6, <1>7

(* Two queues of rows, one after the other.                                 *)
LEMMA RowsJoined ==
    ASSUME NEW S, NEW a \in Seq(S), NEW b \in Seq(S)
    PROVE  /\ Range(a \o b) = Range(a) \cup Range(b)
           /\ Distinct(a) /\ Distinct(b) /\ Range(a) \cap Range(b) = {} => Distinct(a \o b)
<1>1. /\ a \o b \in Seq(S) /\ Len(a \o b) = Len(a) + Len(b) /\ Len(a) \in Nat /\ Len(b) \in Nat
      /\ \A i \in 1..Len(a) : (a \o b)[i] = a[i]
      /\ \A i \in (Len(a) + 1)..(Len(a) + Len(b)) : (a \o b)[i] = b[i - Len(a)]
    OBVIOUS
<1>2. DOMAIN a = 1..Len(a) /\ DOMAIN b = 1..Len(b) /\ DOMAIN (a \o b) = 1..(Len(a) + Len(b))
    BY <1>1
<1>3. \A i \in 1..(Len(a) + Len(b)) : i \in 1..Len(a) \/ (i \in (Len(a) + 1)..(Len(a) + Len(b)) /\ i - Len(a) \in 1..Len(b))
    BY <1>1
<1>4. \A i \in 1..Len(b) : i + Len(a) \in (Len(a) + 1)..(Len(a) + Len(b)) /\ i + Len(a) \in 1..(Len(a) + Len(b)) /\ (i + Len(a)) - Len(a) = i
    BY <1>1
<1>5. \A i \in 1..Len(a) : i \in 1..(Len(a) + Len(b))
    BY <1>1
<1>6. Range(a \o b) \subseteq Range(a) \cup Range(b)
    BY <1>1, <1>2, <1>3 DEF Range
<1>7. Range(a) \subseteq Range(a \o b)
    BY <1>1, <1>2, <1>5 DEF Range
<1>8. Range(b) \subseteq Range(a \o b)
  <2>1. SUFFICES ASSUME NEW i \in 1..Len(b) PROVE b[i] \in Range(a \o b)
    BY <1>2 DEF Range
  <2>2. (a \o b)[i + Len(a)] = b[i]
    BY <1>1, <1>4
  <2> QED
    BY <1>2, <1>4, <2>2 DEF Range
<1>9. ASSUME Distinct(a), Distinct(b), Range(a) \cap Range(b) = {}
      PROVE  Distinct(a \o b)
  <2>1. SUFFICES ASSUME NEW i \in 1..(Len(a) + Len(b)), NEW j \in 1..(Len(a) + Len(b)), (a \o b)[i] = (a \o b)[j]
                 PROVE  i = j
    BY <1>1 DEF Distinct
  <2>2. CASE i \in 1..Len(a) /\ j \in 1..Len(a)
    BY <1>1, <1>9, <2>1, <2>2 DEF Distinct
  <2>3. CASE i \notin 1..Len(a) /\ j \notin 1..Len(a)
    <3>1. b[i - Len(a)] = b[j - Len(a)] /\ i - Len(a) \in 1..Len(b) /\ j - Len(a) \in 1..Len(b)
      BY <1>1, <1>3, <2>1, <2>3
    <3>2. i - Len(a) = j - Len(a)
      BY <1>9, <3>1 DEF Distinct
    <3> QED
      BY <1>1, <3>2
  <2>4. CASE i \in 1..Len(a) /\ j \notin 1..Len(a)
    <3>1. a[i] = b[j - Len(a)] /\ j - Len(a) \in 1..Len(b)
      BY <1>1, <1>3, <2>1, <2>4
    <3> QED
      BY <1>2, <1>9, <2>4, <3>1 DEF Range
  <2>5. CASE i \notin 1..Len(a) /\ j \in 1..Len(a)
    <3>1. a[j] = b[i - Len(a)] /\ i - Len(a) \in 1..Len(b)
      BY <1>1, <1>3, <2>1, <2>5
    <3> QED
      BY <1>2, <1>9, <2>5, <3>1 DEF Range
  <2> QED
    BY <2>2, <2>3, <2>4, <2>5
<1> QED
    BY <1>6, <1>7, <1>8, <1>9

\* Where a row is.
Queued == Range(queue)
Batched == Range(logWriter.batch)
Decided == saved \cup lost \cup cutOff

LifeTypes ==
    /\ phase \in {"starting", "unbound", "serving", "draining", "closing", "waited", "cancelled", "closed", "exited"}
    /\ jobsLive \in BOOLEAN /\ drained \in BOOLEAN /\ databaseOpen \in BOOLEAN /\ queueOpen \in BOOLEAN
    /\ handler \in [Handlers -> {"none", "running", "ended"}]
    /\ queue \in Seq(Handlers) /\ Len(queue) <= QueueCapacity
    /\ logWriter \in [at : {"waiting", "collecting", "writing", "done"}, batch : Seq(Handlers), last : BOOLEAN]
    /\ Len(logWriter.batch) <= BatchSize /\ accepted \subseteq Handlers

\* A row is in one place, and comes from a handler that ended.
RowsInv ==
    /\ Distinct(queue) /\ Distinct(logWriter.batch)
    /\ Queued \cap Batched = {} /\ (Queued \cup Batched) \cap Decided = {}
    /\ accepted = Queued \cup Batched \cup Decided
    /\ \A h \in accepted : handler[h] = "ended"

\* The writer returns only from a closed and empty queue, with nothing in hand.
WriterInv ==
    /\ logWriter.at \in {"waiting", "done"} => logWriter.batch = <<>>
    /\ logWriter.at = "done" \/ logWriter.last => ~queueOpen /\ queue = <<>>

\* The database closes last, and under a writer that is done.
ClosingInv ==
    /\ drained => logWriter.at = "done"
    /\ cutOff = {}
    /\ phase \in {"closed", "exited"} => databaseOpen = ~drained
    /\ phase \notin {"closed", "exited"} => databaseOpen
    /\ phase \in {"unbound", "cancelled", "closed", "exited"} => ~jobsLive

LifeInv == LifeTypes /\ RowsInv /\ WriterInv /\ ClosingInv

(* The process starts with everything open and no row.                      *)
LEMMA LifeStarts == LifeInit => LifeInv
<1> SUFFICES ASSUME LifeInit PROVE LifeInv
    OBVIOUS
<1>1. queue = <<>> /\ logWriter = WriterIdle /\ logWriter.batch = <<>> /\ logWriter.at = "waiting" /\ logWriter.last = FALSE
    BY DEF LifeInit, WriterIdle
<1>2. Range(queue) = {} /\ Range(logWriter.batch) = {} /\ Distinct(queue) /\ Distinct(logWriter.batch)
    BY <1>1 DEF Range, Distinct
<1>3. LifeTypes
  <2>1. <<>> \in Seq(Handlers) /\ Len(<<>>) = 0
    OBVIOUS
  <2>2. 0 <= QueueCapacity /\ 0 <= BatchSize
    BY LifecycleAssumption
  <2>3. logWriter \in [at : {"waiting", "collecting", "writing", "done"}, batch : Seq(Handlers), last : BOOLEAN]
    BY <1>1, <2>1 DEF WriterIdle
  <2> QED
    BY <1>1, <2>1, <2>2, <2>3 DEF LifeInit, LifeTypes
<1>4. RowsInv /\ WriterInv /\ ClosingInv
    BY <1>1, <1>2 DEF LifeInit, RowsInv, WriterInv, ClosingInv, Queued, Batched, Decided
<1> QED
    BY <1>3, <1>4 DEF LifeInv

(* The main goroutine: no step of it moves a row.                           *)
LEMMA MainKeeps ==
    ASSUME LifeInv,
           \/ Listen \/ BindFails \/ Interrupt \/ ListenerFails \/ RequestsDrained \/ RequestsOutliveDrain
           \/ QueueDrained \/ QueueOutlivesDrain \/ CancelJobs \/ CloseDatabase \/ Exit
    PROVE  LifeInv'
<1> USE DEF Go, KeepOpen
<1>1. UNCHANGED <<handler, queueVars, logWriter, rowVars>>
    BY DEF Listen, BindFails, Interrupt, ListenerFails, RequestsDrained, RequestsOutliveDrain,
           QueueDrained, QueueOutlivesDrain, CancelJobs, CloseDatabase, Exit
<1>2. LifeTypes'
    BY <1>1 DEF LifeInv, LifeTypes, Listen, BindFails, Interrupt, ListenerFails, RequestsDrained, RequestsOutliveDrain,
           QueueDrained, QueueOutlivesDrain, CancelJobs, CloseDatabase, Exit, queueVars, rowVars
<1>3. RowsInv' /\ WriterInv'
    BY <1>1 DEF LifeInv, RowsInv, WriterInv, Queued, Batched, Decided, Distinct, queueVars, rowVars
<1>4. ClosingInv'
    BY <1>1 DEF LifeInv, LifeTypes, ClosingInv, Listen, BindFails, Interrupt, ListenerFails, RequestsDrained,
           RequestsOutliveDrain, QueueDrained, QueueOutlivesDrain, CancelJobs, CloseDatabase, Exit, queueVars, rowVars
<1> QED
    BY <1>2, <1>3, <1>4 DEF LifeInv

(* The queue is closed.                                                     *)
LEMMA CloseQueueKeeps ==
    ASSUME LifeInv, CloseQueue
    PROVE  LifeInv'
<1>1. UNCHANGED <<mainVars, handler, queue, logWriter, rowVars>> /\ queueOpen' = FALSE
    BY DEF CloseQueue
<1>2. LifeTypes'
    BY <1>1 DEF LifeInv, LifeTypes, mainVars, rowVars
<1>3. RowsInv' /\ WriterInv' /\ ClosingInv'
    BY <1>1 DEF LifeInv, RowsInv, WriterInv, ClosingInv, Queued, Batched, Decided, Distinct, mainVars, rowVars
<1> QED
    BY <1>2, <1>3 DEF LifeInv

(* A request comes, and ends: its row is queued unless it is dropped.       *)
LEMMA HandlersKeep ==
    ASSUME LifeInv, NEW h \in Handlers, Accept(h) \/ Answered(h)
    PROVE  LifeInv'
<1>1. UNCHANGED <<mainVars, queueOpen, logWriter, saved, lost, cutOff>>
    BY DEF Accept, Answered, queueVars, rowVars
<1>2. handler' \in [Handlers -> {"none", "running", "ended"}] /\ \A g \in Handlers : handler[g] = "ended" => handler'[g] = "ended"
    BY DEF LifeInv, LifeTypes, Accept, Answered
<1>3. CASE UNCHANGED <<queue, accepted>>
  <2>1. LifeTypes'
    BY <1>1, <1>2, <1>3 DEF LifeInv, LifeTypes, mainVars
  <2>2. RowsInv' /\ WriterInv' /\ ClosingInv'
    BY <1>1, <1>2, <1>3 DEF LifeInv, LifeTypes, RowsInv, WriterInv, ClosingInv, Queued, Batched, Decided, Distinct, mainVars
  <2> QED
    BY <2>1, <2>2 DEF LifeInv
<1>4. CASE ~UNCHANGED <<queue, accepted>>
  <2>1. /\ queueOpen /\ Len(queue) < QueueCapacity /\ queue' = Append(queue, h) /\ accepted' = accepted \cup {h}
        /\ handler[h] = "running" /\ handler'[h] = "ended"
    BY <1>4 DEF Accept, Answered, queueVars, rowVars, LifeInv, LifeTypes
  <2>2. h \notin accepted /\ queue \in Seq(Handlers)
    BY <2>1 DEF LifeInv, RowsInv, LifeTypes
  <2>3. /\ queue' \in Seq(Handlers) /\ Len(queue') = Len(queue) + 1 /\ Range(queue') = Range(queue) \cup {h}
        /\ Distinct(queue) /\ h \notin Range(queue) => Distinct(queue')
    BY <2>1, <2>2, RowAppended
  <2>4. Len(queue') <= QueueCapacity
    BY <2>1, <2>2, <2>3, LifecycleAssumption
  <2>5. LifeTypes'
    BY <1>1, <1>2, <2>1, <2>3, <2>4 DEF LifeInv, LifeTypes, mainVars
  <2>6. RowsInv'
    <3>1. Distinct(queue') /\ Distinct(logWriter'.batch)
      BY <1>1, <2>2, <2>3 DEF LifeInv, RowsInv, Queued
    <3>2. Queued' = Queued \cup {h} /\ Batched' = Batched /\ Decided' = Decided
      BY <1>1, <2>3 DEF Queued, Batched, Decided
    <3>3. \A g \in accepted' : handler'[g] = "ended"
      BY <1>2, <2>1 DEF LifeInv, LifeTypes, RowsInv
    <3> QED
      BY <2>1, <2>2, <3>1, <3>2, <3>3 DEF LifeInv, RowsInv
  <2>7. WriterInv' /\ ClosingInv'
    BY <1>1, <2>1 DEF LifeInv, WriterInv, ClosingInv, mainVars
  <2> QED
    BY <2>5, <2>6, <2>7 DEF LifeInv
<1> QED
    BY <1>3, <1>4

(* The writer takes the row at the head of the queue.                       *)
LEMMA TakesKeep ==
    ASSUME LifeInv, TakeRow \/ CollectRow
    PROVE  LifeInv'
<1> DEFINE b == logWriter.batch
<1>1. /\ UNCHANGED <<mainVars, handler, queueOpen, rowVars>> /\ queue # <<>> /\ queue' = Tail(queue)
      /\ logWriter'.at = "collecting" /\ logWriter'.last = FALSE /\ logWriter.at \in {"waiting", "collecting"}
    BY DEF TakeRow, CollectRow, TakeNext, Work
<1>2. queue \in Seq(Handlers) /\ b \in Seq(Handlers)
    BY DEF LifeInv, LifeTypes
<1>3. /\ Head(queue) \in Handlers /\ queue' \in Seq(Handlers) /\ Len(queue') = Len(queue) - 1 /\ Len(queue) \in Nat
      /\ Range(queue) = {Head(queue)} \cup Range(queue')
      /\ Distinct(queue) => Distinct(queue') /\ Head(queue) \notin Range(queue')
    BY <1>1, <1>2, RowTaken
<1>4. logWriter' = [at |-> "collecting", batch |-> Append(b, Head(queue)), last |-> FALSE] /\ Len(b) < BatchSize
  <2>1. CASE TakeRow
    <3>1. b = <<>>
      BY <2>1 DEF TakeRow, LifeInv, WriterInv
    <3>2. Append(<<>>, Head(queue)) = <<Head(queue)>> /\ Len(<<>>) = 0
      OBVIOUS
    <3> QED
      BY <2>1, <3>1, <3>2, LifecycleAssumption DEF TakeRow, Work
  <2>2. CASE CollectRow
    BY <2>2 DEF CollectRow, Work
  <2> QED
    BY <2>1, <2>2
<1>5. /\ Append(b, Head(queue)) \in Seq(Handlers) /\ Len(Append(b, Head(queue))) = Len(b) + 1 /\ Len(b) \in Nat
      /\ Range(Append(b, Head(queue))) = Range(b) \cup {Head(queue)}
      /\ Distinct(b) /\ Head(queue) \notin Range(b) => Distinct(Append(b, Head(queue)))
    BY <1>2, <1>3, RowAppended
<1>6. logWriter'.batch = Append(b, Head(queue))
    BY <1>4
<1>7. LifeTypes'
  <2>1. Len(queue') <= QueueCapacity /\ Len(logWriter'.batch) <= BatchSize
    BY <1>3, <1>4, <1>5, <1>6, LifecycleAssumption DEF LifeInv, LifeTypes
  <2> QED
    BY <1>1, <1>3, <1>4, <1>5, <2>1 DEF LifeInv, LifeTypes, mainVars, rowVars
<1>8. RowsInv'
  <2>1. /\ Queued = {Head(queue)} \cup Queued' /\ Head(queue) \notin Queued' /\ Batched' = Batched \cup {Head(queue)}
        /\ Decided' = Decided /\ accepted' = accepted /\ handler' = handler
    BY <1>1, <1>3, <1>5, <1>6 DEF Queued, Batched, Decided, LifeInv, RowsInv, rowVars
  <2>2. Distinct(queue') /\ Distinct(logWriter'.batch)
    BY <1>3, <1>5, <1>6, <2>1 DEF LifeInv, RowsInv, Queued, Batched
  <2> QED
    BY <2>1, <2>2 DEF LifeInv, RowsInv
<1>9. WriterInv' /\ ClosingInv'
    BY <1>1 DEF LifeInv, WriterInv, ClosingInv, mainVars, rowVars
<1> QED
    BY <1>7, <1>8, <1>9 DEF LifeInv

(* It returns, or begins to write what it holds.                            *)
LEMMA TurnsKeep ==
    ASSUME LifeInv, WriterReturns \/ FlushDue
    PROVE  LifeInv'
<1>1. UNCHANGED <<mainVars, handler, queue, queueOpen, rowVars>>
    BY DEF WriterReturns, FlushDue, Work
<1>2. /\ logWriter'.batch = logWriter.batch
      /\ logWriter' \in [at : {"waiting", "collecting", "writing", "done"}, batch : Seq(Handlers), last : BOOLEAN]
      /\ logWriter'.at = "done" \/ logWriter'.last => ~queueOpen /\ queue = <<>>
      /\ logWriter'.at = "done" => logWriter.batch = <<>>
      /\ logWriter'.at \in {"done", "writing"} /\ logWriter.at # "done"
  <2>1. CASE WriterReturns
    <3>1. logWriter.batch = <<>> /\ logWriter.batch \in Seq(Handlers)
      BY <2>1 DEF WriterReturns, LifeInv, WriterInv, LifeTypes
    <3> QED
      BY <2>1, <3>1 DEF WriterReturns, Work
  <2>2. CASE FlushDue
    <3>1. PICK last \in {FALSE, queue = <<>> /\ ~queueOpen} : Work("writing", logWriter.batch, last)
      BY <2>2 DEF FlushDue
    <3>2. logWriter.batch \in Seq(Handlers) /\ last \in BOOLEAN /\ logWriter.at = "collecting"
      BY <2>2, <3>1 DEF LifeInv, LifeTypes, FlushDue
    <3> QED
      BY <3>1, <3>2 DEF Work
  <2> QED
    BY <2>1, <2>2
<1>3. LifeTypes'
    BY <1>1, <1>2 DEF LifeInv, LifeTypes, mainVars, rowVars
<1>4. RowsInv'
    BY <1>1, <1>2 DEF LifeInv, RowsInv, Queued, Batched, Decided, Distinct, rowVars
<1>5. WriterInv' /\ ClosingInv'
    BY <1>1, <1>2 DEF LifeInv, WriterInv, ClosingInv, mainVars, rowVars
<1> QED
    BY <1>3, <1>4, <1>5 DEF LifeInv

(* What it writes is decided while the database is open, and it is open     *)
(* under a writer that has something to write.                              *)
LEMMA FlushKeeps ==
    ASSUME LifeInv, Flush
    PROVE  LifeInv'
<1>1. /\ UNCHANGED <<mainVars, handler, queueVars, accepted>> /\ logWriter.at = "writing"
      /\ logWriter' = [at |-> IF logWriter.last THEN "done" ELSE "waiting", batch |-> <<>>, last |-> FALSE]
    BY DEF Flush, Work, queueVars
<1>2. databaseOpen
  <2>1. ~drained
    BY <1>1 DEF LifeInv, ClosingInv
  <2>2. Running
    BY DEF Flush, Work
  <2> QED
    BY <2>1, <2>2 DEF LifeInv, ClosingInv, Running
<1>3. cutOff' = cutOff /\ saved' \cup lost' = saved \cup lost \cup Batched
    BY <1>2 DEF Flush, Batched
<1>4. logWriter'.batch = <<>> /\ Range(<<>>) = {} /\ Distinct(<<>>) /\ <<>> \in Seq(Handlers) /\ Len(<<>>) = 0
    BY <1>1 DEF Range, Distinct
<1>5. LifeTypes'
    BY <1>1, <1>4, LifecycleAssumption DEF LifeInv, LifeTypes, mainVars, queueVars
<1>6. RowsInv'
  <2>1. Queued' = Queued /\ Batched' = {} /\ Decided' = Decided \cup Batched
    BY <1>1, <1>3, <1>4 DEF Queued, Batched, Decided, queueVars
  <2>2. Distinct(queue') /\ Distinct(logWriter'.batch)
    BY <1>1, <1>4 DEF LifeInv, RowsInv, queueVars, Distinct
  <2> QED
    BY <1>1, <2>1, <2>2 DEF LifeInv, RowsInv
<1>7. WriterInv' /\ ClosingInv'
    BY <1>1, <1>3, <1>4 DEF LifeInv, LifeTypes, WriterInv, ClosingInv, mainVars, queueVars
<1> QED
    BY <1>5, <1>6, <1>7 DEF LifeInv

(* The invariant holds along every run.                                     *)
LEMMA LifeKeeps == LifeInv /\ [LifeNext]_lifeVars => LifeInv'
<1> SUFFICES ASSUME LifeInv, [LifeNext]_lifeVars PROVE LifeInv'
    OBVIOUS
<1>1. CASE UNCHANGED lifeVars
  <2>1. LifeTypes'
    BY <1>1 DEF LifeInv, LifeTypes, lifeVars, mainVars, queueVars, rowVars
  <2>2. RowsInv' /\ WriterInv' /\ ClosingInv'
    BY <1>1 DEF LifeInv, RowsInv, WriterInv, ClosingInv, Queued, Batched, Decided, Distinct,
                lifeVars, mainVars, queueVars, rowVars
  <2> QED
    BY <2>1, <2>2 DEF LifeInv
<1>2. CASE LifeNext
    BY <1>2, MainKeeps, CloseQueueKeeps, HandlersKeep, TakesKeep, TurnsKeep, FlushKeeps DEF LifeNext
<1> QED
    BY <1>1, <1>2

(* Neither the handlers, the writer nor a shutdown break it.                *)
LEMMA LifeInductive == LifeSpec => []LifeInv
    BY LifeStarts, LifeKeeps, PTL DEF LifeSpec

LEMMA LifeShape == LifeInv => LifeTypeOK
<1> SUFFICES ASSUME LifeInv PROVE LifeTypeOK
  OBVIOUS
<1> DEFINE atHand == queue \o logWriter.batch
<1>1. queue \in Seq(Handlers) /\ logWriter.batch \in Seq(Handlers)
  BY DEF LifeInv, LifeTypes
<1>2. Range(atHand) = Queued \cup Batched /\ Distinct(atHand)
  BY <1>1, RowsJoined DEF LifeInv, RowsInv, Queued, Batched
<1> HIDE DEF atHand
<1>3. /\ \A i, j \in 1..Len(atHand) : atHand[i] = atHand[j] => i = j
      /\ accepted = Range(atHand) \cup saved \cup lost \cup cutOff
      /\ Range(atHand) \cap (saved \cup lost \cup cutOff) = {}
  BY <1>2 DEF LifeInv, RowsInv, Decided, Distinct
<1> QED
  BY <1>3 DEF LifeInv, LifeTypes, LifeTypeOK, atHand

(* A row is queued, in the writer's hands, or decided, and only once.       *)
THEOREM LifeTypesCorrect == LifeSpec => []LifeTypeOK
    BY LifeShape, LifeInductive, PTL

(* A shutdown loses no row it did not give up waiting for                   *)
(* (app/server.go:219-241, proxy/logging.go:424-430).                       *)
THEOREM ShutdownLosesNoRow == LifeSpec => []ShutdownKeepsRows
<1>1. LifeInv => ShutdownKeepsRows
  <2> SUFFICES ASSUME LifeInv PROVE ShutdownKeepsRows
    OBVIOUS
  <2>1. drained => queue = <<>> /\ logWriter.batch = <<>>
    BY DEF LifeInv, ClosingInv, WriterInv
  <2>2. drained => Queued = {} /\ Batched = {}
    BY <2>1 DEF Queued, Batched, Range
  <2> QED
    BY <2>2 DEF LifeInv, RowsInv, ClosingInv, Decided, ShutdownKeepsRows
<1> QED
    BY <1>1, LifeInductive, PTL
-----------------------------------------------------------------------------
(* The channels' health: HealthScores.                                     *)
(* Whole intervals of a time, as the code divides.                          *)
LEMMA DivideBounds ==
    ASSUME NEW a \in Nat, NEW i \in Nat \ {0}
    PROVE  a \div i \in Nat /\ i * (a \div i) <= a /\ a < i * ((a \div i) + 1)
  OBVIOUS

(* Products grow with their factor.                                         *)
LEMMA ProductsGrow ==
    ASSUME NEW i \in Nat, NEW p \in Nat, NEW q \in Nat, p <= q
    PROVE  i * p <= i * q /\ i * p \in Nat /\ i * q \in Nat
  OBVIOUS

(* And with their sum.                                                      *)
LEMMA ProductsAdd ==
    ASSUME NEW i \in Nat, NEW p \in Nat, NEW q \in Nat
    PROVE  i * (p + q) = i * p + i * q
  OBVIOUS

(* There is one number of whole intervals.                                  *)
LEMMA DivideUnique ==
    ASSUME NEW a \in Nat, NEW i \in Nat \ {0}, NEW q \in Nat, i * q <= a, a < i * (q + 1)
    PROVE  a \div i = q
<1>1. a \div i \in Nat /\ i * (a \div i) <= a /\ a < i * ((a \div i) + 1)
    BY DivideBounds
<1>2. CASE a \div i < q
  <2>1. i * ((a \div i) + 1) <= i * q
    BY <1>1, <1>2, ProductsGrow
  <2> QED
    BY <1>1, <2>1
<1>3. CASE q < a \div i
  <2>1. i * (q + 1) <= i * (a \div i)
    BY <1>1, <1>3, ProductsGrow
  <2> QED
    BY <1>1, <2>1
<1> QED
    BY <1>1, <1>2, <1>3

\* A kept entry, and one at any score.
KeptEntry == [score : 0..(MaxHealthScore - 1), at : 0..healthNow]
Scored == [score : 0..MaxHealthScore, at : 0..healthNow]
Interval == policy.interval
Elapsed(r) == (healthNow - r.at) \div Interval

\* s is r after some of its intervals were credited.
Behind(s, r) ==
    \E m \in Nat : /\ s.at = r.at + Interval * m
                   /\ s.score = r.score + policy.recovery * m
                   /\ policy.recovery = 0 => m = 0

FullAgain(r) == Recover(r).score = MaxHealthScore

PolicyInv == policy \in Policies /\ healthNow \in 0..MaxHealthNow

EntriesFit(E) ==
    /\ E = [u \in DOMAIN E |-> E[u]] /\ DOMAIN E \subseteq Upstreams
    /\ \A u \in DOMAIN E : E[u] \in KeptEntry

\* Of what is kept some intervals may have been credited; what is not kept is full.
AsUnread(u) ==
    /\ u \in DOMAIN states => u \in DOMAIN unread /\ Behind(states[u], unread[u])
    /\ u \in DOMAIN unread /\ u \notin DOMAIN states => FullAgain(unread[u])

HealthInv ==
    /\ PolicyInv /\ EntriesFit(states) /\ EntriesFit(unread)
    /\ \A u \in Upstreams : AsUnread(u)

(* The policy and the clock are numbers.                                    *)
LEMMA PolicyNumbers ==
    ASSUME PolicyInv
    PROVE  /\ policy.penalty \in Nat /\ policy.credit \in Nat /\ policy.recovery \in Nat
           /\ Interval \in Nat \ {0} /\ healthNow \in Nat /\ MaxHealthScore \in Nat \ {0}
    BY HealthAssumption DEF PolicyInv, Interval

(* Time since an entry was adjusted, in whole intervals.                    *)
LEMMA ElapsedIsWhole ==
    ASSUME PolicyInv, NEW r \in Scored
    PROVE  /\ Elapsed(r) \in Nat /\ Interval * Elapsed(r) \in Nat
           /\ r.at + Interval * Elapsed(r) <= healthNow
           /\ healthNow < r.at + Interval * (Elapsed(r) + 1)
<1>1. healthNow \in Nat /\ Interval \in Nat \ {0} /\ r.at \in 0..healthNow
    BY PolicyNumbers DEF Scored
<1>2. healthNow - r.at \in Nat /\ r.at \in Nat
    BY <1>1
<1>3. /\ Elapsed(r) \in Nat /\ Interval * Elapsed(r) <= healthNow - r.at
      /\ healthNow - r.at < Interval * (Elapsed(r) + 1)
    BY <1>1, <1>2, DivideBounds DEF Elapsed
<1>4. Interval * Elapsed(r) \in Nat /\ Interval * (Elapsed(r) + 1) \in Nat
    BY <1>1, <1>3, ProductsGrow
<1> QED
    BY <1>1, <1>2, <1>3, <1>4

(* What recovery makes of an entry, case by case.                           *)
LEMMA Recovered ==
    ASSUME PolicyInv, NEW r \in Scored
    PROVE  /\ Recover(r) \in Scored
           /\ policy.recovery * Elapsed(r) \in Nat
           /\ r.score = MaxHealthScore \/ policy.recovery = 0 \/ Elapsed(r) = 0 => Recover(r) = r
           /\ r.score # MaxHealthScore /\ policy.recovery # 0 /\ Elapsed(r) # 0 =>
                /\ Recover(r).at = r.at + Interval * Elapsed(r)
                /\ Recover(r).score = IF r.score + policy.recovery * Elapsed(r) > MaxHealthScore
                                      THEN MaxHealthScore ELSE r.score + policy.recovery * Elapsed(r)
<1>1. /\ Elapsed(r) \in Nat /\ Interval * Elapsed(r) \in Nat /\ r.at + Interval * Elapsed(r) <= healthNow
      /\ MaxHealthScore \in Nat \ {0} /\ healthNow \in Nat /\ policy.recovery \in Nat
    BY ElapsedIsWhole, PolicyNumbers
<1>2. r.score \in 0..MaxHealthScore /\ r.at \in 0..healthNow
    BY DEF Scored
<1>3. policy.recovery * Elapsed(r) \in Nat
    BY <1>1, ProductsGrow
<1> DEFINE score == IF r.score + policy.recovery * Elapsed(r) > MaxHealthScore
                    THEN MaxHealthScore ELSE r.score + policy.recovery * Elapsed(r)
           at == r.at + Interval * Elapsed(r)
<1>4. score \in 0..MaxHealthScore /\ at \in 0..healthNow
    BY <1>1, <1>2, <1>3
<1>5. Recover(r) = IF r.score >= MaxHealthScore \/ policy.recovery = 0 \/ Elapsed(r) = 0
                   THEN r ELSE [score |-> score, at |-> at]
    BY DEF Recover, Elapsed, Interval
<1>6. r.score >= MaxHealthScore <=> r.score = MaxHealthScore
  <2>1. \A n \in 0..MaxHealthScore : n >= MaxHealthScore <=> n = MaxHealthScore
    BY <1>1
  <2> QED
    BY <1>2, <2>1
<1> HIDE DEF score, at
<1>7. Recover(r) \in Scored
    BY <1>4, <1>5 DEF Scored
<1>8. /\ r.score = MaxHealthScore \/ policy.recovery = 0 \/ Elapsed(r) = 0 => Recover(r) = r
      /\ r.score # MaxHealthScore /\ policy.recovery # 0 /\ Elapsed(r) # 0 =>
           Recover(r).at = at /\ Recover(r).score = score
    BY <1>5, <1>6
<1> QED
    BY <1>3, <1>7, <1>8 DEF score, at

(* Crediting some of the intervals first makes no difference.               *)
LEMMA BehindRecovers ==
    ASSUME PolicyInv, NEW s \in KeptEntry, NEW r \in KeptEntry, Behind(s, r)
    PROVE  Recover(s) = Recover(r)
<1>1. PICK m \in Nat : /\ s.at = r.at + Interval * m /\ s.score = r.score + policy.recovery * m
                       /\ policy.recovery = 0 => m = 0
    BY DEF Behind
<1>2. /\ policy.recovery \in Nat /\ Interval \in Nat \ {0} /\ healthNow \in Nat /\ MaxHealthScore \in Nat \ {0}
      /\ s \in Scored /\ r \in Scored
      /\ s.at \in 0..healthNow /\ r.at \in 0..healthNow /\ s.score \in 0..(MaxHealthScore - 1)
      /\ r.score \in 0..(MaxHealthScore - 1)
    BY PolicyNumbers DEF KeptEntry, Scored
<1>3. Interval * m \in Nat /\ policy.recovery * m \in Nat
    BY <1>2, ProductsGrow
<1>4. CASE m = 0
  <2>1. Interval * m = 0 /\ policy.recovery * m = 0
    BY <1>2, <1>4
  <2>2. s.at = r.at /\ s.score = r.score
    BY <1>1, <1>2, <2>1
  <2>3. s = r
    BY <2>2 DEF KeptEntry
  <2> QED
    BY <2>3
<1>5. CASE m # 0
  <2>1. policy.recovery # 0
    BY <1>1, <1>5
  <2>2. /\ Elapsed(s) \in Nat /\ Interval * Elapsed(s) \in Nat /\ s.at + Interval * Elapsed(s) <= healthNow
        /\ healthNow < s.at + Interval * (Elapsed(s) + 1)
    BY <1>2, ElapsedIsWhole
  <2>3. /\ Interval * (m + Elapsed(s)) = Interval * m + Interval * Elapsed(s)
        /\ Interval * (m + (Elapsed(s) + 1)) = Interval * m + Interval * (Elapsed(s) + 1)
        /\ policy.recovery * (m + Elapsed(s)) = policy.recovery * m + policy.recovery * Elapsed(s)
        /\ policy.recovery * Elapsed(s) \in Nat /\ Interval * (Elapsed(s) + 1) \in Nat
    <3>1. Elapsed(s) + 1 \in Nat
      BY <2>2
    <3> QED
      BY <1>2, <2>2, <3>1, ProductsAdd, ProductsGrow
  <2>4. Elapsed(r) = m + Elapsed(s)
    <3>1. healthNow - r.at \in Nat /\ m + Elapsed(s) \in Nat /\ (m + Elapsed(s)) + 1 = m + (Elapsed(s) + 1)
      BY <1>2, <2>2
    <3>2. Interval * (m + Elapsed(s)) <= healthNow - r.at
      BY <1>1, <1>2, <1>3, <2>2, <2>3
    <3>3. healthNow - r.at < Interval * ((m + Elapsed(s)) + 1)
      BY <1>1, <1>2, <1>3, <2>2, <2>3, <3>1
    <3> QED
      BY <1>2, <3>1, <3>2, <3>3, DivideUnique DEF Elapsed
  <2>5. Elapsed(r) # 0 /\ r.score # MaxHealthScore /\ s.score # MaxHealthScore
    BY <1>2, <1>5, <2>2, <2>4
  <2>6. /\ Recover(r) \in Scored /\ Recover(r).at = r.at + Interval * Elapsed(r)
        /\ Recover(r).score = IF r.score + policy.recovery * Elapsed(r) > MaxHealthScore
                              THEN MaxHealthScore ELSE r.score + policy.recovery * Elapsed(r)
    BY <1>2, <2>1, <2>5, Recovered
  <2>7. /\ r.at + Interval * Elapsed(r) = s.at + Interval * Elapsed(s)
        /\ r.score + policy.recovery * Elapsed(r) = s.score + policy.recovery * Elapsed(s)
    BY <1>1, <1>2, <1>3, <2>2, <2>3, <2>4
  <2>8. CASE Elapsed(s) = 0
    <3>1. Recover(s) = s
      BY <1>2, <2>8, Recovered
    <3>2. Interval * Elapsed(s) = 0 /\ policy.recovery * Elapsed(s) = 0
      BY <1>2, <2>8
    <3>3. Recover(r).at = s.at /\ Recover(r).score = s.score
      BY <1>2, <2>6, <2>7, <3>2
    <3> QED
      BY <1>2, <2>6, <3>1, <3>3 DEF Scored
  <2>9. CASE Elapsed(s) # 0
    <3>1. /\ Recover(s) \in Scored /\ Recover(s).at = s.at + Interval * Elapsed(s)
          /\ Recover(s).score = IF s.score + policy.recovery * Elapsed(s) > MaxHealthScore
                                THEN MaxHealthScore ELSE s.score + policy.recovery * Elapsed(s)
      BY <1>2, <2>1, <2>5, <2>9, Recovered
    <3>2. Recover(s).at = Recover(r).at /\ Recover(s).score = Recover(r).score
      BY <2>6, <2>7, <3>1
    <3> QED
      BY <2>6, <3>1, <3>2 DEF Scored
  <2> QED
    BY <2>8, <2>9
<1> QED
    BY <1>4, <1>5

(* What is credited and not yet full is behind what was not.                *)
LEMMA RecoveryIsBehind ==
    ASSUME PolicyInv, NEW r \in KeptEntry, Recover(r).score # MaxHealthScore
    PROVE  Recover(r) \in KeptEntry /\ Behind(Recover(r), r)
<1>1. /\ policy.recovery \in Nat /\ Interval \in Nat \ {0} /\ MaxHealthScore \in Nat \ {0}
      /\ r \in Scored /\ r.score \in 0..(MaxHealthScore - 1) /\ r.at \in Nat
    BY PolicyNumbers DEF KeptEntry, Scored
<1>2. Recover(r) \in Scored /\ Elapsed(r) \in Nat
    BY <1>1, Recovered, ElapsedIsWhole
<1>3. Recover(r) \in KeptEntry
  <2>1. Recover(r).score \in 0..(MaxHealthScore - 1)
    BY <1>1, <1>2 DEF Scored
  <2> QED
    BY <1>2, <2>1 DEF Scored, KeptEntry
<1>4. CASE policy.recovery = 0 \/ Elapsed(r) = 0
  <2>1. Recover(r) = r
    BY <1>1, <1>4, Recovered
  <2>2. Interval * 0 = 0 /\ policy.recovery * 0 = 0
    BY <1>1
  <2>3. r.at = r.at + Interval * 0 /\ r.score = r.score + policy.recovery * 0
    BY <1>1, <2>2
  <2> QED
    BY <1>3, <2>1, <2>3 DEF Behind
<1>5. CASE policy.recovery # 0 /\ Elapsed(r) # 0
  <2>1. /\ Recover(r).at = r.at + Interval * Elapsed(r)
        /\ Recover(r).score = r.score + policy.recovery * Elapsed(r)
    BY <1>1, <1>5, Recovered
  <2> QED
    BY <1>2, <1>3, <1>5, <2>1 DEF Behind
<1> QED
    BY <1>4, <1>5

(* A channel that would be full again stays so.                             *)
LEMMA FullStaysFull ==
    ASSUME PolicyInv, HealthTick, NEW r \in KeptEntry, FullAgain(r)
    PROVE  FullAgain(r)'
<1>1. /\ policy' = policy /\ healthNow' = healthNow + 1 /\ Interval' = Interval
      /\ policy.recovery \in Nat /\ Interval \in Nat \ {0} /\ healthNow \in Nat /\ MaxHealthScore \in Nat \ {0}
      /\ r \in Scored /\ r.score \in 0..(MaxHealthScore - 1) /\ r.at \in 0..healthNow /\ PolicyInv'
    BY PolicyNumbers, HealthAssumption DEF HealthTick, PolicyInv, Interval, KeptEntry, Scored
<1>2. policy.recovery # 0 /\ Elapsed(r) # 0 /\ r.score # MaxHealthScore
    BY <1>1, Recovered DEF FullAgain
<1>3. policy.recovery * Elapsed(r) \in Nat /\ r.score + policy.recovery * Elapsed(r) >= MaxHealthScore
    BY <1>1, <1>2, Recovered DEF FullAgain
<1> DEFINE later == ((healthNow + 1) - r.at) \div Interval
<1>4. later \in Nat /\ Elapsed(r) <= later
  <2>1. (healthNow + 1) - r.at \in Nat /\ healthNow - r.at \in Nat
    BY <1>1
  <2>2. /\ later \in Nat /\ (healthNow + 1) - r.at < Interval * (later + 1)
        /\ Elapsed(r) \in Nat /\ Interval * Elapsed(r) <= healthNow - r.at
    BY <1>1, <2>1, DivideBounds DEF Elapsed
  <2>3. SUFFICES ASSUME later + 1 <= Elapsed(r) PROVE FALSE
    BY <2>2
  <2>4. Interval * (later + 1) <= Interval * Elapsed(r) /\ Interval * (later + 1) \in Nat /\ Interval * Elapsed(r) \in Nat
    BY <1>1, <2>2, <2>3, ProductsGrow
  <2> QED
    BY <1>1, <2>2, <2>4
<1>5. Elapsed(r)' = later
    BY <1>1 DEF Elapsed, Interval
<1>6. policy.recovery * Elapsed(r) <= policy.recovery * later /\ policy.recovery * later \in Nat
  <2>1. Elapsed(r) \in Nat
    BY <1>1, ElapsedIsWhole
  <2> QED
    BY <1>1, <1>4, <2>1, ProductsGrow
<1> HIDE DEF later
<1>7. r.score + policy.recovery * later >= MaxHealthScore /\ later # 0
  <2>1. Elapsed(r) \in Nat
    BY <1>1, ElapsedIsWhole
  <2> QED
    BY <1>1, <1>2, <1>3, <1>4, <1>6, <2>1
<1>8. Recover(r)'.score = MaxHealthScore
  <2>1. Recover(r)' = [score |-> IF r.score + policy.recovery * later > MaxHealthScore
                                 THEN MaxHealthScore ELSE r.score + policy.recovery * later,
                       at |-> r.at + policy.interval * later]
    BY <1>1, <1>2, <1>5, <1>7 DEF Recover, Elapsed, Interval
  <2> QED
    BY <1>1, <1>6, <1>7, <2>1
<1> QED
    BY <1>8 DEF FullAgain

(* No channel is kept at the start.                                         *)
LEMMA HealthStarts == HealthInit => HealthInv
<1> SUFFICES ASSUME HealthInit PROVE HealthInv
    OBVIOUS
<1>1. DOMAIN states = {} /\ DOMAIN unread = {}
    BY DEF HealthInit
<1>2. states = [u \in {} |-> states[u]] /\ unread = [u \in {} |-> unread[u]]
    BY DEF HealthInit
<1>3. EntriesFit(states) /\ EntriesFit(unread)
    BY <1>1, <1>2 DEF EntriesFit
<1>4. PolicyInv
    BY HealthAssumption DEF HealthInit, PolicyInv
<1> QED
    BY <1>1, <1>3, <1>4 DEF HealthInv, AsUnread

\* What keeping x for u makes of some entries.
KeepsOnly(E, u, x) ==
    /\ EntriesFit(Keep(E, u, x))
    /\ DOMAIN Keep(E, u, x) = IF x.score = MaxHealthScore THEN DOMAIN E \ {u} ELSE DOMAIN E \cup {u}
    /\ x.score # MaxHealthScore => Keep(E, u, x)[u] = x
    /\ \A v \in DOMAIN E \ {u} : Keep(E, u, x)[v] = E[v]

(* An entry is kept unless its channel is in full health.                   *)
LEMMA KeepIs ==
    ASSUME PolicyInv, NEW E, EntriesFit(E), NEW u \in Upstreams, NEW x \in Scored
    PROVE  KeepsOnly(E, u, x)
<1>1. CASE x.score = MaxHealthScore
  <2>1. Keep(E, u, x) = [v \in DOMAIN E \ {u} |-> E[v]]
    BY <1>1 DEF Keep, Restrict
  <2> QED
    BY <1>1, <2>1 DEF EntriesFit, KeepsOnly
<1>2. CASE x.score # MaxHealthScore
  <2>1. Keep(E, u, x) = [v \in DOMAIN E \cup {u} |-> IF v = u THEN x ELSE E[v]]
    BY <1>2 DEF Keep
  <2>2. x \in KeptEntry
    BY <1>2, PolicyNumbers DEF Scored, KeptEntry
  <2> QED
    BY <1>2, <2>1, <2>2 DEF EntriesFit, KeepsOnly
<1> QED
    BY <1>1, <1>2

(* A channel that is not kept is in full health as of now.                  *)
LEMMA EntryOf ==
    ASSUME PolicyInv, NEW E, EntriesFit(E), NEW u \in Upstreams
    PROVE  /\ Entry(E, u) \in Scored
           /\ u \in DOMAIN E => Entry(E, u) = Recover(E[u])
           /\ u \notin DOMAIN E => Entry(E, u) = [score |-> MaxHealthScore, at |-> healthNow]
<1>1. [score |-> MaxHealthScore, at |-> healthNow] \in Scored /\ [score |-> MaxHealthScore, at |-> healthNow].score = MaxHealthScore
    BY PolicyNumbers DEF Scored
<1>2. CASE u \in DOMAIN E
  <2>1. E[u] \in Scored
    BY <1>2, PolicyNumbers DEF EntriesFit, KeptEntry, Scored
  <2> QED
    BY <1>2, <2>1, Recovered DEF Entry
<1>3. CASE u \notin DOMAIN E
    BY <1>1, <1>3, Recovered DEF Entry
<1> QED
    BY <1>2, <1>3

(* Both tables have the same entry for a channel that is kept in both, or   *)
(* in neither, and the same score in any case.                              *)
LEMMA EntriesAgree ==
    ASSUME HealthInv, NEW u \in Upstreams
    PROVE  /\ Entry(states, u) \in Scored /\ Entry(unread, u) \in Scored
           /\ Entry(states, u).score = Entry(unread, u).score
           /\ u \in DOMAIN states <=> u \in DOMAIN unread => Entry(states, u) = Entry(unread, u)
           /\ u \in DOMAIN states => u \in DOMAIN unread
           /\ u \notin DOMAIN states => Entry(states, u).score = MaxHealthScore
<1>1. PolicyInv /\ EntriesFit(states) /\ EntriesFit(unread) /\ AsUnread(u)
    BY DEF HealthInv
<1>2. CASE u \in DOMAIN states
  <2>1. u \in DOMAIN unread /\ states[u] \in KeptEntry /\ unread[u] \in KeptEntry /\ Behind(states[u], unread[u])
    BY <1>1, <1>2 DEF AsUnread, EntriesFit
  <2>2. Recover(states[u]) = Recover(unread[u])
    BY <1>1, <2>1, BehindRecovers
  <2> QED
    BY <1>1, <1>2, <2>1, <2>2, EntryOf
<1>3. CASE u \notin DOMAIN states
    BY <1>1, <1>3, EntryOf DEF AsUnread, FullAgain
<1> QED
    BY <1>2, <1>3

(* Equal entries are behind each other by no interval.                      *)
LEMMA SameIsBehind ==
    ASSUME PolicyInv, NEW x \in KeptEntry
    PROVE  Behind(x, x)
<1>1. Interval * 0 = 0 /\ policy.recovery * 0 = 0
    BY PolicyNumbers
<1>2. x.at = x.at + Interval * 0 /\ x.score = x.score + policy.recovery * 0
    BY <1>1, PolicyNumbers DEF KeptEntry
<1> QED
    BY <1>2 DEF Behind

(* An attempt writes the same entry to both, or drops it from both.         *)
LEMMA AttemptKeeps ==
    ASSUME HealthInv, NEW u \in Upstreams, RecordFailure(u) \/ RecordSuccess(u)
    PROVE  HealthInv'
<1>1. PolicyInv /\ EntriesFit(states) /\ EntriesFit(unread) /\ UNCHANGED <<policy, healthNow>> /\ PolicyInv' /\ Scored' = Scored /\ KeptEntry' = KeptEntry
    BY DEF HealthInv, RecordFailure, RecordSuccess, PolicyInv, Scored, KeptEntry
<1>2. \/ UNCHANGED <<states, unread>>
      \/ \E x \in Scored : /\ states' = Keep(states, u, x) /\ unread' = Keep(unread, u, x)
      \/ \E x \in Scored : /\ u \notin DOMAIN states /\ u \in DOMAIN unread /\ x.score = MaxHealthScore
                           /\ states' \in {states, Keep(states, u, x)} /\ unread' = Keep(unread, u, x)
  <2>1. CASE RecordFailure(u)
    <3> DEFINE x(e) == [score |-> IF e.score > policy.penalty THEN e.score - policy.penalty ELSE 0,
                        at |-> IF policy.penalty > 0 THEN healthNow ELSE e.at]
    <3>1. states' = Keep(states, u, x(Entry(states, u))) /\ unread' = Keep(unread, u, x(Entry(unread, u)))
      BY <2>1 DEF RecordFailure, Failed
    <3>2. \A e \in Scored : x(e) \in Scored
      <4>1. SUFFICES ASSUME NEW e \in Scored PROVE x(e) \in Scored
        OBVIOUS
      <4>2. /\ (IF e.score > policy.penalty THEN e.score - policy.penalty ELSE 0) \in 0..MaxHealthScore
            /\ (IF policy.penalty > 0 THEN healthNow ELSE e.at) \in 0..healthNow
        BY <1>1, PolicyNumbers DEF Scored
      <4> QED
        BY <4>2 DEF Scored
    <3>3. CASE u \in DOMAIN states <=> u \in DOMAIN unread
      <4>1. Entry(states, u) = Entry(unread, u) /\ Entry(states, u) \in Scored
        BY <3>3, EntriesAgree
      <4> QED
        BY <3>1, <3>2, <4>1
    <3>4. CASE u \notin DOMAIN states /\ u \in DOMAIN unread
      <4>1. /\ Entry(states, u).score = MaxHealthScore /\ Entry(unread, u).score = MaxHealthScore
            /\ Entry(states, u) \in Scored /\ Entry(unread, u) \in Scored
        BY <3>4, EntriesAgree
      <4>2. CASE policy.penalty > 0
        <5>1. x(Entry(states, u)) = x(Entry(unread, u))
          BY <4>1, <4>2
        <5> QED
          BY <3>1, <3>2, <4>1, <5>1
      <4>3. CASE ~(policy.penalty > 0)
        <5>1. policy.penalty = 0 /\ MaxHealthScore \in Nat \ {0}
          BY <1>1, <4>3, PolicyNumbers
        <5>2. x(Entry(states, u)).score = MaxHealthScore /\ x(Entry(unread, u)).score = MaxHealthScore
          BY <4>1, <5>1
        <5>3. Keep(states, u, x(Entry(states, u))) = Keep(states, u, x(Entry(unread, u)))
          BY <5>2 DEF Keep
        <5> QED
          BY <3>1, <3>2, <3>4, <4>1, <5>2, <5>3
      <4> QED
        BY <4>2, <4>3
    <3> QED
      BY <3>3, <3>4, EntriesAgree
  <2>2. CASE RecordSuccess(u)
    <3> DEFINE score(e) == IF e.score + policy.credit > MaxHealthScore THEN MaxHealthScore ELSE e.score + policy.credit
               x(e) == [score |-> score(e), at |-> IF score(e) # e.score THEN healthNow ELSE e.at]
    <3>1. /\ states' = (IF u \notin DOMAIN states THEN states ELSE Keep(states, u, x(Entry(states, u))))
          /\ unread' = (IF u \notin DOMAIN unread THEN unread ELSE Keep(unread, u, x(Entry(unread, u))))
      BY <2>2 DEF RecordSuccess, Succeeded
    <3>2. \A e \in Scored : x(e) \in Scored
      <4>1. SUFFICES ASSUME NEW e \in Scored PROVE x(e) \in Scored
        OBVIOUS
      <4>2. score(e) \in 0..MaxHealthScore /\ (IF score(e) # e.score THEN healthNow ELSE e.at) \in 0..healthNow
        BY <1>1, PolicyNumbers DEF Scored
      <4> QED
        BY <4>2 DEF Scored
    <3>3. CASE u \in DOMAIN states
      <4>1. u \in DOMAIN unread /\ Entry(states, u) = Entry(unread, u) /\ Entry(states, u) \in Scored
        BY <3>3, EntriesAgree
      <4> QED
        BY <3>1, <3>2, <3>3, <4>1
    <3>4. CASE u \notin DOMAIN states /\ u \in DOMAIN unread
      <4>1. Entry(unread, u).score = MaxHealthScore /\ Entry(unread, u) \in Scored
        BY <3>4, EntriesAgree
      <4>2. x(Entry(unread, u)).score = MaxHealthScore
        BY <1>1, <4>1, PolicyNumbers
      <4> QED
        BY <3>1, <3>2, <3>4, <4>1, <4>2
    <3>5. CASE u \notin DOMAIN states /\ u \notin DOMAIN unread
      BY <3>1, <3>5
    <3> QED
      BY <3>3, <3>4, <3>5
  <2> QED
    BY <2>1, <2>2
<1>3. CASE UNCHANGED <<states, unread>>
    BY <1>1, <1>3 DEF HealthInv, EntriesFit, AsUnread, Behind, FullAgain, Recover, Interval
<1>4. ASSUME NEW x \in Scored, states' \in {states, Keep(states, u, x)}, unread' = Keep(unread, u, x),
             \/ states' = Keep(states, u, x)
             \/ u \notin DOMAIN states /\ x.score = MaxHealthScore
      PROVE  HealthInv'
  <2>k. /\ EntriesFit(Keep(unread, u, x))
        /\ DOMAIN Keep(unread, u, x) = IF x.score = MaxHealthScore THEN DOMAIN unread \ {u} ELSE DOMAIN unread \cup {u}
        /\ x.score # MaxHealthScore => Keep(unread, u, x)[u] = x
        /\ \A v \in DOMAIN unread \ {u} : Keep(unread, u, x)[v] = unread[v]
    <3>1. KeepsOnly(unread, u, x)
      BY <1>1, <1>4, KeepIs
    <3> QED
      BY <3>1 DEF KeepsOnly
  <2>l. /\ EntriesFit(Keep(states, u, x))
        /\ DOMAIN Keep(states, u, x) = IF x.score = MaxHealthScore THEN DOMAIN states \ {u} ELSE DOMAIN states \cup {u}
        /\ x.score # MaxHealthScore => Keep(states, u, x)[u] = x
        /\ \A v \in DOMAIN states \ {u} : Keep(states, u, x)[v] = states[v]
    <3>1. KeepsOnly(states, u, x)
      BY <1>1, <1>4, KeepIs
    <3> QED
      BY <3>1 DEF KeepsOnly
  <2>e. states' = Keep(states, u, x) \/ (states' = states /\ u \notin DOMAIN states /\ x.score = MaxHealthScore)
    BY <1>4
  <2>1. EntriesFit(states') /\ EntriesFit(unread')
    BY <1>1, <1>4, <2>k, <2>l, <2>e
  <2>2. ASSUME NEW v \in Upstreams PROVE AsUnread(v)'
    <3>1. AsUnread(v)
      BY DEF HealthInv
    <3>2. /\ DOMAIN unread' = IF x.score = MaxHealthScore THEN DOMAIN unread \ {u} ELSE DOMAIN unread \cup {u}
          /\ DOMAIN states' = IF x.score = MaxHealthScore THEN DOMAIN states \ {u} ELSE DOMAIN states \cup {u}
          /\ \A w \in DOMAIN states \ {u} : states'[w] = states[w]
          /\ \A w \in DOMAIN unread \ {u} : unread'[w] = unread[w]
          /\ x.score # MaxHealthScore => states'[u] = x /\ unread'[u] = x
      <4>1. CASE states' = Keep(states, u, x)
        BY <1>4, <2>k, <2>l, <4>1
      <4>2. CASE states' = states /\ u \notin DOMAIN states /\ x.score = MaxHealthScore
        BY <1>4, <2>k, <4>2
      <4> QED
        BY <2>e, <4>1, <4>2
    <3>3. CASE v = u
      <4>1. CASE x.score = MaxHealthScore
        BY <3>2, <3>3, <4>1 DEF AsUnread
      <4>2. CASE x.score # MaxHealthScore
        <5>1. x \in KeptEntry
          BY <1>1, <4>2, PolicyNumbers DEF Scored, KeptEntry
        <5>2. Behind(x, x)'
          BY <1>1, <5>1, SameIsBehind DEF Behind, Interval
        <5>3. u \in DOMAIN states' /\ u \in DOMAIN unread' /\ states'[u] = x /\ unread'[u] = x
          BY <3>2, <4>2
        <5> QED
          BY <3>3, <5>2, <5>3 DEF AsUnread, Behind
      <4> QED
        BY <4>1, <4>2
    <3>4. CASE v # u
      <4>1. /\ v \in DOMAIN states' <=> v \in DOMAIN states
            /\ v \in DOMAIN unread' <=> v \in DOMAIN unread
            /\ v \in DOMAIN states => states'[v] = states[v]
            /\ v \in DOMAIN unread => unread'[v] = unread[v]
        BY <3>2, <3>4
      <4> QED
        BY <1>1, <3>1, <4>1 DEF AsUnread, Behind, FullAgain, Recover, Interval
    <3> QED
      BY <3>3, <3>4
  <2>3. EntriesFit(states)' /\ EntriesFit(unread)'
    BY <1>1, <2>1 DEF EntriesFit
  <2> QED
    BY <1>1, <2>2, <2>3 DEF HealthInv
<1> QED
    BY <1>2, <1>3, <1>4

(* Somebody looks: what is credited is behind what was not, and what is     *)
(* dropped would be full.                                                   *)
LEMMA LookKeeps ==
    ASSUME HealthInv, NEW u \in Upstreams, HealthSnapshot(u)
    PROVE  HealthInv'
<1>1. PolicyInv /\ EntriesFit(states) /\ EntriesFit(unread) /\ UNCHANGED <<policy, healthNow, unread>> /\ PolicyInv' /\ KeptEntry' = KeptEntry
    BY DEF HealthInv, HealthSnapshot, PolicyInv, KeptEntry
<1>2. CASE u \notin DOMAIN states
  <2>1. states' = states
    BY <1>2 DEF HealthSnapshot
  <2> QED
    BY <1>1, <2>1 DEF HealthInv, EntriesFit, AsUnread, Behind, FullAgain, Recover, Interval
<1>3. CASE u \in DOMAIN states
  <2>a. u \in DOMAIN unread /\ states[u] \in KeptEntry /\ unread[u] \in KeptEntry /\ Behind(states[u], unread[u])
    BY <1>1, <1>3 DEF HealthInv, AsUnread, EntriesFit
  <2>b. unread[u] \in Scored
    BY <1>1, <2>a, PolicyNumbers DEF KeptEntry, Scored
  <2>c. Recover(states[u]) = Recover(unread[u]) /\ Recover(states[u]) \in Scored
    BY <1>1, <2>a, <2>b, BehindRecovers, Recovered
  <2>d. PICK x \in Scored : x = Recover(states[u])
    BY <2>c
  <2>1. states' = Keep(states, u, x)
    BY <1>3, <2>d DEF HealthSnapshot
  <2>3. x = Recover(unread[u]) /\ x \in Scored
    BY <2>c, <2>d
  <2>4. x.score # MaxHealthScore => Behind(x, unread[u])
    BY <1>1, <2>a, <2>3, RecoveryIsBehind
  <2>k. /\ EntriesFit(Keep(states, u, x))
        /\ DOMAIN Keep(states, u, x) = IF x.score = MaxHealthScore THEN DOMAIN states \ {u} ELSE DOMAIN states \cup {u}
        /\ x.score # MaxHealthScore => Keep(states, u, x)[u] = x
        /\ \A v \in DOMAIN states \ {u} : Keep(states, u, x)[v] = states[v]
    <3>1. KeepsOnly(states, u, x)
      BY <1>1, KeepIs
    <3> QED
      BY <3>1 DEF KeepsOnly
  <2>5. EntriesFit(states')
    BY <2>1, <2>k
  <2>6. ASSUME NEW v \in Upstreams PROVE AsUnread(v)'
    <3>1. AsUnread(v)
      BY DEF HealthInv
    <3>2. /\ DOMAIN states' = IF x.score = MaxHealthScore THEN DOMAIN states \ {u} ELSE DOMAIN states \cup {u}
          /\ \A w \in DOMAIN states \ {u} : states'[w] = states[w]
          /\ x.score # MaxHealthScore => states'[u] = x
      BY <2>1, <2>k
    <3>3. CASE v = u
      <4>1. x.score = MaxHealthScore => FullAgain(unread[u])
        BY <2>3 DEF FullAgain
      <4>2. CASE x.score = MaxHealthScore
        BY <1>1, <3>2, <3>3, <4>1, <4>2 DEF AsUnread, FullAgain, Recover
      <4>3. CASE x.score # MaxHealthScore
        BY <1>1, <2>a, <2>4, <3>2, <3>3, <4>3 DEF AsUnread, Behind, Interval
      <4> QED
        BY <4>2, <4>3
    <3>4. CASE v # u
      <4>1. /\ v \in DOMAIN states' <=> v \in DOMAIN states
            /\ v \in DOMAIN states => states'[v] = states[v]
        BY <3>2, <3>4
      <4> QED
        BY <1>1, <3>1, <4>1 DEF AsUnread, Behind, FullAgain, Recover, Interval
    <3> QED
      BY <3>3, <3>4
  <2>7. EntriesFit(states)' /\ EntriesFit(unread)'
    BY <1>1, <2>5 DEF EntriesFit
  <2> QED
    BY <1>1, <2>6, <2>7 DEF HealthInv
<1> QED
    BY <1>2, <1>3

(* A reset forgets both.                                                    *)
LEMMA ResetKeeps ==
    ASSUME HealthInv, NEW u \in Upstreams, ResetHealth(u)
    PROVE  HealthInv'
<1>1. PolicyInv /\ EntriesFit(states) /\ EntriesFit(unread) /\ UNCHANGED <<policy, healthNow>> /\ PolicyInv' /\ KeptEntry' = KeptEntry
    BY DEF HealthInv, ResetHealth, PolicyInv, KeptEntry
<1>2. states' = [v \in DOMAIN states \ {u} |-> states[v]] /\ unread' = [v \in DOMAIN unread \ {u} |-> unread[v]]
    BY DEF ResetHealth, Restrict
<1>3. EntriesFit(states)' /\ EntriesFit(unread)'
    BY <1>1, <1>2 DEF EntriesFit
<1>4. ASSUME NEW v \in Upstreams PROVE AsUnread(v)'
  <2>1. AsUnread(v)
    BY DEF HealthInv
  <2>2. /\ v \in DOMAIN states' <=> v \in DOMAIN states /\ v # u
        /\ v \in DOMAIN unread' <=> v \in DOMAIN unread /\ v # u
        /\ v \in DOMAIN states' => states'[v] = states[v]
        /\ v \in DOMAIN unread' => unread'[v] = unread[v]
    BY <1>2
  <2> QED
    BY <1>1, <2>1, <2>2 DEF AsUnread, Behind, FullAgain, Recover, Interval
<1> QED
    BY <1>1, <1>3, <1>4 DEF HealthInv

(* Time goes on.                                                            *)
LEMMA TickKeeps ==
    ASSUME HealthInv, HealthTick
    PROVE  HealthInv'
<1>1. PolicyInv /\ EntriesFit(states) /\ EntriesFit(unread) /\ UNCHANGED <<policy, states, unread>>
      /\ healthNow' = healthNow + 1 /\ healthNow < MaxHealthNow
    BY DEF HealthInv, HealthTick
<1>2. PolicyInv'
    BY <1>1, HealthAssumption DEF PolicyInv
<1>3. \A x \in KeptEntry : x \in KeptEntry'
    BY <1>1, PolicyNumbers DEF KeptEntry
<1>4. EntriesFit(states)' /\ EntriesFit(unread)'
    BY <1>1, <1>3 DEF EntriesFit
<1>5. ASSUME NEW v \in Upstreams PROVE AsUnread(v)'
  <2>1. AsUnread(v)
    BY DEF HealthInv
  <2>2. v \in DOMAIN states => Behind(states[v], unread[v])'
    BY <1>1, <2>1 DEF AsUnread, Behind, Interval
  <2>3. ASSUME v \in DOMAIN unread, v \notin DOMAIN states PROVE FullAgain(unread[v])'
    <3>1. PICK r \in KeptEntry : r = unread[v]
      BY <1>1, <2>3 DEF EntriesFit
    <3>2. FullAgain(r)
      BY <2>1, <2>3, <3>1 DEF AsUnread
    <3>3. FullAgain(r)'
      BY <1>1, <3>2, FullStaysFull
    <3> QED
      BY <1>1, <3>1, <3>3 DEF FullAgain, Recover
  <2> QED
    BY <1>1, <2>1, <2>2, <2>3 DEF AsUnread
<1> QED
    BY <1>2, <1>4, <1>5 DEF HealthInv

(* The invariant holds along every run.                                     *)
LEMMA HealthKeeps == HealthInv /\ [HealthNext]_healthVars => HealthInv'
<1> SUFFICES ASSUME HealthInv, [HealthNext]_healthVars PROVE HealthInv'
    OBVIOUS
<1>1. CASE UNCHANGED healthVars
  <2>1. UNCHANGED <<policy, states, unread, healthNow>>
    BY <1>1 DEF healthVars
  <2> QED
    BY <2>1 DEF HealthInv, PolicyInv, EntriesFit, KeptEntry, AsUnread, Behind, FullAgain, Recover, Interval
<1>2. CASE HealthNext
    BY <1>2, AttemptKeeps, LookKeeps, ResetKeeps, TickKeeps DEF HealthNext
<1> QED
    BY <1>1, <1>2

(* Nor does anything that happens to a channel.                             *)
LEMMA HealthInductive == HealthSpec => []HealthInv
    BY HealthStarts, HealthKeeps, PTL DEF HealthSpec

LEMMA HealthShape == HealthInv => HealthTypeOK
  BY DEF HealthInv, PolicyInv, EntriesFit, KeptEntry, HealthTypeOK

(* A kept score is short of full and none is adjusted in the future.        *)
THEOREM HealthTypesCorrect == HealthSpec => []HealthTypeOK
    BY HealthShape, HealthInductive, PTL

(* Health is earned by what the channel does and by time, never by being    *)
(* looked at (proxy/health.go:68-88, 139-170).                              *)
THEOREM LookingChangesNothing == HealthSpec => []HealthIsEarned
<1>1. HealthInv => HealthIsEarned
    BY EntriesAgree DEF HealthIsEarned
<1> QED
    BY <1>1, HealthInductive, PTL
-----------------------------------------------------------------------------
(* The console's feed: ConsoleFeed.                                        *)
\* A key in the registry is a key of the channel beside it.
Entries == {e \in [channel : Channels \cup {0}, key : Channels \cup {0}, attempt : Nat] : e.key \in {0, e.channel}}

RegistryInv ==
    /\ nextID \in 0..MaxInFlight /\ activeVersion \in Nat
    /\ DOMAIN entries \subseteq 1..nextID /\ entries \in [DOMAIN entries -> Entries]

CommittedInv ==
    /\ committed \in 0..MaxRows /\ published \in 0..committed
    /\ operatorVersion \in 1..(MaxRotations + 1)

StreamRecords ==
    [at : {"closed", "select", "resync", "active", "polled"}, events : Seq(Nat), missed : BOOLEAN,
     since : Nat, sentActive : Nat, credential : Nat]
ConsoleRecords == [rows : SUBSET Nat, reload : BOOLEAN, total : Nat, list : Seq(Listed)]

\* A queue holds rows published since its stream opened, in their order.
InOrder(s, last) ==
    /\ Len(s.events) <= FeedCapacity /\ s.since <= last
    /\ \A i \in 1..Len(s.events) : s.since + 1 <= s.events[i] /\ s.events[i] <= last
    /\ \A i \in 2..Len(s.events) : s.events[i - 1] < s.events[i]

StreamsInv ==
    /\ stream \in [Viewers -> StreamRecords]
    /\ \A v \in Viewers : InOrder(stream[v], published) /\ stream[v].sentActive <= activeVersion

PagesInv ==
    /\ console \in [Viewers -> ConsoleRecords]
    /\ \A v \in Viewers : console[v].rows \subseteq 1..committed

FeedInv == RegistryInv /\ CommittedInv /\ StreamsInv /\ PagesInv

(* Every entry has a place among the newest, and every place an entry.      *)
LEMMA NewestIs ==
    ASSUME RegistryInv, NEW n \in 1..Cardinality(DOMAIN entries)
    PROVE  \E i \in DOMAIN entries : Cardinality({j \in DOMAIN entries : j >= i}) = n
<1> DEFINE D == DOMAIN entries
           From(i) == {j \in D : j >= i}
           rank == [i \in D |-> Cardinality(From(i))]
           N == Cardinality(D)
<1>1. IsFiniteSet(D) /\ D \subseteq Nat /\ N \in Nat
  <2>1. nextID \in Int /\ 1 \in Int /\ D \subseteq 1..nextID
    BY FeedAssumption DEF RegistryInv
  <2>2. IsFiniteSet(1..nextID) /\ 1..nextID \subseteq Nat
    BY <2>1, FS_Interval
  <2>3. IsFiniteSet(D)
    BY <2>1, <2>2, FS_Subset
  <2> QED
    BY <2>1, <2>2, <2>3, FS_CardinalityType
<1> HIDE DEF D
<1>2. ASSUME NEW i \in D PROVE IsFiniteSet(From(i)) /\ rank[i] = Cardinality(From(i)) /\ rank[i] \in 1..N
  <2>1. From(i) \subseteq D /\ i \in From(i)
    BY <1>1
  <2> HIDE DEF From
  <2>2. IsFiniteSet(From(i)) /\ Cardinality(From(i)) \in Nat /\ Cardinality(From(i)) <= N
    BY <1>1, <2>1, FS_Subset, FS_CardinalityType
  <2>3. Cardinality(From(i)) # 0
    BY <2>1, <2>2, FS_EmptySet
  <2>4. Cardinality(From(i)) \in 1..N
    BY <1>1, <2>2, <2>3
  <2> QED
    BY <2>2, <2>4
<1>3. ASSUME NEW i \in D, NEW k \in D, i < k PROVE rank[k] < rank[i]
  <2>1. From(k) \subseteq From(i) /\ i \in From(i) /\ i \notin From(k)
    <3>1. i \in Nat /\ k \in Nat /\ \A j \in D : j \in Nat
      BY <1>1
    <3>2. \A j \in D : j >= k => j >= i
      BY <1>3, <3>1
    <3>3. i >= i /\ ~(i >= k)
      BY <1>3, <3>1
    <3> QED
      BY <3>2, <3>3
  <2> HIDE DEF From
  <2>2. Cardinality(From(k)) < Cardinality(From(i))
    <3>1. From(k) # From(i)
      BY <2>1
    <3>2. Cardinality(From(k)) <= Cardinality(From(i)) /\ (Cardinality(From(k)) = Cardinality(From(i)) => From(k) = From(i))
      BY <1>2, <2>1, FS_Subset
    <3>3. Cardinality(From(k)) \in Nat /\ Cardinality(From(i)) \in Nat
      BY <1>2, FS_CardinalityType
    <3> QED
      BY <3>1, <3>2, <3>3
  <2> QED
    BY <1>2, <2>2
<1>4. rank \in Injection(D, 1..N)
  <2>1. rank \in [D -> 1..N]
    BY <1>2
  <2>2. ASSUME NEW i \in D, NEW k \in D, rank[i] = rank[k] PROVE i = k
    <3>1. i \in Nat /\ k \in Nat /\ rank[i] \in 1..N /\ rank[k] \in 1..N
      BY <1>1, <1>2
    <3> HIDE DEF rank
    <3>2. ~(i < k) /\ ~(k < i)
      BY <1>3, <2>2, <3>1
    <3> QED
      BY <3>1, <3>2
  <2> HIDE DEF rank
  <2> QED
    BY <2>1, <2>2 DEF Injection, IsInjective
<1>5. IsFiniteSet(1..N) /\ Cardinality(1..N) = N
  <2>1. 1 \in Int /\ N \in Int
    BY <1>1
  <2>2. IsFiniteSet(1..N) /\ Cardinality(1..N) = IF 1 > N THEN 0 ELSE N - 1 + 1
    BY <2>1, FS_Interval
  <2> HIDE DEF N
  <2> QED
    BY <1>1, <2>2
<1>6. rank \in Surjection(D, 1..N)
  <2> HIDE DEF rank
  <2> QED
    BY <1>4, <1>5, FS_Injection DEF N
<1>7. PICK i \in D : rank[i] = n
  <2>1. n \in 1..N
    BY DEF D
  <2> HIDE DEF rank, N
  <2> QED
    BY <1>6, <2>1 DEF Surjection
<1> QED
  BY <1>2, <1>7 DEF D

LEMMA SnapshotIsListed ==
    ASSUME RegistryInv
    PROVE  ActiveSnapshot.total \in Nat /\ ActiveSnapshot.list \in Seq(Listed)
<1> DEFINE total == Cardinality(DOMAIN entries)
           newest(n) == CHOOSE i \in DOMAIN entries : Cardinality({j \in DOMAIN entries : j >= i}) = n
           size == IF total < ActiveSnapshotLimit THEN total ELSE ActiveSnapshotLimit
           item(n) == [id |-> newest(n), entry |-> entries[newest(n)]]
           list == [n \in 1..size |-> item(n)]
<1>1. ActiveSnapshot.total = total /\ ActiveSnapshot.list = list
  BY DEF ActiveSnapshot
<1>2. total \in Nat /\ size \in Nat /\ size <= total
  <2>1. nextID \in Int /\ 1 \in Int /\ DOMAIN entries \subseteq 1..nextID
    BY FeedAssumption DEF RegistryInv
  <2>2. IsFiniteSet(1..nextID)
    BY <2>1, FS_Interval
  <2>3. total \in Nat
    BY <2>1, <2>2, FS_Subset, FS_CardinalityType
  <2> HIDE DEF total
  <2> QED
    BY <2>3, FeedAssumption
<1>3. ASSUME NEW n \in 1..size PROVE item(n) \in Listed
  <2>1. n \in 1..total
    <3> HIDE DEF total, size
    <3> QED
      BY <1>2
  <2>2. newest(n) \in DOMAIN entries
    BY <2>1, NewestIs
  <2> HIDE DEF newest
  <2>3. newest(n) \in 1..MaxInFlight /\ entries[newest(n)] \in Entries
    BY <2>2, FeedAssumption DEF RegistryInv
  <2> QED
    BY <2>3 DEF Listed, Entries
<1>4. list \in Seq(Listed)
  <2> HIDE DEF item, size
  <2> QED
    BY <1>2, <1>3
<1> QED
  BY <1>1, <1>2, <1>4

LEMMA FeedStarts == FeedInit => FeedInv
<1> SUFFICES ASSUME FeedInit PROVE FeedInv
  OBVIOUS
<1>1. committed = 0 /\ published = 0 /\ entries = <<>> /\ nextID = 0 /\ activeVersion = 0 /\ operatorVersion = 1
  BY DEF FeedInit
<1>2. MaxRows \in Nat /\ MaxInFlight \in Nat /\ MaxRotations \in Nat /\ FeedCapacity \in Nat
  BY FeedAssumption
<1>3. RegistryInv
  <2>1. DOMAIN entries = {} /\ entries \in [{} -> Entries]
    BY <1>1
  <2> QED
    BY <1>1, <1>2, <2>1 DEF RegistryInv
<1>4. CommittedInv
  BY <1>1, <1>2 DEF CommittedInv
<1>5. StreamsInv
  <2>1. NoStream \in StreamRecords /\ NoStream.events = <<>> /\ NoStream.sentActive = 0 /\ NoStream.since = 0
    BY DEF NoStream, StreamRecords
  <2>2. InOrder(NoStream, published)
    BY <1>1, <1>2, <2>1 DEF InOrder
  <2>3. stream \in [Viewers -> StreamRecords] /\ \A v \in Viewers : stream[v] = NoStream
    BY <2>1 DEF FeedInit
  <2> QED
    BY <1>1, <2>1, <2>2, <2>3 DEF StreamsInv
<1>6. PagesInv
  <2>1. EmptyConsole \in ConsoleRecords /\ EmptyConsole.rows = {}
    BY DEF EmptyConsole, ConsoleRecords
  <2> QED
    BY <2>1 DEF FeedInit, PagesInv
<1> QED
  BY <1>3, <1>4, <1>5, <1>6 DEF FeedInv

\* What one viewer's step does to its stream and its page.
LEMMA ViewerKeeps ==
    ASSUME StreamsInv, PagesInv, UNCHANGED <<committed, published, activeVersion>>, NEW v \in Viewers,
           NEW s \in StreamRecords, InOrder(s, published), s.sentActive <= activeVersion,
           NEW p \in ConsoleRecords, p.rows \subseteq 1..committed,
           stream' = [stream EXCEPT ![v] = s], console' = [console EXCEPT ![v] = p]
    PROVE  StreamsInv' /\ PagesInv'
<1>1. stream' \in [Viewers -> StreamRecords] /\ \A w \in Viewers : stream'[w] = IF w = v THEN s ELSE stream[w]
  BY DEF StreamsInv
<1>2. console' \in [Viewers -> ConsoleRecords] /\ \A w \in Viewers : console'[w] = IF w = v THEN p ELSE console[w]
  BY DEF PagesInv
<1>3. StreamsInv'
  <2>1. ASSUME NEW w \in Viewers PROVE InOrder(stream'[w], published) /\ stream'[w].sentActive <= activeVersion
    BY <1>1 DEF StreamsInv
  <2> QED
    BY <1>1, <2>1 DEF StreamsInv, InOrder
<1>4. PagesInv'
  BY <1>2 DEF PagesInv
<1> QED
  BY <1>3, <1>4

\* A registry that moves forward leaves the streams behind it.
LEMMA RegistryKeeps ==
    ASSUME FeedInv, UNCHANGED <<writerVars, operatorVersion, stream, console>>, RegistryInv',
           activeVersion' >= activeVersion
    PROVE  FeedInv'
<1>1. UNCHANGED <<committed, published, operatorVersion, stream, console>>
  BY DEF writerVars
<1>2. activeVersion \in Nat /\ activeVersion' \in Nat
  BY DEF FeedInv, RegistryInv
<1>3. StreamsInv'
  <2>1. ASSUME NEW v \in Viewers PROVE stream[v].sentActive <= activeVersion'
    <3> DEFINE a == stream[v].sentActive
    <3>1. a \in Nat /\ a <= activeVersion
      BY DEF FeedInv, StreamsInv, StreamRecords
    <3> HIDE DEF a
    <3>2. a <= activeVersion'
      BY <1>2, <3>1
    <3> QED
      BY <3>2 DEF a
  <2> QED
    BY <1>1, <2>1 DEF FeedInv, StreamsInv, InOrder
<1> QED
  BY <1>1, <1>3 DEF FeedInv, CommittedInv, PagesInv

LEMMA BeginRequestKeeps == ASSUME FeedInv, BeginRequest PROVE FeedInv'
<1> DEFINE new == nextID + 1
           one == [channel |-> 0, key |-> 0, attempt |-> 0]
<1>1. /\ nextID < MaxInFlight /\ nextID' = new /\ activeVersion' = activeVersion + 1
      /\ entries' = [i \in DOMAIN entries \cup {new} |-> IF i = new THEN one ELSE entries[i]]
      /\ UNCHANGED <<writerVars, operatorVersion, stream, console>>
  BY DEF BeginRequest
<1>2. nextID \in 0..MaxInFlight /\ activeVersion \in Nat /\ DOMAIN entries \subseteq 1..nextID
      /\ entries \in [DOMAIN entries -> Entries] /\ MaxInFlight \in Nat
  BY FeedAssumption DEF FeedInv, RegistryInv
<1>3. one \in Entries
  BY DEF Entries
<1>4. new \in 0..MaxInFlight /\ new \in 1..new /\ 1..nextID \subseteq 1..new
  BY <1>1, <1>2
<1> HIDE DEF new, one
<1>5. DOMAIN entries' \subseteq 1..new /\ entries' \in [DOMAIN entries' -> Entries]
  BY <1>1, <1>2, <1>3, <1>4
<1>6. activeVersion' \in Nat /\ activeVersion' >= activeVersion
  BY <1>1, <1>2
<1>7. RegistryInv'
  BY <1>1, <1>4, <1>5, <1>6 DEF RegistryInv
<1> QED
  BY <1>1, <1>6, <1>7, RegistryKeeps

LEMMA UpdateKeeps ==
    ASSUME FeedInv, NEW id \in 1..nextID, NEW e, id \in DOMAIN entries => e \in Entries, Update(id, e)
    PROVE  FeedInv'
<1>1. nextID \in 0..MaxInFlight /\ activeVersion \in Nat /\ DOMAIN entries \subseteq 1..nextID
      /\ entries \in [DOMAIN entries -> Entries]
  BY DEF FeedInv, RegistryInv
<1>2. UNCHANGED <<writerVars, operatorVersion, stream, console>> /\ nextID' = nextID
  BY DEF Update
<1>3. activeVersion' \in Nat /\ activeVersion' >= activeVersion
  BY <1>1 DEF Update
<1>4. DOMAIN entries' = DOMAIN entries /\ entries' \in [DOMAIN entries -> Entries]
  BY <1>1 DEF Update
<1>5. RegistryInv'
  BY <1>1, <1>2, <1>3, <1>4 DEF RegistryInv
<1> QED
  BY <1>2, <1>3, <1>5, RegistryKeeps

LEMMA ReleaseKeeps == ASSUME FeedInv, NEW id \in 1..nextID, Release(id) PROVE FeedInv'
<1>1. nextID \in 0..MaxInFlight /\ activeVersion \in Nat /\ DOMAIN entries \subseteq 1..nextID
      /\ entries \in [DOMAIN entries -> Entries]
  BY DEF FeedInv, RegistryInv
<1>2. UNCHANGED <<writerVars, operatorVersion, stream, console>> /\ nextID' = nextID
      /\ entries' = [i \in DOMAIN entries \ {id} |-> entries[i]]
  BY DEF Release
<1>3. activeVersion' \in Nat /\ activeVersion' >= activeVersion
  BY <1>1 DEF Release
<1>4. DOMAIN entries' \subseteq 1..nextID /\ entries' \in [DOMAIN entries' -> Entries]
  BY <1>1, <1>2
<1>5. RegistryInv'
  BY <1>1, <1>2, <1>3, <1>4 DEF RegistryInv
<1> QED
  BY <1>2, <1>3, <1>5, RegistryKeeps

LEMMA EntriesKeep ==
    ASSUME FeedInv, NEW id \in 1..nextID,
           Release(id) \/ SetKey(id) \/ \E channel \in Channels : SetUpstream(id, channel)
    PROVE  FeedInv'
<1>1. CASE Release(id)
  BY <1>1, ReleaseKeeps
<1>2. entries \in [DOMAIN entries -> Entries]
  BY DEF FeedInv, RegistryInv
<1>3. CASE SetKey(id)
  <2> DEFINE e == [entries[id] EXCEPT !.key = entries[id].channel]
  <2>1. id \in DOMAIN entries => e \in Entries
    <3> SUFFICES ASSUME id \in DOMAIN entries PROVE e \in Entries
      OBVIOUS
    <3>1. entries[id] \in Entries
      BY <1>2
    <3> QED
      BY <3>1 DEF Entries
  <2> HIDE DEF e
  <2> QED
    BY <1>3, <2>1, UpdateKeeps DEF SetKey, e
<1>4. ASSUME NEW channel \in Channels, SetUpstream(id, channel) PROVE FeedInv'
  <2> DEFINE e == [channel |-> channel, key |-> 0, attempt |-> entries[id].attempt + 1]
  <2>1. id \in DOMAIN entries => e \in Entries
    <3> SUFFICES ASSUME id \in DOMAIN entries PROVE e \in Entries
      OBVIOUS
    <3>1. entries[id] \in Entries
      BY <1>2
    <3>2. entries[id].attempt \in Nat
      BY <3>1 DEF Entries
    <3>3. entries[id].attempt + 1 \in Nat
      BY <3>2
    <3> QED
      BY <3>3 DEF Entries
  <2> HIDE DEF e
  <2> QED
    BY <1>4, <2>1, UpdateKeeps DEF SetUpstream, e
<1> QED
  BY <1>1, <1>3, <1>4

LEMMA CommitRowsKeeps == ASSUME FeedInv, NEW n \in 1..2, CommitRows(n) PROVE FeedInv'
<1>1. /\ committed' = committed + n /\ committed + n <= MaxRows /\ published' = published
      /\ UNCHANGED <<entries, nextID, activeVersion, operatorVersion, stream, console>>
  BY DEF CommitRows, activeVars
<1>2. committed \in Nat /\ published \in Nat /\ MaxRows \in Nat /\ published <= committed
  BY FeedAssumption DEF FeedInv, CommittedInv
<1>3. committed + n \in 0..MaxRows /\ published \in 0..(committed + n) /\ 1..committed \subseteq 1..(committed + n)
  BY <1>1, <1>2
<1>4. CommittedInv'
  BY <1>1, <1>3 DEF FeedInv, CommittedInv
<1>5. PagesInv'
  BY <1>1, <1>3 DEF FeedInv, PagesInv
<1>6. RegistryInv' /\ StreamsInv'
  BY <1>1 DEF FeedInv, RegistryInv, StreamsInv, InOrder
<1> QED
  BY <1>4, <1>5, <1>6 DEF FeedInv

\* What a queue in order is offered leaves it in order.
LEMMA OfferedInOrder ==
    ASSUME NEW s \in StreamRecords, NEW last \in Nat, InOrder(s, last)
    PROVE  /\ Offered(s, last + 1) \in StreamRecords /\ InOrder(Offered(s, last + 1), last + 1)
           /\ Offered(s, last + 1).sentActive = s.sentActive /\ Offered(s, last + 1).since = s.since
<1> DEFINE row == last + 1
           more == Append(s.events, row)
<1>1. row \in Nat /\ last < row /\ \A n \in Nat : n <= last => n <= row
  OBVIOUS
<1> HIDE DEF row
<1>2. s.events \in Seq(Nat) /\ s.since \in Nat /\ Len(s.events) \in Nat /\ FeedCapacity \in Nat
  BY FeedAssumption DEF StreamRecords
<1>3. \A i \in 1..Len(s.events) : s.events[i] \in Nat
  BY <1>2, ElementOfSeq
<1>4. InOrder(s, row)
  BY <1>1, <1>2, <1>3 DEF InOrder
<1>5. CASE s.at = "closed"
  BY <1>4, <1>5 DEF Offered, row
<1>6. CASE s.at # "closed" /\ ~(Len(s.events) < FeedCapacity)
  <2>1. Offered(s, row) = [s EXCEPT !.missed = TRUE]
    BY <1>6 DEF Offered
  <2>2. [s EXCEPT !.missed = TRUE] \in StreamRecords
    BY DEF StreamRecords
  <2>3. /\ [s EXCEPT !.missed = TRUE].events = s.events /\ [s EXCEPT !.missed = TRUE].since = s.since
        /\ [s EXCEPT !.missed = TRUE].sentActive = s.sentActive
    BY DEF StreamRecords
  <2>4. InOrder([s EXCEPT !.missed = TRUE], row)
    BY <1>4, <2>3 DEF InOrder
  <2> QED
    BY <2>1, <2>2, <2>3, <2>4 DEF row
<1>7. CASE s.at # "closed" /\ Len(s.events) < FeedCapacity
  <2> DEFINE t == [s EXCEPT !.events = more]
  <2>1. Offered(s, row) = t
    BY <1>7 DEF Offered
  <2>2. more \in Seq(Nat) /\ Len(more) = Len(s.events) + 1
        /\ \A i \in 1..Len(more) : more[i] = IF i = Len(s.events) + 1 THEN row ELSE s.events[i]
    BY <1>1, <1>2, AppendProperties
  <2> HIDE DEF more
  <2>3. t \in StreamRecords /\ t.events = more /\ t.since = s.since /\ t.sentActive = s.sentActive
    BY <2>2 DEF StreamRecords
  <2> HIDE DEF t
  <2>4. Len(more) <= FeedCapacity
    BY <1>2, <1>7, <2>2
  <2>5. ASSUME NEW i \in 1..Len(more) PROVE s.since + 1 <= more[i] /\ more[i] <= row
    <3>1. CASE i = Len(s.events) + 1
      BY <1>1, <1>2, <2>2, <3>1 DEF row, InOrder
    <3>2. CASE i # Len(s.events) + 1
      <4> DEFINE n == Len(s.events)
      <4>1. n \in Nat /\ i \in 1..(n + 1) /\ i # n + 1
        BY <1>2, <2>2, <3>2
      <4> HIDE DEF n
      <4>2. i \in 1..n
        BY <4>1
      <4>3. i \in 1..Len(s.events) /\ more[i] = s.events[i]
        BY <2>2, <3>2, <4>2 DEF n
      <4> QED
        BY <1>4, <4>3 DEF InOrder
    <3> QED
      BY <3>1, <3>2
  <2>6. ASSUME NEW i \in 2..Len(more) PROVE more[i - 1] < more[i]
    <3> DEFINE n == Len(s.events)
    <3>1. n \in Nat /\ Len(more) = n + 1
      BY <1>2, <2>2
    <3> HIDE DEF n
    <3>2. i - 1 \in 1..n /\ i \in 1..Len(more) /\ i - 1 \in 1..Len(more) /\ i - 1 # n + 1
      BY <3>1
    <3>3. more[i - 1] = s.events[i - 1] /\ s.events[i - 1] \in Nat /\ s.events[i - 1] <= last
      BY <1>3, <2>2, <3>2 DEF n, InOrder
    <3>4. CASE i = n + 1
      BY <1>1, <2>2, <3>2, <3>3, <3>4 DEF n
    <3>5. CASE i # n + 1
      <4>1. i \in 2..n /\ i \in 1..n
        BY <3>1, <3>5
      <4>2. more[i] = s.events[i]
        BY <2>2, <3>2, <3>5 DEF n
      <4> QED
        BY <3>3, <4>1, <4>2 DEF InOrder, n
    <3> QED
      BY <3>4, <3>5
  <2>7. InOrder(t, row)
    BY <1>4, <2>3, <2>4, <2>5, <2>6 DEF InOrder
  <2> QED
    BY <2>1, <2>3, <2>7 DEF row
<1> QED
  BY <1>5, <1>6, <1>7

LEMMA PublishRowKeeps == ASSUME FeedInv, PublishRow PROVE FeedInv'
<1>1. /\ published < committed /\ published' = published + 1
      /\ stream' = [v \in Viewers |-> Offered(stream[v], published + 1)]
      /\ UNCHANGED <<committed, entries, nextID, activeVersion, operatorVersion, console>>
  BY DEF PublishRow, activeVars
<1>2. published \in Nat /\ committed \in Nat /\ MaxRows \in Nat
  BY FeedAssumption DEF FeedInv, CommittedInv
<1>3. published + 1 \in 0..committed
  BY <1>1, <1>2
<1>4. ASSUME NEW v \in Viewers
      PROVE  /\ Offered(stream[v], published + 1) \in StreamRecords
             /\ InOrder(Offered(stream[v], published + 1), published + 1)
             /\ Offered(stream[v], published + 1).sentActive <= activeVersion
  <2>1. stream[v] \in StreamRecords /\ InOrder(stream[v], published) /\ stream[v].sentActive <= activeVersion
    BY DEF FeedInv, StreamsInv
  <2> QED
    BY <1>2, <2>1, OfferedInOrder
<1>5. stream' \in [Viewers -> StreamRecords]
      /\ \A v \in Viewers : InOrder(stream'[v], published') /\ stream'[v].sentActive <= activeVersion
  BY <1>1, <1>4
<1>6. StreamsInv'
  BY <1>1, <1>5 DEF StreamsInv, InOrder
<1>7. CommittedInv' /\ PagesInv' /\ RegistryInv'
  BY <1>1, <1>3 DEF FeedInv, CommittedInv, PagesInv, RegistryInv
<1> QED
  BY <1>6, <1>7 DEF FeedInv

\* A step that moves only one viewer's stream and page keeps the rest.
LEMMA OneViewer ==
    ASSUME FeedInv, UNCHANGED <<writerVars, activeVars, operatorVersion>>, NEW v \in Viewers,
           NEW s \in StreamRecords, InOrder(s, published), s.sentActive <= activeVersion,
           NEW p \in ConsoleRecords, p.rows \subseteq 1..committed,
           stream' = [stream EXCEPT ![v] = s], console' = [console EXCEPT ![v] = p]
    PROVE  FeedInv'
<1>1. UNCHANGED <<committed, published, entries, nextID, activeVersion, operatorVersion>>
  BY DEF writerVars, activeVars
<1>2. StreamsInv' /\ PagesInv'
  BY <1>1, ViewerKeeps DEF FeedInv
<1>3. RegistryInv' /\ CommittedInv'
  BY <1>1 DEF FeedInv, RegistryInv, CommittedInv
<1> QED
  BY <1>2, <1>3 DEF FeedInv

LEMMA ViewerHas ==
    ASSUME FeedInv, NEW v \in Viewers
    PROVE  /\ stream[v] \in StreamRecords /\ InOrder(stream[v], published) /\ stream[v].sentActive <= activeVersion
           /\ console[v] \in ConsoleRecords /\ console[v].rows \subseteq 1..committed
           /\ published \in Nat /\ activeVersion \in Nat /\ operatorVersion \in Nat
           /\ stream \in [Viewers -> StreamRecords] /\ console \in [Viewers -> ConsoleRecords]
  BY DEF FeedInv, StreamsInv, PagesInv, CommittedInv, RegistryInv

LEMMA EmptyInOrder ==
    ASSUME NEW s, NEW last \in Nat, s.events = <<>>, s.since <= last
    PROVE  InOrder(s, last)
<1>1. Len(s.events) = 0 /\ 0 <= FeedCapacity /\ FeedCapacity \in Nat
  BY FeedAssumption
<1> QED
  BY <1>1 DEF InOrder

LEMMA OpenStreamKeeps ==
    ASSUME FeedInv, NEW v \in Viewers, NEW again \in BOOLEAN, OpenStream(v, again)
    PROVE  FeedInv'
<1> DEFINE s == [NoStream EXCEPT !.at = "select", !.since = published, !.sentActive = activeVersion,
                                 !.credential = operatorVersion]
           p == [console[v] EXCEPT !.reload = again, !.total = ActiveSnapshot.total, !.list = ActiveSnapshot.list]
<1>1. /\ published \in Nat /\ activeVersion \in Nat /\ operatorVersion \in Nat
      /\ console[v] \in ConsoleRecords /\ console[v].rows \subseteq 1..committed
      /\ console \in [Viewers -> ConsoleRecords]
  BY ViewerHas
<1>2. s \in StreamRecords /\ s.events = <<>> /\ s.since = published /\ s.sentActive = activeVersion
  <2>1. NoStream \in StreamRecords /\ NoStream.events = <<>>
    BY DEF NoStream, StreamRecords
  <2> QED
    BY <1>1, <2>1 DEF StreamRecords
<1>3. p \in ConsoleRecords /\ p.rows = console[v].rows
  BY <1>1, SnapshotIsListed DEF ConsoleRecords, FeedInv
<1>4. stream' = [stream EXCEPT ![v] = s] /\ console' = [console EXCEPT ![v] = p]
      /\ UNCHANGED <<writerVars, activeVars, operatorVersion>>
  BY <1>1 DEF OpenStream
<1> HIDE DEF s, p
<1>5. InOrder(s, published)
  BY <1>1, <1>2, EmptyInOrder
<1>6. s.sentActive <= activeVersion
  BY <1>1, <1>2
<1> QED
  BY <1>1, <1>2, <1>3, <1>4, <1>5, <1>6, OneViewer

LEMMA CloseStreamKeeps == ASSUME FeedInv, NEW v \in Viewers, CloseStream(v) PROVE FeedInv'
<1>1. published \in Nat /\ activeVersion \in Nat
  BY ViewerHas
<1>2. NoStream \in StreamRecords /\ NoStream.events = <<>> /\ NoStream.since = 0 /\ NoStream.sentActive = 0
  BY DEF NoStream, StreamRecords
<1>3. EmptyConsole \in ConsoleRecords /\ EmptyConsole.rows = {}
  BY DEF EmptyConsole, ConsoleRecords
<1>4. InOrder(NoStream, published) /\ NoStream.sentActive <= activeVersion
  BY <1>1, <1>2, EmptyInOrder
<1>5. stream' = [stream EXCEPT ![v] = NoStream] /\ console' = [console EXCEPT ![v] = EmptyConsole]
      /\ UNCHANGED <<writerVars, activeVars, operatorVersion>>
  BY DEF CloseStream
<1> QED
  BY <1>2, <1>3, <1>4, <1>5, OneViewer

\* The head of a queue in order is a committed row, and what follows it is in order.
LEMMA TailInOrder ==
    ASSUME NEW s \in StreamRecords, NEW last \in Nat, InOrder(s, last), s.events # <<>>
    PROVE  /\ Tail(s.events) \in Seq(Nat) /\ Head(s.events) \in 1..last
           /\ Len(Tail(s.events)) <= FeedCapacity
           /\ \A i \in 1..Len(Tail(s.events)) :
                s.since + 1 <= Tail(s.events)[i] /\ Tail(s.events)[i] <= last
           /\ \A i \in 2..Len(Tail(s.events)) : Tail(s.events)[i - 1] < Tail(s.events)[i]
<1> DEFINE q == s.events
           n == Len(q)
<1>1. q \in Seq(Nat) /\ s.since \in Nat /\ q # <<>> /\ FeedCapacity \in Nat
  BY FeedAssumption DEF StreamRecords
<1>2. /\ n <= FeedCapacity
      /\ \A i \in 1..n : s.since + 1 <= q[i] /\ q[i] <= last
      /\ \A i \in 2..n : q[i - 1] < q[i]
  BY DEF InOrder
<1> HIDE DEF q
<1>3. n \in Nat /\ n >= 1
  BY <1>1, EmptySeq, LenProperties
<1>4. \A i \in 1..n : q[i] \in Nat
  BY <1>1, ElementOfSeq
<1>5. Head(q) = q[1] /\ Tail(q) \in Seq(Nat) /\ Len(Tail(q)) = n - 1
      /\ \A i \in 1..(n - 1) : Tail(q)[i] = q[i + 1]
  BY <1>1, HeadTailProperties
<1> DEFINE r == Tail(q)
<1> HIDE DEF n, r
<1>6. 1 \in 1..n /\ Len(r) = n - 1 /\ n - 1 <= FeedCapacity
  BY <1>1, <1>2, <1>3, <1>5 DEF r
<1>7. q[1] \in 1..last
  BY <1>1, <1>2, <1>4, <1>6
<1>8. ASSUME NEW i \in 1..(n - 1) PROVE s.since + 1 <= r[i] /\ r[i] <= last
  <2>1. i + 1 \in 1..n
    BY <1>3
  <2> QED
    BY <1>2, <1>5, <2>1 DEF r
<1>9. ASSUME NEW i \in 2..(n - 1) PROVE r[i - 1] < r[i]
  <2>1. i - 1 \in 1..(n - 1) /\ i \in 1..(n - 1) /\ (i - 1) + 1 = i /\ i + 1 \in 2..n /\ (i + 1) - 1 = i
    BY <1>3
  <2>2. r[i - 1] = q[i] /\ r[i] = q[i + 1]
    BY <1>5, <2>1 DEF r
  <2>3. q[i] < q[i + 1]
    BY <1>2, <2>1
  <2> QED
    BY <2>2, <2>3
<1> QED
  BY <1>5, <1>6, <1>7, <1>8, <1>9 DEF q, r

LEMMA SendRowKeeps == ASSUME FeedInv, NEW v \in Viewers, SendRow(v) PROVE FeedInv'
<1>1. CASE ~Authorized(v)
  BY <1>1, CloseStreamKeeps DEF SendRow
<1>2. CASE Authorized(v)
  <2> DEFINE t == Tail(stream[v].events)
             h == Head(stream[v].events)
             s == [stream[v] EXCEPT !.events = t, !.at = "resync"]
             p == [console[v] EXCEPT !.rows = @ \cup {h}]
  <2>1. /\ stream[v] \in StreamRecords /\ InOrder(stream[v], published) /\ stream[v].sentActive <= activeVersion
        /\ console[v] \in ConsoleRecords /\ console[v].rows \subseteq 1..committed
        /\ published \in Nat /\ stream[v].events # <<>>
    BY ViewerHas DEF SendRow
  <2>2. /\ t \in Seq(Nat) /\ h \in 1..published /\ Len(t) <= FeedCapacity
        /\ \A i \in 1..Len(t) : stream[v].since + 1 <= t[i] /\ t[i] <= published
        /\ \A i \in 2..Len(t) : t[i - 1] < t[i]
    BY <2>1, TailInOrder
  <2>3. /\ stream' = [stream EXCEPT ![v] = s] /\ console' = [console EXCEPT ![v] = p]
        /\ UNCHANGED <<writerVars, activeVars, operatorVersion>>
    <3>1. /\ stream' = [stream EXCEPT ![v].events = Tail(@), ![v].at = "resync"]
          /\ console' = [console EXCEPT ![v].rows = @ \cup {Head(stream[v].events)}]
          /\ UNCHANGED <<writerVars, activeVars, operatorVersion>>
      BY <1>2 DEF SendRow
    <3>2. stream \in [Viewers -> StreamRecords] /\ console \in [Viewers -> ConsoleRecords]
      BY ViewerHas
    <3> QED
      BY <3>1, <3>2
  <2> HIDE DEF t, h
  <2>4. s \in StreamRecords /\ s.events = t /\ s.since = stream[v].since /\ s.sentActive = stream[v].sentActive
    BY <2>1, <2>2 DEF StreamRecords
  <2>5. h \in 1..committed /\ h \in Nat
    BY <2>2 DEF FeedInv, CommittedInv
  <2>6. p \in ConsoleRecords /\ p.rows \subseteq 1..committed
    BY <2>1, <2>5 DEF ConsoleRecords
  <2> HIDE DEF s, p
  <2>7. InOrder(s, published)
    BY <2>1, <2>2, <2>4 DEF InOrder
  <2> QED
    BY <2>1, <2>3, <2>4, <2>6, <2>7, OneViewer
<1> QED
  BY <1>1, <1>2

LEMMA ResyncKeeps ==
    ASSUME FeedInv, NEW v \in Viewers, NEW next \in {"select", "active"}, ResyncIfMissed(v, next)
    PROVE  FeedInv'
<1> DEFINE s == [stream[v] EXCEPT !.missed = FALSE, !.at = next]
           p == [console[v] EXCEPT !.reload = @ \/ stream[v].missed]
<1>1. /\ stream[v] \in StreamRecords /\ InOrder(stream[v], published) /\ stream[v].sentActive <= activeVersion
      /\ console[v] \in ConsoleRecords /\ console[v].rows \subseteq 1..committed
  BY ViewerHas
<1>2. /\ stream' = [stream EXCEPT ![v] = s] /\ console' = [console EXCEPT ![v] = p]
      /\ UNCHANGED <<writerVars, activeVars, operatorVersion>>
  <2>1. stream \in [Viewers -> StreamRecords] /\ console \in [Viewers -> ConsoleRecords]
    BY ViewerHas
  <2> QED
    BY <2>1 DEF ResyncIfMissed
<1>3. /\ s \in StreamRecords /\ s.events = stream[v].events /\ s.since = stream[v].since
      /\ s.sentActive = stream[v].sentActive
  BY <1>1 DEF StreamRecords
<1>4. p \in ConsoleRecords /\ p.rows = console[v].rows
  <2>1. (console[v].reload \/ stream[v].missed) \in BOOLEAN
    OBVIOUS
  <2> DEFINE b == console[v].reload \/ stream[v].missed
  <2>2. p = [console[v] EXCEPT !.reload = b]
    BY <1>1 DEF ConsoleRecords
  <2> HIDE DEF b, p
  <2> QED
    BY <1>1, <2>1, <2>2 DEF ConsoleRecords, b
<1> HIDE DEF s, p
<1>5. InOrder(s, published)
  BY <1>1, <1>3 DEF InOrder
<1> QED
  BY <1>1, <1>2, <1>3, <1>4, <1>5, OneViewer

LEMMA WriteActiveKeeps ==
    ASSUME FeedInv, NEW v \in Viewers, NEW next \in {"select", "polled"}, WriteActive(v, next)
    PROVE  FeedInv'
<1> DEFINE s == [stream[v] EXCEPT !.sentActive = activeVersion, !.at = next]
           p == IF stream[v].sentActive = activeVersion THEN console[v]
                ELSE [console[v] EXCEPT !.total = ActiveSnapshot.total, !.list = ActiveSnapshot.list]
<1>1. /\ stream[v] \in StreamRecords /\ InOrder(stream[v], published) /\ activeVersion \in Nat
      /\ console[v] \in ConsoleRecords /\ console[v].rows \subseteq 1..committed
      /\ stream \in [Viewers -> StreamRecords] /\ console \in [Viewers -> ConsoleRecords]
  BY ViewerHas
<1>2. /\ stream' = [stream EXCEPT ![v] = s] /\ console' = [console EXCEPT ![v] = p]
      /\ UNCHANGED <<writerVars, activeVars, operatorVersion>>
  <2>1. stream' = [stream EXCEPT ![v] = s] /\ UNCHANGED <<writerVars, activeVars, operatorVersion>>
    BY <1>1 DEF WriteActive
  <2>2. console' = [console EXCEPT ![v] = p]
    <3>1. CASE stream[v].sentActive = activeVersion
      BY <1>1, <3>1 DEF WriteActive
    <3>2. CASE stream[v].sentActive # activeVersion
      BY <1>1, <3>2 DEF WriteActive
    <3> QED
      BY <3>1, <3>2
  <2> QED
    BY <2>1, <2>2
<1>3. /\ s \in StreamRecords /\ s.events = stream[v].events /\ s.since = stream[v].since
      /\ s.sentActive = activeVersion
  BY <1>1 DEF StreamRecords
<1>4. p \in ConsoleRecords /\ p.rows = console[v].rows
  BY <1>1, SnapshotIsListed DEF ConsoleRecords, FeedInv
<1> HIDE DEF s, p
<1>5. InOrder(s, published) /\ s.sentActive <= activeVersion
  BY <1>1, <1>3 DEF InOrder
<1> QED
  BY <1>1, <1>2, <1>3, <1>4, <1>5, OneViewer

LEMMA ReloadKeeps == ASSUME FeedInv, NEW v \in Viewers, Reload(v) PROVE FeedInv'
<1> DEFINE p == [console[v] EXCEPT !.reload = FALSE, !.rows = @ \cup 1..committed]
<1>1. /\ stream[v] \in StreamRecords /\ InOrder(stream[v], published) /\ stream[v].sentActive <= activeVersion
      /\ console[v] \in ConsoleRecords /\ console[v].rows \subseteq 1..committed
      /\ stream \in [Viewers -> StreamRecords] /\ console \in [Viewers -> ConsoleRecords]
  BY ViewerHas
<1>2. /\ console' = [console EXCEPT ![v] = p] /\ stream' = [stream EXCEPT ![v] = stream[v]]
      /\ UNCHANGED <<writerVars, activeVars, operatorVersion>>
  BY <1>1 DEF Reload
<1>3. 1..committed \subseteq Nat
  BY FeedAssumption DEF FeedInv, CommittedInv
<1>4. p \in ConsoleRecords /\ p.rows \subseteq 1..committed
  BY <1>1, <1>3 DEF ConsoleRecords
<1> HIDE DEF p
<1> QED
  BY <1>1, <1>2, <1>4, OneViewer

LEMMA RotateOperatorKeeps == ASSUME FeedInv, RotateOperator PROVE FeedInv'
<1>1. /\ operatorVersion <= MaxRotations /\ operatorVersion' = operatorVersion + 1
      /\ UNCHANGED <<committed, published, entries, nextID, activeVersion, stream, console>>
  BY DEF RotateOperator, writerVars, activeVars
<1>2. operatorVersion \in 1..(MaxRotations + 1) /\ MaxRotations \in Nat
  BY FeedAssumption DEF FeedInv, CommittedInv
<1>3. operatorVersion + 1 \in 1..(MaxRotations + 1)
  BY <1>1, <1>2
<1>4. CommittedInv'
  BY <1>1, <1>3 DEF FeedInv, CommittedInv
<1>5. RegistryInv' /\ StreamsInv' /\ PagesInv'
  BY <1>1 DEF FeedInv, RegistryInv, StreamsInv, PagesInv, InOrder
<1> QED
  BY <1>4, <1>5 DEF FeedInv

LEMMA ViewerStepKeeps ==
    ASSUME FeedInv, NEW v \in Viewers,
           \/ \E again \in BOOLEAN : OpenStream(v, again)
           \/ SendRow(v) \/ AfterRow(v) \/ Poll(v) \/ AuthCheck(v) \/ Hangup(v) \/ Reload(v)
    PROVE  FeedInv'
<1>1. CASE \E again \in BOOLEAN : OpenStream(v, again)
  BY <1>1, OpenStreamKeeps
<1>2. CASE SendRow(v)
  BY <1>2, SendRowKeeps
<1>3. CASE AfterRow(v)
  BY <1>3, ResyncKeeps, WriteActiveKeeps DEF AfterRow
<1>4. CASE Poll(v)
  BY <1>4, ResyncKeeps, WriteActiveKeeps, CloseStreamKeeps DEF Poll
<1>5. CASE AuthCheck(v) \/ Hangup(v)
  BY <1>5, CloseStreamKeeps DEF AuthCheck, Hangup
<1>6. CASE Reload(v)
  BY <1>6, ReloadKeeps
<1> QED
  BY <1>1, <1>2, <1>3, <1>4, <1>5, <1>6

LEMMA FeedKeeps == FeedInv /\ [FeedNext]_feedVars => FeedInv'
<1> SUFFICES ASSUME FeedInv, [FeedNext]_feedVars PROVE FeedInv'
  OBVIOUS
<1>1. CASE UNCHANGED feedVars
  BY <1>1 DEF feedVars, FeedInv, RegistryInv, CommittedInv, StreamsInv, PagesInv, InOrder
<1>2. CASE \E n \in 1..2 : CommitRows(n)
  BY <1>2, CommitRowsKeeps
<1>3. CASE PublishRow
  BY <1>3, PublishRowKeeps
<1>4. CASE BeginRequest
  BY <1>4, BeginRequestKeeps
<1>5. CASE RotateOperator
  BY <1>5, RotateOperatorKeeps
<1>6. CASE \E id \in 1..nextID : Release(id) \/ SetKey(id) \/ \E channel \in Channels : SetUpstream(id, channel)
  BY <1>6, EntriesKeep
<1>7. ASSUME NEW v \in Viewers,
             \/ \E again \in BOOLEAN : OpenStream(v, again)
             \/ SendRow(v) \/ AfterRow(v) \/ Poll(v) \/ AuthCheck(v) \/ Hangup(v) \/ Reload(v)
      PROVE  FeedInv'
  BY <1>7, ViewerStepKeeps
<1> QED
  BY <1>1, <1>2, <1>3, <1>4, <1>5, <1>6, <1>7 DEF FeedNext

LEMMA FeedShape == FeedInv => FeedTypeOK
<1> SUFFICES ASSUME FeedInv PROVE FeedTypeOK
  OBVIOUS
<1>1. published \in 0..committed /\ committed <= MaxRows /\ operatorVersion \in 1..(MaxRotations + 1)
  BY FeedAssumption DEF FeedInv, CommittedInv
<1>2. /\ DOMAIN entries \subseteq 1..nextID /\ activeVersion \in Nat
      /\ \A i \in DOMAIN entries : entries[i].key \in {0, entries[i].channel}
  BY DEF FeedInv, RegistryInv, Entries
<1>3. ASSUME NEW v \in Viewers
      PROVE  /\ stream[v].at \in {"closed", "select", "resync", "active", "polled"}
             /\ stream[v].missed \in BOOLEAN /\ stream[v].sentActive \in 0..activeVersion
             /\ Len(stream[v].events) <= FeedCapacity
             /\ console[v].rows \subseteq 1..committed /\ console[v].reload \in BOOLEAN
             /\ console[v].list \in Seq(Listed)
  <2>1. /\ stream[v] \in StreamRecords /\ InOrder(stream[v], published) /\ stream[v].sentActive <= activeVersion
        /\ console[v] \in ConsoleRecords /\ console[v].rows \subseteq 1..committed
    BY ViewerHas
  <2>2. stream[v].sentActive \in Nat
    BY <2>1 DEF StreamRecords
  <2>3. stream[v].sentActive \in 0..activeVersion
    BY <1>2, <2>1, <2>2
  <2> QED
    BY <2>1, <2>3 DEF StreamRecords, ConsoleRecords, InOrder
<1>4. ASSUME NEW v \in Viewers, NEW i \in 1..Len(stream[v].events)
      PROVE  /\ stream[v].events[i] \in (stream[v].since + 1)..published
             /\ i > 1 => stream[v].events[i] > stream[v].events[i - 1]
  <2> DEFINE q == stream[v].events
             n == Len(q)
             a == stream[v].since
  <2>1. stream[v] \in StreamRecords /\ InOrder(stream[v], published) /\ published \in Nat
    BY ViewerHas
  <2>2. q \in Seq(Nat) /\ a \in Nat
    BY <2>1 DEF StreamRecords
  <2>3. a + 1 <= q[i] /\ q[i] <= published /\ \A j \in 2..n : q[j - 1] < q[j]
    BY <2>1 DEF InOrder
  <2> HIDE DEF a, q
  <2>4. n \in Nat /\ \A j \in 1..n : q[j] \in Nat
    BY <2>2, LenProperties, ElementOfSeq
  <2> HIDE DEF n
  <2>5. i \in 1..n
    BY DEF n, q
  <2>6. q[i] \in (a + 1)..published
    BY <2>1, <2>2, <2>3, <2>4, <2>5
  <2>7. i > 1 => q[i] > q[i - 1]
    <3> SUFFICES ASSUME i > 1 PROVE q[i] > q[i - 1]
      OBVIOUS
    <3>1. i \in 2..n /\ i - 1 \in 1..n
      BY <2>4, <2>5
    <3>2. q[i - 1] < q[i] /\ q[i - 1] \in Nat /\ q[i] \in Nat
      BY <2>3, <2>4, <2>5, <3>1
    <3> QED
      BY <3>2
  <2> QED
    BY <2>6, <2>7 DEF a, q
<1> QED
  BY <1>1, <1>2, <1>3, <1>4 DEF FeedTypeOK

(* The feed keeps its shape: a stream's queue holds only rows that were    *)
(* committed and published since it opened, in the order of publication    *)
(* and never more than its room, a page shows no row that is not in the    *)
(* database, and a request in flight names a key of its own channel        *)
(* (proxy/logging.go:700-776, proxy/active.go:228-245).                    *)
THEOREM FeedTypesCorrect == FeedSpec => []FeedTypeOK
<1>1. FeedSpec => []FeedInv
  BY FeedStarts, FeedKeeps, PTL DEF FeedSpec
<1> QED
  BY <1>1, FeedShape, PTL
-----------------------------------------------------------------------------
(* The instance: its components side by side.                              *)
LEMMA ServiceStarts == Init => AnswerInv /\ HealthInv /\ FeedInv /\ AuthInv /\ LifeInv
<1> SUFFICES ASSUME Init PROVE AnswerInv /\ HealthInv /\ FeedInv /\ AuthInv /\ LifeInv
  OBVIOUS
<1>1. AnswerInit /\ HealthInit /\ FeedInit /\ AuthInit /\ LifeInit
  BY DEF Init, OneAnswer, OnePolicy
<1> QED
  BY <1>1, AnswerStarts, HealthStarts, FeedStarts, AuthStarts, LifeStarts

LEMMA ServiceKeeps ==
    AnswerInv /\ HealthInv /\ FeedInv /\ AuthInv /\ LifeInv /\ [Next]_vars
      => (AnswerInv /\ HealthInv /\ FeedInv /\ AuthInv /\ LifeInv)'
<1>1. [Next]_vars => /\ [AnswerNext]_answerVars /\ [HealthNext]_healthVars /\ [FeedNext]_feedVars
                     /\ [AuthNext]_authVars /\ [LifeNext]_lifeVars
  BY DEF Next, vars
<1> QED
  BY <1>1, AnswerKeeps, HealthKeeps, FeedKeeps, AuthKeeps, LifeKeeps

(* Every component of the instance keeps its shape, whatever the constants *)
(* (the definitions the parts' theorems above are about).                  *)
THEOREM ServiceTypesCorrect == Spec => []TypeOK
<1> DEFINE Inv == AnswerInv /\ HealthInv /\ FeedInv /\ AuthInv /\ LifeInv
<1>1. Init => Inv
  BY ServiceStarts
<1>2. Inv /\ [Next]_vars => Inv'
  BY ServiceKeeps
<1>3. Inv => TypeOK
  BY AnswerShape, HealthShape, FeedShape, AuthShape, LifeShape DEF TypeOK
<1> HIDE DEF Inv
<1> QED
  BY <1>1, <1>2, <1>3, PTL DEF Spec
=============================================================================

----------------------------- MODULE AdminAuth ------------------------------
(***************************************************************************)
(* The admin credential: requests that prove a token against the current   *)
(* generation, the cache of the last token proved, the single slot for     *)
(* Argon2id verifications, and the rotation that replaces the credential   *)
(* under a version check and publishes it.                                 *)
(*   authstate/credential.go, the queue of authstate/throttle.go,          *)
(*   middleware/auth.go (RequireAdmin), handlers/admin.go                  *)
(*   (AdminRotateAdminToken), db/settings.go (RotateAdminCredential).      *)
(* Each step of a request is one atomic access to what is shared. The      *)
(* throttle may refuse a request at any time here: what it counts is in    *)
(* Throttle, and nothing else of it reaches this module.                   *)
(***************************************************************************)
EXTENDS Integers, Sequences, FiniteSets

CONSTANTS
    Requests,           \* goroutines serving admin requests
    Tokens,             \* tokens a caller may present or rotate to
    BootstrapToken,     \* the token of generation 1
    MaxWaiters,         \* maxVerificationWaiters
    MaxGeneration,      \* bound on rotations
    MaxRestarts         \* bound on restarts

ASSUME AuthAssumption ==
    /\ BootstrapToken \in Tokens
    /\ MaxWaiters \in Nat \ {0}
    /\ IsFiniteSet(Requests) /\ "free" \notin Requests
    /\ MaxGeneration \in Nat \ {0} /\ MaxRestarts \in Nat

VARIABLES
    stored,     \* admin_credential: the token of every generation so far
    version,    \* Credentials.version
    current,    \* the generation of Credentials.current
    verified,   \* authCache.verified
    slot,       \* verificationQueue.slot: free, or the request holding it
    req,        \* what each request has read so far, and where it is
    answered,   \* the newest generation whose rotation was answered
    restarts

credentialVars == <<stored, version, current, answered>>
authVars == <<stored, version, current, verified, slot, req, answered, restarts>>

NoProof == [generation |-> 0, token |-> BootstrapToken]
Idle == [pc |-> "idle", token |-> BootstrapToken,
         since |-> 0, seen |-> 0]

AuthInit ==
    /\ stored = <<BootstrapToken>>
    /\ version = 1 /\ current = 1 /\ answered = 1
    /\ verified = NoProof
    /\ slot = "free"
    /\ req = [r \in Requests |-> Idle]
    /\ restarts = 0

At(r, pc) == req[r].pc = pc
GoTo(r, pc) == req' = [req EXCEPT ![r].pc = pc]
Finish(r) == req' = [req EXCEPT ![r] = Idle]
-----------------------------------------------------------------------------
(* Authenticate. *)

\* A request arrives and reads the version first thing.
Begin(r) ==
    /\ At(r, "idle")
    /\ \E t \in Tokens :
         req' = [req EXCEPT ![r] = [pc |-> "hit", token |-> t,
                                    since |-> answered, seen |-> version]]
    /\ UNCHANGED <<credentialVars, verified, slot, restarts>>

\* Mutant: the generation the token was proved against is not compared.
HitAnyGeneration(r) == verified # NoProof /\ verified.token = req[r].token

Hit(r) == verified # NoProof /\ verified.generation = req[r].seen /\ verified.token = req[r].token

LookInCache(r) ==
    /\ At(r, "hit")
    /\ GoTo(r, IF Hit(r) THEN "granted" ELSE "admit")
    /\ UNCHANGED <<credentialVars, verified, slot, restarts>>

\* Throttle.Admit lets the caller on, or refuses it.
PassThrottle(r) ==
    /\ At(r, "admit")
    /\ GoTo(r, "enter") \/ Finish(r)
    /\ UNCHANGED <<credentialVars, verified, slot, restarts>>

Waiting == {r \in Requests : At(r, "waiting")}

Enter(r) ==
    /\ At(r, "enter")
    /\ IF Cardinality(Waiting) >= MaxWaiters THEN Finish(r) ELSE GoTo(r, "waiting")
    /\ UNCHANGED <<credentialVars, verified, slot, restarts>>

TakeSlot(r) ==
    /\ At(r, "waiting") /\ slot = "free"
    /\ slot' = r /\ GoTo(r, "version")
    /\ UNCHANGED <<credentialVars, verified, restarts>>

ReadVersion(r) ==
    /\ At(r, "version")
    /\ req' = [req EXCEPT ![r].pc = "again", ![r].seen = version]
    /\ UNCHANGED <<credentialVars, verified, slot, restarts>>

LookAgain(r) ==
    /\ At(r, "again")
    /\ IF Hit(r) THEN GoTo(r, "granted") /\ slot' = "free" ELSE GoTo(r, "snapshot") /\ UNCHANGED slot
    /\ UNCHANGED <<credentialVars, verified, restarts>>

\* Mutant: the refusal keeps the slot.
SnapshotKeepsSlot(r) ==
    /\ At(r, "snapshot")
    /\ IF current # req[r].seen THEN Finish(r) ELSE GoTo(r, "verify")
    /\ UNCHANGED <<credentialVars, verified, slot, restarts>>

Snapshot(r) ==
    /\ At(r, "snapshot")
    /\ IF current # req[r].seen THEN Finish(r) /\ slot' = "free" ELSE GoTo(r, "verify") /\ UNCHANGED slot
    /\ UNCHANGED <<credentialVars, verified, restarts>>

\* VerifyAdminToken against the snapshot, whatever was rotated meanwhile.
Verify(r) ==
    /\ At(r, "verify")
    /\ IF stored[req[r].seen] = req[r].token
       THEN GoTo(r, "proved") /\ UNCHANGED slot
       ELSE Finish(r) /\ slot' = "free"
    /\ UNCHANGED <<credentialVars, verified, restarts>>

\* A rotation that landed meanwhile refuses the request and costs it nothing.
Recheck(r) ==
    /\ At(r, "proved")
    /\ IF version # req[r].seen THEN Finish(r) /\ slot' = "free" ELSE GoTo(r, "store") /\ UNCHANGED slot
    /\ UNCHANGED <<credentialVars, verified, restarts>>

StoreProof(r) ==
    /\ At(r, "store")
    /\ verified' = [generation |-> req[r].seen, token |-> req[r].token]
    /\ GoTo(r, "granted") /\ slot' = "free"
    /\ UNCHANGED <<credentialVars, restarts>>
-----------------------------------------------------------------------------
(* What an authenticated request does: something else, or a rotation.      *)
Serve(r) ==
    /\ At(r, "granted") /\ Finish(r)
    /\ UNCHANGED <<credentialVars, verified, slot, restarts>>

\* RotateAdminCredential: one UPDATE, if the stored version is still the one
\* the request authenticated at. Otherwise the request is answered with a conflict.
Rotate(r) ==
    /\ At(r, "granted")
    /\ IF Len(stored) # req[r].seen
       THEN Finish(r) /\ UNCHANGED stored
       ELSE /\ Len(stored) < MaxGeneration
            /\ \E t \in Tokens :
                 /\ stored' = Append(stored, t)
                 /\ req' = [req EXCEPT ![r].pc = "publish", ![r].seen = Len(stored) + 1]
    /\ UNCHANGED <<version, current, answered, verified, slot, restarts>>

\* Publish: the version first, then the snapshot, then the cache.
PublishVersion(r) ==
    /\ At(r, "publish")
    /\ version' = IF req[r].seen > version THEN req[r].seen ELSE version
    /\ GoTo(r, "adopt")
    /\ UNCHANGED <<stored, current, answered, verified, slot, restarts>>

PublishSnapshot(r) ==
    /\ At(r, "adopt")
    /\ current' = IF req[r].seen > current THEN req[r].seen ELSE current
    /\ GoTo(r, "clear")
    /\ UNCHANGED <<stored, version, answered, verified, slot, restarts>>

\* The cache is cleared, and the rotation answered.
PublishDone(r) ==
    /\ At(r, "clear")
    /\ verified' = NoProof
    /\ answered' = IF req[r].seen > answered THEN req[r].seen ELSE answered
    /\ Finish(r)
    /\ UNCHANGED <<stored, version, current, slot, restarts>>
-----------------------------------------------------------------------------
\* Nothing but the credential row survives: loadOrBootstrapAdminCredential.
Restart ==
    /\ restarts < MaxRestarts /\ restarts' = restarts + 1
    /\ version' = Len(stored) /\ current' = Len(stored)
    /\ verified' = NoProof /\ slot' = "free"
    /\ req' = [r \in Requests |-> Idle]
    /\ UNCHANGED <<stored, answered>>

\* What a request does once it has arrived.
Authenticate(r) ==
    \/ LookInCache(r) \/ PassThrottle(r) \/ Enter(r) \/ ReadVersion(r) \/ LookAgain(r)
    \/ Snapshot(r) \/ Verify(r) \/ Recheck(r) \/ StoreProof(r)

Publish(r) == PublishVersion(r) \/ PublishSnapshot(r) \/ PublishDone(r)

AuthNext ==
    \/ \E r \in Requests :
         Begin(r) \/ Authenticate(r) \/ TakeSlot(r) \/ Serve(r) \/ Rotate(r) \/ Publish(r)
    \/ Restart

\* A goroutine goes on; the runtime hands the slot to its waiters in turn.
AuthFairness ==
    \A r \in Requests :
      /\ WF_authVars(Authenticate(r) \/ Serve(r) \/ Publish(r))
      /\ SF_authVars(TakeSlot(r))

AuthSpec == AuthInit /\ [][AuthNext]_authVars /\ AuthFairness
-----------------------------------------------------------------------------
Pcs == {"idle", "hit", "admit", "enter", "waiting", "version", "again", "snapshot",
        "verify", "proved", "store", "granted", "publish", "adopt", "clear"}
HoldsSlot == {"version", "again", "snapshot", "verify", "proved", "store"}

(* Every variable has its shape; the queue keeps its bound and the slot    *)
(* has one holder; no generation is ahead of the stored one.               *)
AuthTypeOK ==
    /\ restarts \in 0..MaxRestarts
    /\ stored \in Seq(Tokens) /\ Len(stored) \in 1..MaxGeneration
    /\ answered \in 1..current /\ current \in 1..version /\ version \in 1..Len(stored)
    /\ verified = NoProof \/ verified \in [generation : 1..version, token : Tokens]
    /\ req \in [Requests -> [pc : Pcs, token : Tokens,
                             since : 0..answered, seen : 0..Len(stored)]]
    /\ Cardinality(Waiting) <= MaxWaiters
    /\ slot = "free" \/ slot \in Requests
    /\ \A r \in Requests : req[r].pc \in HoldsSlot <=> slot = r

(* A request is let in only on the token of the generation it is let in    *)
(* under, and never on one whose replacement was answered before it        *)
(* arrived: neither the cache, nor a rotation during its verification, nor *)
(* a restart lets an older token through (authstate/credential.go:204-208).*)
GrantsAreCurrent ==
    \A r \in Requests : At(r, "granted") =>
      /\ req[r].token = stored[req[r].seen]
      /\ req[r].seen >= req[r].since

(* Every admin request is answered: the slot is given back on every path   *)
(* out of a verification (authstate/throttle.go:301-320).                  *)
EveryRequestAnswered ==
    \A r \in Requests : ~At(r, "idle") ~> At(r, "idle")
=============================================================================

-------------------------------- MODULE Auth --------------------------------
(***************************************************************************)
(* The auth layer (runway-auth): a bearer token is checked with the provider's *)
(* public keys, which are cached for Ttl under a lock that many may read and  *)
(* one may write (firebase.rs); then the app is required (middleware.rs).     *)
(* A token is the id of the key that signed it and the claims it carries.     *)
(***************************************************************************)
EXTENDS Integers, FiniteSets

CONSTANTS
    Request,    \* requests in progress at once
    Kid,        \* key ids of the provider, and ids it never had
    Ttl,        \* JWKS_TTL
    Delay,      \* how long an answer of the provider is under way, at most
    MaxTime     \* bound: the clock

ASSUME AuthAssumption == Ttl \in Nat \ {0} /\ Delay \in Nat /\ MaxTime \in Nat

VARIABLES
    now,        \* the clock
    published,  \* the key ids the provider publishes
    gone,       \* [Kid -> when it was withdrawn; Never]
    cache,      \* the cached keys and when they were fetched; NoCache
    lock,       \* the request that holds the write lock, or Free
    req         \* [Request -> how far it is]

authVars == <<now, published, gone, cache, lock, req>>

Never == -1
NoCache == [keys |-> {}, at |-> Never]
Free == "free"
NoRequest == [at |-> "none"]
Token == [kid : Kid, app : BOOLEAN]
Dev == "dev"

AuthInit ==
    /\ now = 0
    /\ published \in SUBSET Kid /\ published # {}
    /\ gone = [k \in Kid |-> Never]
    /\ cache = NoCache /\ lock = Free
    /\ req = [r \in Request |-> NoRequest]

UnchangedKeys == UNCHANGED <<now, published, gone>>

\* The provider withdraws a key, or publishes one it has not withdrawn.
Rotate(k) ==
    /\ IF k \in published
       THEN published' = published \ {k} /\ gone' = [gone EXCEPT ![k] = now]
       ELSE gone[k] = Never /\ published' = published \cup {k} /\ UNCHANGED gone
    /\ UNCHANGED <<now, cache, lock, req>>

Tick ==
    /\ now < MaxTime
    /\ \A r \in Request : req[r].at = "answered" => now - req[r].asOf < Delay
    /\ now' = now + 1
    /\ UNCHANGED <<published, gone, cache, lock, req>>

----------------------------------------------------------------------------

\* The answer is sent at once.
Deny(r) == req' = [req EXCEPT ![r] = NoRequest]

Admit(r, token) ==
    req' = [req EXCEPT ![r] = IF token.app THEN [at |-> "admitted", kid |-> token.kid, time |-> now]
                              ELSE NoRequest]

\* No header, another scheme or an empty token is refused; a token that does not decode
\* too.  A local host lets "dev" in, whatever app is required; as a bound, no other
\* token that decodes is sent to one.
Arrive(r, local_dev) ==
    /\ req[r] = NoRequest
    /\ \/ Deny(r)
       \/ local_dev /\ req' = [req EXCEPT ![r] = [at |-> "admitted", kid |-> Dev, time |-> now]]
       \/ \E token \in Token : ~local_dev /\ req' = [req EXCEPT ![r] = [at |-> "read", token |-> token]]
    /\ UNCHANGED <<cache, lock>> /\ UnchangedKeys

\* Mutant: a key that is cached is good however old.
CachedForever(k) == cache # NoCache /\ k \in cache.keys

Cached(k) == cache # NoCache /\ now - cache.at < Ttl /\ k \in cache.keys

\* The read lock is had when nobody holds the write lock.
ReadCache(r) ==
    /\ req[r].at = "read" /\ lock = Free
    /\ IF Cached(req[r].token.kid) THEN Admit(r, req[r].token)
       ELSE req' = [req EXCEPT ![r].at = "wait"]
    /\ UNCHANGED <<cache, lock>> /\ UnchangedKeys

\* The cache is not looked at again.
TakeLock(r) ==
    /\ req[r].at = "wait" /\ lock = Free
    /\ lock' = r
    /\ req' = [req EXCEPT ![r].at = "fetch"]
    /\ UNCHANGED cache /\ UnchangedKeys

FetchFails(r) ==
    /\ req[r].at = "fetch"
    /\ Deny(r) /\ lock' = Free
    /\ UNCHANGED cache /\ UnchangedKeys

FetchJwks(r) ==
    /\ req[r].at = "fetch"
    /\ req' = [req EXCEPT ![r] = [at |-> "answered", token |-> req[r].token, keys |-> published, asOf |-> now]]
    /\ UNCHANGED <<cache, lock>> /\ UnchangedKeys

\* Keys without the one looked for are not kept.
StoreKeys(r) ==
    /\ req[r].at = "answered"
    /\ lock' = Free
    /\ IF req[r].token.kid \in req[r].keys
       THEN cache' = [keys |-> req[r].keys, at |-> now] /\ Admit(r, req[r].token)
       ELSE Deny(r) /\ UNCHANGED cache
    /\ UnchangedKeys

Verify(r) == ReadCache(r) \/ TakeLock(r) \/ FetchJwks(r) \/ FetchFails(r) \/ StoreKeys(r)

----------------------------------------------------------------------------
(* Properties *)

\* "JWKS is cached for 1 hour", firebase.rs:88: a token is accepted only with a key that
\* the provider publishes, or withdrew no longer ago than the cache lives and an answer
\* takes, whoever fetched the keys and however requests waited for each other.
WithdrawnKeysExpire == \A r \in Request :
    req[r].at = "admitted" /\ req[r].kid # Dev =>
        \/ req[r].kid \in published
        \/ gone[req[r].kid] # Never /\ req[r].time - gone[req[r].kid] < Ttl + Delay
=============================================================================

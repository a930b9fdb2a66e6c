---------------------------- MODULE AppHostProofs ----------------------------
(***************************************************************************)
(* The layers of a host, each for any requests.  Auth, for any keys and times: *)
(* a withdrawn key is good no longer than the cache lives and an answer takes; *)
(* what the host does meanwhile with its stores does not matter, that it can   *)
(* die does.  Objects, for any keys and temporary files: what a reader finds   *)
(* is whole, and a list has what was there all the while.  Documents, vectors  *)
(* and events, whatever is stored: a query is answered with the first or the   *)
(* best of what was asked for.                                                 *)
(***************************************************************************)
EXTENDS AppHost, OrderingProofs, FiniteSetTheorems, TLAPS

Asking == [at : {"read", "wait", "fetch"}, token : Token]
Answered == [at : {"answered"}, token : Token, keys : SUBSET Kid, asOf : Nat]
Admitted == [at : {"admitted"}, kid : Kid \cup {Dev}, time : Nat]
Requests == {NoRequest} \cup Asking \cup Answered \cup Admitted

\* k is published, or was at time t.
Since(k, t) == k \in published \/ (gone[k] # Never /\ t <= gone[k])

AuthTypeOK ==
    /\ now \in Nat
    /\ published \subseteq Kid
    /\ gone \in [Kid -> Nat \cup {Never}]
    /\ cache \in [keys : SUBSET Kid, at : Nat \cup {Never}]
    /\ req \in [Request -> Requests]

\* No key is withdrawn in the future, and none comes back.
GoneIsPast == \A k \in Kid : gone[k] <= now /\ (k \in published => gone[k] = Never)

\* What an answer brought was published when it was given, and it is not late.
AnswerIsDated(x) ==
    x.at = "answered" =>
        x.asOf <= now /\ now <= x.asOf + Delay /\ \A k \in x.keys : Since(k, x.asOf)

\* Cached keys were published at most Delay before they were cached.
CacheIsDated == \A k \in cache.keys : cache.at \in 0..now /\ Since(k, cache.at - Delay)

AdmittedIsDated(x) ==
    x.at = "admitted" => x.time <= now /\ (x.kid # Dev => Since(x.kid, x.time - Ttl - Delay + 1))

IInv ==
    /\ AuthTypeOK /\ GoneIsPast /\ CacheIsDated
    /\ \A r \in Request : AnswerIsDated(req[r]) /\ AdmittedIsDated(req[r])

----------------------------------------------------------------------------

\* No key is withdrawn, cached or asked for.
LEMMA InitIInv == HostInit => IInv
<1> SUFFICES ASSUME AuthInit
             PROVE  IInv
    BY DEF HostInit
<1>1. AuthTypeOK
    BY DEF AuthInit, AuthTypeOK, Requests, NoCache
<1>2. GoneIsPast /\ CacheIsDated
    BY DEF AuthInit, GoneIsPast, CacheIsDated, NoCache, Never
<1>3. \A r \in Request : req[r].at = "none"
    BY DEF AuthInit, NoRequest
<1> QED
    BY <1>1, <1>2, <1>3 DEF IInv, AnswerIsDated, AdmittedIsDated

\* As long as keys and clock stay, a step has to account for the request it moves
\* and for the cache.
LEMMA RequestMoves ==
    ASSUME IInv, UNCHANGED <<now, published, gone>>,
           NEW r \in Request, NEW x \in Requests, req' = [req EXCEPT ![r] = x],
           AnswerIsDated(x), AdmittedIsDated(x),
           cache' \in [keys : SUBSET Kid, at : Nat \cup {Never}], CacheIsDated'
    PROVE  IInv'
<1>1. AuthTypeOK' /\ GoneIsPast'
    BY DEF IInv, AuthTypeOK, GoneIsPast
<1>2. ASSUME NEW q \in Request
      PROVE  AnswerIsDated(req'[q]) /\ AdmittedIsDated(req'[q])
    BY <1>2 DEF IInv, AuthTypeOK
<1>3. \A q \in Request : AnswerIsDated(req[q])' /\ AdmittedIsDated(req[q])'
    BY <1>2 DEF AnswerIsDated, AdmittedIsDated, Since
<1> QED
    BY <1>1, <1>3 DEF IInv

\* A request that arrives, is refused or is answered carries no keys and no time
\* but the present one.
LEMMA ArriveIInv ==
    ASSUME IInv, NEW r \in Request, NEW dev \in BOOLEAN, Arrive(r, dev)
    PROVE  IInv'
<1>1. CacheIsDated' /\ cache' \in [keys : SUBSET Kid, at : Nat \cup {Never}]
    BY DEF Arrive, UnchangedKeys, IInv, AuthTypeOK, CacheIsDated, Since
<1>2. UNCHANGED <<now, published, gone>>
    BY DEF Arrive, UnchangedKeys
<1>3. CASE Deny(r)
    <2>1. NoRequest \in Requests /\ AnswerIsDated(NoRequest) /\ AdmittedIsDated(NoRequest)
        BY DEF Requests, NoRequest, AnswerIsDated, AdmittedIsDated
    <2> QED
        BY <1>1, <1>2, <1>3, <2>1, RequestMoves DEF Deny
<1>4. CASE req' = [req EXCEPT ![r] = [at |-> "admitted", kid |-> Dev, time |-> now]]
    <2> DEFINE x == [at |-> "admitted", kid |-> Dev, time |-> now]
    <2>1. x \in Requests /\ AnswerIsDated(x) /\ AdmittedIsDated(x)
        BY DEF Requests, Admitted, AnswerIsDated, AdmittedIsDated, IInv, AuthTypeOK
    <2> QED
        BY <1>1, <1>2, <1>4, <2>1, RequestMoves
<1>5. ASSUME NEW token \in Token, req' = [req EXCEPT ![r] = [at |-> "read", token |-> token]]
      PROVE  IInv'
    <2> DEFINE x == [at |-> "read", token |-> token]
    <2>1. x \in Requests /\ AnswerIsDated(x) /\ AdmittedIsDated(x)
        BY DEF Requests, Asking, AnswerIsDated, AdmittedIsDated
    <2> QED
        BY <1>1, <1>2, <1>5, <2>1, RequestMoves
<1> QED
    BY <1>3, <1>4, <1>5 DEF Arrive

\* A token whose key is in keys, which were published no longer ago than a cached
\* answer may be, is admitted at the present time.
LEMMA Admission ==
    ASSUME IInv, NEW token \in Token, NEW t \in Int, now - t < Ttl + Delay, Since(token.kid, t),
           NEW x, x = [at |-> "admitted", kid |-> token.kid, time |-> now]
    PROVE  x \in Requests /\ AnswerIsDated(x) /\ AdmittedIsDated(x)
<1>1. token.kid \in Kid /\ now \in Nat /\ gone[token.kid] \in Nat \cup {Never}
    BY DEF Token, IInv, AuthTypeOK
<1>2. x \in Admitted /\ x.at = "admitted" /\ x.kid = token.kid /\ x.time = now
    BY <1>1 DEF Admitted
<1>3. Since(token.kid, now - Ttl - Delay + 1)
    BY <1>1, AuthAssumption DEF Since, Never
<1> QED
    BY <1>1, <1>2, <1>3 DEF Requests, AnswerIsDated, AdmittedIsDated

\* A token is let in with a cached key, or with one just fetched.
LEMMA VerifyIInv ==
    ASSUME IInv, NEW r \in Request, Verify(r)
    PROVE  IInv'
<1> USE AuthAssumption
<1>1. UNCHANGED <<now, published, gone>> /\ now \in Nat /\ req[r] \in Requests
    BY DEF Verify, ReadCache, TakeLock, FetchJwks, FetchFails, StoreKeys, UnchangedKeys, IInv, AuthTypeOK
<1>2. NoRequest \in Requests /\ AnswerIsDated(NoRequest) /\ AdmittedIsDated(NoRequest)
    BY DEF Requests, NoRequest, AnswerIsDated, AdmittedIsDated
<1>3. ASSUME UNCHANGED cache
      PROVE  CacheIsDated' /\ cache' \in [keys : SUBSET Kid, at : Nat \cup {Never}]
    BY <1>1, <1>3 DEF IInv, AuthTypeOK, CacheIsDated, Since
<1>4. ASSUME req[r].at \in {"read", "wait", "fetch"}
      PROVE  req[r] \in Asking /\ req[r].token \in Token
    BY <1>1, <1>4 DEF Requests, NoRequest, Asking, Answered, Admitted
<1>5. ASSUME NEW at \in {"read", "wait", "fetch"}, req[r] \in Asking
      PROVE  LET x == [req[r] EXCEPT !.at = at] IN x \in Requests /\ AnswerIsDated(x) /\ AdmittedIsDated(x)
    BY <1>5 DEF Requests, Asking, AnswerIsDated, AdmittedIsDated
<1>6. CASE ReadCache(r)
    <2>1. CASE Cached(req[r].token.kid)
        <3>1. /\ req[r].token \in Token /\ req[r].token.kid \in cache.keys
              /\ cache.at \in 0..now /\ now - cache.at < Ttl /\ Since(req[r].token.kid, cache.at - Delay)
            BY <1>4, <1>6, <2>1 DEF ReadCache, Cached, IInv, CacheIsDated
        <3>2. cache.at - Delay \in Int /\ now - (cache.at - Delay) < Ttl + Delay
            BY <1>1, <3>1
        <3>3. CASE req[r].token.app
            <4>1. req' = [req EXCEPT ![r] = [at |-> "admitted", kid |-> req[r].token.kid, time |-> now]]
                BY <1>6, <2>1, <3>3 DEF ReadCache, Admit
            <4> QED
                BY <1>1, <1>3, <1>6, <3>1, <3>2, <4>1, Admission, RequestMoves DEF ReadCache
        <3>4. CASE ~req[r].token.app
            BY <1>1, <1>2, <1>3, <1>6, <2>1, <3>4, RequestMoves DEF ReadCache, Admit
        <3> QED
            BY <3>3, <3>4
    <2>2. CASE ~Cached(req[r].token.kid)
        BY <1>1, <1>3, <1>4, <1>5, <1>6, <2>2, RequestMoves DEF ReadCache
    <2> QED
        BY <2>1, <2>2
<1>7. CASE TakeLock(r)
    BY <1>1, <1>3, <1>4, <1>5, <1>7, RequestMoves DEF TakeLock
<1>8. CASE FetchFails(r)
    BY <1>1, <1>2, <1>3, <1>8, RequestMoves DEF FetchFails, Deny
<1>9. CASE FetchJwks(r)
    <2> DEFINE x == [at |-> "answered", token |-> req[r].token, keys |-> published, asOf |-> now]
    <2>1. x \in Requests
        BY <1>1, <1>4, <1>9 DEF FetchJwks, Requests, Answered, IInv, AuthTypeOK
    <2>2. AnswerIsDated(x) /\ AdmittedIsDated(x)
        BY <1>1 DEF AnswerIsDated, AdmittedIsDated, Since
    <2> QED
        BY <1>1, <1>3, <1>9, <2>1, <2>2, RequestMoves DEF FetchJwks
<1>10. CASE StoreKeys(r)
    <2>1. req[r] \in Answered
        BY <1>1, <1>10 DEF StoreKeys, Requests, NoRequest, Asking, Answered, Admitted
    <2>2. /\ req[r].token \in Token /\ req[r].keys \subseteq Kid
          /\ req[r].asOf \in 0..now /\ now <= req[r].asOf + Delay
          /\ \A k \in req[r].keys : Since(k, req[r].asOf)
        BY <1>1, <1>10, <2>1 DEF StoreKeys, Answered, IInv, AnswerIsDated
    <2>3. CASE req[r].token.kid \in req[r].keys
        <3>1. cache' = [keys |-> req[r].keys, at |-> now] /\ Admit(r, req[r].token)
            BY <1>10, <2>3 DEF StoreKeys
        <3>2. \A k \in req[r].keys : gone[k] \in Nat \cup {Never} /\ Since(k, now - Delay)
            BY <1>1, <2>2 DEF Since, IInv, AuthTypeOK, Never
        <3>3. CacheIsDated' /\ cache' \in [keys : SUBSET Kid, at : Nat \cup {Never}]
            BY <1>1, <2>2, <3>1, <3>2 DEF CacheIsDated, Since
        <3>4. now - req[r].asOf < Ttl + Delay
            BY <1>1, <2>2
        <3>5. CASE req[r].token.app
            <4>1. req' = [req EXCEPT ![r] = [at |-> "admitted", kid |-> req[r].token.kid, time |-> now]]
                BY <3>1, <3>5 DEF Admit
            <4> DEFINE x == [at |-> "admitted", kid |-> req[r].token.kid, time |-> now]
            <4>2. Since(req[r].token.kid, req[r].asOf) /\ req[r].asOf \in Int
                BY <2>2, <2>3
            <4>3. x \in Requests /\ AnswerIsDated(x) /\ AdmittedIsDated(x)
                BY <2>2, <3>4, <4>2, Admission
            <4> QED
                BY <1>1, <3>3, <4>1, <4>3, RequestMoves
        <3>6. CASE ~req[r].token.app
            BY <1>1, <1>2, <3>1, <3>3, <3>6, RequestMoves DEF Admit
        <3> QED
            BY <3>5, <3>6
    <2>4. CASE req[r].token.kid \notin req[r].keys
        BY <1>1, <1>2, <1>3, <1>10, <2>4, RequestMoves DEF StoreKeys, Deny
    <2> QED
        BY <2>3, <2>4
<1> QED
    BY <1>6, <1>7, <1>8, <1>9, <1>10 DEF Verify

\* A key that is withdrawn now was published until now.
LEMMA RotateIInv ==
    ASSUME IInv, NEW j \in Kid, Rotate(j)
    PROVE  IInv'
<1> USE AuthAssumption
<1>1. UNCHANGED <<now, cache, req>> /\ now \in Nat
    BY DEF Rotate, IInv, AuthTypeOK
<1>2. AuthTypeOK' /\ GoneIsPast'
    BY <1>1 DEF Rotate, IInv, AuthTypeOK, GoneIsPast, Never
<1>3. ASSUME NEW k \in Kid, NEW t \in Int, t <= now, Since(k, t)
      PROVE  Since(k, t)'
    BY <1>1, <1>3 DEF Rotate, IInv, AuthTypeOK, Since, Never
<1>4. CacheIsDated'
    <2> SUFFICES ASSUME NEW k \in cache.keys
                 PROVE  cache.at \in 0..now /\ Since(k, cache.at - Delay)'
        BY <1>1 DEF CacheIsDated, Since
    <2>1. cache.at \in 0..now /\ Since(k, cache.at - Delay) /\ k \in Kid
        BY DEF IInv, AuthTypeOK, CacheIsDated
    <2>2. cache.at - Delay \in Int /\ cache.at - Delay <= now
        BY <1>1, <2>1
    <2>3. Since(k, cache.at - Delay)'
        BY <1>1, <1>3, <2>1, <2>2 DEF Since
    <2> QED
        BY <2>1, <2>3
<1>5. ASSUME NEW r \in Request
      PROVE  AnswerIsDated(req[r])' /\ AdmittedIsDated(req[r])'
    <2>1. AnswerIsDated(req[r]) /\ AdmittedIsDated(req[r]) /\ req[r] \in Requests
        BY DEF IInv, AuthTypeOK
    <2>2. CASE req[r].at = "answered"
        <3>1. req[r].asOf \in Int /\ req[r].keys \subseteq Kid
            BY <2>1, <2>2 DEF Requests, NoRequest, Asking, Answered, Admitted
        <3> QED
            BY <1>1, <1>3, <2>1, <2>2, <3>1 DEF AnswerIsDated, AdmittedIsDated, Since
    <2>3. CASE req[r].at = "admitted"
        <3>1. req[r].time \in Nat /\ req[r].kid \in Kid \cup {Dev}
            BY <2>1, <2>3 DEF Requests, NoRequest, Asking, Answered, Admitted
        <3>2. /\ req[r].time - Ttl - Delay + 1 \in Int
              /\ req[r].time <= now => req[r].time - Ttl - Delay + 1 <= now
            BY <1>1, <3>1
        <3> QED
            BY <1>1, <1>3, <2>1, <2>3, <3>1, <3>2 DEF AnswerIsDated, AdmittedIsDated, Since
    <2>4. CASE req[r].at \notin {"answered", "admitted"}
        BY <1>1, <2>4 DEF AnswerIsDated, AdmittedIsDated
    <2> QED
        BY <2>2, <2>3, <2>4
<1> QED
    BY <1>2, <1>4, <1>5 DEF IInv

\* The clock waits for answers that are due.
LEMMA TickIInv ==
    ASSUME IInv, Tick
    PROVE  IInv'
<1>1. now' = now + 1 /\ now \in Nat /\ UNCHANGED <<published, gone, cache, req>>
    BY DEF Tick, IInv, AuthTypeOK
<1>2. AuthTypeOK' /\ GoneIsPast' /\ CacheIsDated'
    BY <1>1 DEF IInv, AuthTypeOK, GoneIsPast, CacheIsDated, Since, Never
<1>3. ASSUME NEW r \in Request
      PROVE  AnswerIsDated(req[r])' /\ AdmittedIsDated(req[r])'
    <2>1. AnswerIsDated(req[r]) /\ AdmittedIsDated(req[r]) /\ req[r] \in Requests
        BY DEF IInv, AuthTypeOK
    <2>2. CASE req[r].at = "answered"
        <3>1. req[r].asOf \in Nat /\ now - req[r].asOf < Delay
            BY <2>1, <2>2 DEF Requests, NoRequest, Asking, Answered, Admitted, Tick
        <3> QED
            BY <1>1, <2>1, <2>2, <3>1, AuthAssumption DEF AnswerIsDated, AdmittedIsDated, Since
    <2>3. CASE req[r].at = "admitted"
        <3>1. req[r].time \in Nat
            BY <2>1, <2>3 DEF Requests, NoRequest, Asking, Answered, Admitted
        <3> QED
            BY <1>1, <2>1, <2>3, <3>1 DEF AnswerIsDated, AdmittedIsDated, Since
    <2>4. CASE req[r].at \notin {"answered", "admitted"}
        BY <1>1, <2>4 DEF AnswerIsDated, AdmittedIsDated
    <2> QED
        BY <2>2, <2>3, <2>4
<1> QED
    BY <1>2, <1>3 DEF IInv

\* With the process its requests and the cache are gone.
LEMMA CrashIInv ==
    ASSUME IInv, Crash
    PROVE  IInv'
<1>1. UNCHANGED <<now, published, gone>> /\ cache' = NoCache /\ req' = [r \in Request |-> NoRequest]
    BY DEF Crash, UnchangedKeys
<1>2. AuthTypeOK'
    BY <1>1 DEF IInv, AuthTypeOK, Requests, NoCache
<1>3. GoneIsPast' /\ CacheIsDated'
    BY <1>1 DEF IInv, GoneIsPast, CacheIsDated, NoCache
<1>4. \A r \in Request : req'[r].at = "none"
    BY <1>1 DEF NoRequest
<1> QED
    BY <1>2, <1>3, <1>4 DEF IInv, AnswerIsDated, AdmittedIsDated

\* Every step of a host keeps the invariant.
LEMMA NextIInv == IInv /\ [HostNext]_hostVars => IInv'
<1> SUFFICES ASSUME IInv, [HostNext]_hostVars
             PROVE  IInv'
    OBVIOUS
<1>1. CASE UNCHANGED authVars
    BY <1>1 DEF authVars, IInv, AuthTypeOK, GoneIsPast, CacheIsDated, AnswerIsDated, AdmittedIsDated, Since
<1>2. ASSUME NEW r \in Request, Arrive(r, local_dev)
      PROVE  IInv'
    <2>1. \E dev \in BOOLEAN : Arrive(r, dev)
        BY <1>2 DEF Arrive
    <2> QED
        BY <2>1, ArriveIInv
<1>3. ASSUME NEW r \in Request, Answer(r), UNCHANGED <<now, published, gone, cache>>
      PROVE  IInv'
    <2>1. NoRequest \in Requests /\ AnswerIsDated(NoRequest) /\ AdmittedIsDated(NoRequest)
        BY DEF Requests, NoRequest, AnswerIsDated, AdmittedIsDated
    <2>2. CacheIsDated' /\ cache' \in [keys : SUBSET Kid, at : Nat \cup {Never}]
        BY <1>3 DEF IInv, AuthTypeOK, CacheIsDated, Since
    <2> QED
        BY <1>3, <2>1, <2>2, RequestMoves DEF Answer
<1>4. CASE Outside
    BY <1>4, TickIInv, RotateIInv DEF Outside
<1> QED
    BY <1>1, <1>2, <1>3, <1>4, VerifyIInv, CrashIInv DEF HostNext, hostVars

\* "JWKS is cached for 1 hour" (firebase.rs:88): no token is accepted whose key was
\* withdrawn longer ago than the cache lives and an answer takes, for any number of
\* requests and keys and any times, and whenever the host dies and starts again.
THEOREM KeysExpire == HostSpec => []WithdrawnKeysExpire
<1>1. IInv => WithdrawnKeysExpire
    <2> SUFFICES ASSUME IInv, NEW r \in Request, req[r].at = "admitted", req[r].kid # Dev,
                        req[r].kid \notin published
                 PROVE  gone[req[r].kid] # Never /\ req[r].time - gone[req[r].kid] < Ttl + Delay
        BY DEF WithdrawnKeysExpire
    <2>1. req[r].time \in Nat /\ req[r].kid \in Kid
        BY DEF IInv, AuthTypeOK, Requests, NoRequest, Asking, Answered, Admitted
    <2>2. gone[req[r].kid] # Never /\ req[r].time - Ttl - Delay + 1 <= gone[req[r].kid]
        BY DEF IInv, AdmittedIsDated, Since
    <2>3. gone[req[r].kid] \in Nat
        BY <2>1, <2>2 DEF IInv, AuthTypeOK
    <2> QED
        BY <2>1, <2>2, <2>3, AuthAssumption
<1> QED
    BY InitIInv, NextIInv, <1>1, PTL DEF HostSpec

----------------------------------------------------------------------------
(* Objects.  The invariant tells of each put what its file holds, and of each *)
(* walk what it has seen.                                                      *)

Part == (Key \X Caller) \cup {Hole, <<"missing">>}
PutCall == [at : {"open", "write", "rename"}, key : Key, file : Path \cup {Gone}, part : 0..2, crossed : BOOLEAN]
ListCall == [at : {"walk", "listed"}, of : {"files", "bucket"}, prefix : Prefix,
             dirs : SUBSET Dir, open : Dir \cup {Gone}, left : SUBSET (Path \cup Dir),
             found : SUBSET (Path \cup Dir), steady : SUBSET Key, whole : BOOLEAN]
Calls == {Idle} \cup PutCall \cup ListCall

ObjectTypeOK ==
    /\ files \in [Path -> Seq(Part)]
    /\ made \subseteq Dir
    /\ bucket \in [Key -> {None} \cup (Key \X Caller)]
    /\ call \in [Caller -> Calls]
    /\ tainted \subseteq Key

InFile(x) == x.at \in {"write", "rename"}

\* What a put has written of v when n parts of it are written.
Sofar(n, v) == IF n = 0 THEN <<>> ELSE IF n = 1 THEN <<v>> ELSE <<v, v>>

\* A put has written nothing, one part or both, as its step says.
PartsInOrder == \A c \in Caller :
    /\ call[c].at = "open" => call[c].part = 0
    /\ call[c].at = "write" => call[c].part # 2
    /\ call[c].at = "rename" => call[c].part = 2

\* As a bound of the model, puts that overlap share their temporary file.
OneTemp == \A c, d \in Caller : Putting(c) /\ Putting(d) => Temp[call[c].key] = Temp[call[d].key]

\* Puts that have it open at once are marked.
MeetMarked == \A c, d \in Caller : c # d /\ InFile(call[c]) /\ InFile(call[d]) => call[c].crossed

\* A put that no other has met has its temporary file for itself, or it was deleted.
WritesAlone(c) == InFile(call[c]) /\ ~call[c].crossed =>
    \/ /\ call[c].file = Temp[call[c].key]
       /\ files[Temp[call[c].key]] = Sofar(call[c].part, Value(call[c].key, c))
    \/ call[c].file = Gone /\ files[Temp[call[c].key]] = NoFile

\* Nobody writes where a reader looks.
CleanKey(k) ==
    /\ \A c \in Caller : InFile(call[c]) => call[c].file # k
    /\ files[k] # NoFile => \E c \in Caller : files[k] = Whole(Value(k, c))

\* The directories a path is in are there.
MadeFor(p) == \A d \in Dir : Home[p] \in Within[d] => d \in made

DirsMade ==
    /\ \A p \in Present : MadeFor(p)
    /\ \A c \in Caller : Putting(c) =>
        MadeFor(call[c].key) /\ (call[c].file # Gone => MadeFor(call[c].file))

\* What the walk has still to come to: a key among the entries it has left, or a directory
\* to read or among those entries in which the key is.
ToCome(x, k) == k \in x.left \/ \E d \in x.dirs \cup (x.left \cap Dir) : Home[k] \in Within[d]

\* A walk has found what stayed, or has it ahead.
WalkSees(x) ==
    /\ x.at = "walk" =>
        /\ x.of = "files" /\ x.steady \subseteq Present
        /\ x.open = Gone => x.left = {}
        /\ \A k \in x.steady \cap InDirectory(x.prefix) : k \in x.found \/ ToCome(x, k)
    /\ x.at = "listed" /\ x.whole => x.steady \cap Answerable(x) \subseteq x.found

\* The bucket holds values, and finitely many.
BucketIsWhole ==
    /\ IsFiniteSet(Objects)
    /\ \A k \in Key : bucket[k] # None => \E c \in Caller : bucket[k] = Value(k, c)

ObjectInv ==
    /\ ObjectTypeOK /\ PartsInOrder /\ OneTemp /\ MeetMarked /\ BucketIsWhole /\ DirsMade
    /\ \A c \in Caller : WritesAlone(c) /\ WalkSees(call[c])
    /\ \A k \in Key \ (Temps \cup tainted) : CleanKey(k)

----------------------------------------------------------------------------

\* Nothing is stored and nobody calls.
LEMMA ObjectStarts == ObjectInit => ObjectInv
<1> SUFFICES ASSUME ObjectInit PROVE ObjectInv
    OBVIOUS
<1>1. \A c \in Caller : call[c].at = "idle"
    BY DEF ObjectInit, Idle
<1>2. ObjectTypeOK
    <2>1. NoFile \in Seq(Part)
        BY DEF NoFile, Part
    <2> QED
        BY <2>1, ObjectAssumption DEF ObjectInit, ObjectTypeOK, Calls
<1>3. Objects = {}
    BY DEF ObjectInit, Objects
<1>4. BucketIsWhole
    BY <1>3, FS_EmptySet DEF BucketIsWhole, ObjectInit
<1>5. \A k \in Key : files[k] = NoFile
    BY DEF ObjectInit, Path
<1>6. DirsMade
    BY <1>1 DEF ObjectInit, DirsMade, Present, Putting
<1> QED
    BY <1>1, <1>2, <1>4, <1>5, <1>6 DEF ObjectInv, PartsInOrder, OneTemp, MeetMarked, Putting, InFile,
        WritesAlone, WalkSees, CleanKey

\* What a call is made of.
LEMMA CallIs ==
    ASSUME ObjectTypeOK, NEW c \in Caller
    PROVE  /\ call[c].at \in {"idle", "open", "write", "rename", "walk", "listed"}
           /\ Putting(c) => call[c] \in PutCall
           /\ Listing(c) => call[c] \in ListCall
           /\ call[c].at = "idle" => call[c] = Idle
BY DEF ObjectTypeOK, Calls, PutCall, ListCall, Idle, Putting, Listing

\* What a put knows of itself.
LEMMA PutCallIs ==
    ASSUME ObjectTypeOK, NEW c \in Caller, Putting(c)
    PROVE  /\ call[c].key \in Key /\ Temp[call[c].key] \in Temps /\ Temp[call[c].key] \in Path
           /\ call[c].file \in Path \cup {Gone} /\ call[c].part \in 0..2
           /\ call[c].crossed \in BOOLEAN
BY CallIs, ObjectAssumption DEF PutCall, Temps

\* A value is no hole and no missing file, and neither is what is written.
LEMMA WrittenParts ==
    ASSUME NEW content \in Seq(Part), NEW part \in 1..2, NEW k \in Key, NEW c \in Caller
    PROVE  /\ Written(content, part, Value(k, c)) \in Seq(Part)
           /\ Written(content, part, Value(k, c)) # NoFile
<1>1. Len(content) \in Nat /\ part \in Nat /\ part >= 1
    OBVIOUS
<1>2. PICK n \in Nat : n = IF Len(content) > part THEN Len(content) ELSE part
    BY <1>1
<1>3. part \in 1..n
    BY <1>1, <1>2
<1>4. PICK v : v = Value(k, c)
    OBVIOUS
<1>5. v \in Part /\ Hole \in Part
    BY <1>4 DEF Part, Value
<1>6. v # <<"missing">>
    <2>1. Len(v) = 2 /\ Len(<<"missing">>) = 1
        BY <1>4 DEF Value
    <2> QED
        BY <2>1
<1>7. PICK w : w = Written(content, part, v)
    OBVIOUS
<1>8. w = [m \in 1..n |-> IF m = part THEN v ELSE IF m <= Len(content) THEN content[m] ELSE Hole]
    BY <1>2, <1>7 DEF Written
<1>9. ASSUME NEW m \in 1..n
      PROVE  (IF m = part THEN v ELSE IF m <= Len(content) THEN content[m] ELSE Hole) \in Part
    <2>1. m <= Len(content) => content[m] \in Part
        BY <1>1, <1>2
    <2> QED
        BY <1>5, <2>1
<1>10. w \in [1..n -> Part]
    BY <1>8, <1>9
<1>11. w \in Seq(Part) /\ Len(w) = n
    BY <1>2, <1>10
<1>12. w[part] = v
    BY <1>3, <1>8
<1>13. w # NoFile
    <2> SUFFICES ASSUME w = NoFile PROVE FALSE
        OBVIOUS
    <2>1. Len(w) = 1 /\ w[1] = <<"missing">>
        BY DEF NoFile
    <2>2. part = 1
        BY <1>3, <1>11, <2>1
    <2> QED
        BY <1>6, <1>12, <2>1, <2>2
<1> QED
    BY <1>4, <1>7, <1>11, <1>13

\* Parts written in order give the value as far as it goes.
LEMMA WrittenInOrder ==
    ASSUME NEW v, NEW part \in {0, 1}
    PROVE  Written(Sofar(part, v), part + 1, v) = Sofar(part + 1, v)
<1>1. CASE part = 0
    <2>1. Sofar(part, v) = <<>> /\ Sofar(part + 1, v) = <<v>>
        BY <1>1 DEF Sofar
    <2>2. Written(<<>>, 1, v) = [n \in 1..1 |-> IF n = 1 THEN v ELSE IF n <= 0 THEN <<>>[n] ELSE Hole]
        BY DEF Written
    <2>3. Written(<<>>, 1, v) = [n \in 1..1 |-> v]
        BY <2>2
    <2>4. [n \in 1..1 |-> v] = <<v>>
        OBVIOUS
    <2> QED
        BY <1>1, <2>1, <2>3, <2>4
<1>2. CASE part = 1
    <2>1. Sofar(part, v) = <<v>> /\ Sofar(part + 1, v) = <<v, v>>
        BY <1>2 DEF Sofar
    <2>2. Written(<<v>>, 2, v) = [n \in 1..2 |-> IF n = 2 THEN v ELSE IF n <= 1 THEN <<v>>[n] ELSE Hole]
        BY DEF Written
    <2>3. Written(<<v>>, 2, v) = [n \in 1..2 |-> v]
        BY <2>2
    <2>4. [n \in 1..2 |-> v] = <<v, v>>
        OBVIOUS
    <2> QED
        BY <1>2, <2>1, <2>3, <2>4
<1> QED
    BY <1>1, <1>2

\* A call that lists, ends or fails writes nothing.
LEMMA ListingMoves ==
    ASSUME ObjectInv, UNCHANGED <<files, made, bucket, tainted>>, NEW c \in Caller,
           NEW x \in {Idle} \cup ListCall, WalkSees(x), call' = [call EXCEPT ![c] = x]
    PROVE  ObjectInv'
<1>1. x.at \in {"idle", "walk", "listed"}
    BY DEF Idle, ListCall
<1>2. ObjectTypeOK'
    BY DEF ObjectInv, ObjectTypeOK, Calls
<1>3. \A d \in Caller : call'[d] = IF d = c THEN x ELSE call[d]
    BY DEF ObjectInv, ObjectTypeOK
<1>4. PartsInOrder' /\ OneTemp' /\ MeetMarked'
    BY <1>1, <1>3 DEF ObjectInv, PartsInOrder, OneTemp, MeetMarked, Putting, InFile
<1>5. BucketIsWhole' /\ DirsMade'
    <2>1. \A d \in Caller : Putting(d)' => Putting(d) /\ call'[d] = call[d]
        BY <1>1, <1>3 DEF Putting
    <2> QED
        BY <2>1 DEF ObjectInv, BucketIsWhole, Objects, DirsMade, MadeFor, Present
<1>6. ASSUME NEW d \in Caller
      PROVE  WritesAlone(d)' /\ WalkSees(call[d])'
    BY <1>1, <1>3 DEF ObjectInv, WritesAlone, InFile, WalkSees, Present, ToCome
<1>7. ASSUME NEW k \in Key \ (Temps \cup tainted)'
      PROVE  CleanKey(k)'
    BY <1>1, <1>3 DEF ObjectInv, CleanKey, InFile
<1> QED
    BY <1>2, <1>4, <1>5, <1>6, <1>7 DEF ObjectInv

\* A put that begins has no file yet.
LEMMA PutBegins ==
    ASSUME ObjectInv, NEW c \in Caller, NEW k \in Key, Put(c, k)
    PROVE  ObjectInv'
<1> DEFINE x == [at |-> "open", key |-> k, file |-> Gone, part |-> 0, crossed |-> FALSE]
<1>1. UNCHANGED <<files, bucket, tainted>> /\ x \in PutCall
      /\ made \subseteq made' /\ made' \subseteq Dir
    BY DEF Put, PutCall, ObjectInv, ObjectTypeOK
<1>2. ObjectTypeOK'
    BY <1>1 DEF Put, ObjectInv, ObjectTypeOK, Calls
<1>3. \A d \in Caller : call'[d] = IF d = c THEN x ELSE call[d]
    BY DEF Put, ObjectInv, ObjectTypeOK
<1> HIDE DEF x
<1>4. x.at = "open" /\ x.key = k /\ x.part = 0 /\ x.file = Gone
    BY DEF x
<1>5. PartsInOrder' /\ MeetMarked'
    BY <1>3, <1>4 DEF ObjectInv, PartsInOrder, MeetMarked, InFile
<1>6. OneTemp'
    BY <1>3, <1>4 DEF Put, ObjectInv, OneTemp, Putting
<1>7. BucketIsWhole' /\ DirsMade'
    <2>1. MadeFor(k)'
        BY DEF Put, MadeFor
    <2>2. \A d \in Caller : Putting(d)' => d = c \/ (Putting(d) /\ call'[d] = call[d])
        BY <1>3 DEF Putting
    <2>3. DirsMade'
        BY <1>1, <1>3, <1>4, <2>1, <2>2 DEF ObjectInv, DirsMade, MadeFor, Present
    <2> QED
        BY <1>1, <2>3 DEF ObjectInv, BucketIsWhole, Objects
<1>8. ASSUME NEW d \in Caller
      PROVE  WritesAlone(d)' /\ WalkSees(call[d])'
    BY <1>1, <1>3, <1>4 DEF ObjectInv, WritesAlone, InFile, WalkSees, Present, ToCome
<1>9. ASSUME NEW j \in Key \ (Temps \cup tainted)'
      PROVE  CleanKey(j)'
    BY <1>1, <1>3, <1>4 DEF ObjectInv, CleanKey, InFile
<1> QED
    BY <1>2, <1>5, <1>6, <1>7, <1>8, <1>9 DEF ObjectInv

\* A process that dies leaves temporary files, where no reader looks.
LEMMA DieKeeps ==
    ASSUME ObjectInv, CallersDie
    PROVE  ObjectInv'
<1>1. UNCHANGED <<files, made, bucket, tainted>> /\ \A c \in Caller : call'[c].at = "idle"
    BY DEF CallersDie, Idle
<1>2. ObjectTypeOK'
    BY DEF CallersDie, ObjectInv, ObjectTypeOK, Calls
<1>3. BucketIsWhole' /\ DirsMade'
    BY <1>1 DEF ObjectInv, BucketIsWhole, Objects, DirsMade, MadeFor, Putting, Present
<1> QED
    BY <1>1, <1>2, <1>3 DEF ObjectInv, PartsInOrder, OneTemp, MeetMarked, Putting, InFile,
        WritesAlone, WalkSees, CleanKey

\* Puts that overlap mark each other.
LEMMA PutOpens ==
    ASSUME ObjectInv, NEW c \in Caller, PutOpen(c)
    PROVE  ObjectInv'
<1>1. PICK t : t = Temp[call[c].key]
    OBVIOUS
<1>0. call[c].at = "open"
    BY Zenon DEF PutOpen
<1>2. Putting(c) /\ call[c].part = 0 /\ ObjectTypeOK
    BY <1>0 DEF Putting, ObjectInv, PartsInOrder
<1>3. t \in Temps /\ t \in Path /\ call[c] \in PutCall
    BY <1>1, <1>2, PutCallIs, CallIs
<1>4. files' = [files EXCEPT ![t] = <<>>] /\ UNCHANGED <<made, bucket, tainted>>
    BY <1>1, Zenon DEF PutOpen
<1>5. PICK x : x = [call[c] EXCEPT !.at = "write", !.file = t, !.crossed = CrossedWith(c) # {}]
    BY Zenon
<1>6. call' = [d \in Caller |-> IF d = c THEN x
                                ELSE IF d \in CrossedWith(c) THEN [call[d] EXCEPT !.crossed = TRUE] ELSE call[d]]
    BY <1>1, <1>5, Zenon DEF PutOpen
<1>7. /\ x \in PutCall /\ x.at = "write" /\ x.file = t /\ x.part = 0 /\ x.key = call[c].key
      /\ x.crossed <=> CrossedWith(c) # {}
    BY <1>2, <1>3, <1>5 DEF PutCall
<1>8. ASSUME NEW d \in Caller \ {c}
      PROVE  /\ call'[d] \in Calls
             /\ ~InFile(call[d]) => call'[d] = call[d]
             /\ InFile(call[d]) =>
                  /\ CrossedWith(c) # {} /\ call'[d].crossed
                  /\ call'[d].at = call[d].at /\ call'[d].key = call[d].key
                  /\ call'[d].file = call[d].file /\ call'[d].part = call[d].part
    <2>1. d \in CrossedWith(c) <=> InFile(call[d])
        BY <1>2 DEF CrossedWith, InFile, ObjectInv, OneTemp, Putting
    <2>2. CASE InFile(call[d])
        <3>1. call'[d] = [call[d] EXCEPT !.crossed = TRUE] /\ CrossedWith(c) # {}
            BY <1>6, <2>1, <2>2
        <3>2. call[d] \in PutCall
            BY <1>2, <2>2, CallIs DEF InFile, Putting
        <3> QED
            BY <2>2, <3>1, <3>2 DEF PutCall, Calls
    <2>3. CASE ~InFile(call[d])
        BY <1>2, <1>6, <2>1, <2>3 DEF ObjectTypeOK
    <2> QED
        BY <2>2, <2>3
<1>9. call'[c] = x
    BY <1>6
<1>10. ObjectTypeOK'
    <2>1. call' \in [Caller -> Calls]
        BY <1>6, <1>7, <1>8, <1>9 DEF Calls
    <2>2. <<>> \in Seq(Part)
        OBVIOUS
    <2> QED
        BY <1>2, <1>3, <1>4, <2>1, <2>2 DEF ObjectTypeOK
<1>11. PartsInOrder' /\ OneTemp' /\ MeetMarked'
    <2>1. PartsInOrder'
        BY <1>7, <1>8, <1>9 DEF ObjectInv, PartsInOrder, InFile
    <2>2. \A d \in Caller : (Putting(d)' => Putting(d)) /\ (Putting(d) => call'[d].key = call[d].key)
        BY <1>2, <1>7, <1>8, <1>9 DEF Putting, InFile
    <2>3. OneTemp'
        BY <2>2 DEF ObjectInv, OneTemp
    <2>4. MeetMarked'
        BY <1>7, <1>8, <1>9 DEF ObjectInv, MeetMarked, InFile
    <2> QED
        BY <2>1, <2>3, <2>4
<1>12. BucketIsWhole'
    BY <1>4 DEF ObjectInv, BucketIsWhole, Objects
<1>16. DirsMade'
    <2>1. MadeFor(call[c].key) /\ Home[t] = Home[call[c].key]
        BY <1>1, <1>2, PutCallIs, ObjectAssumption DEF ObjectInv, DirsMade
    <2>2. MadeFor(t)
        BY <2>1 DEF MadeFor
    <2>3. Present' \subseteq Present \cup {t}
        BY <1>2, <1>3, <1>4 DEF Present, ObjectTypeOK
    <2>4. \A d \in Caller \ {c} : Putting(d)' =>
            Putting(d) /\ call'[d].key = call[d].key /\ call'[d].file = call[d].file
        BY <1>8 DEF Putting, InFile
    <2>5. \A p : MadeFor(p) => MadeFor(p)'
        BY <1>4 DEF MadeFor
    <2>6. \A p \in Present' : MadeFor(p)'
        BY <2>2, <2>3, <2>5 DEF ObjectInv, DirsMade
    <2>7. ASSUME NEW d \in Caller, Putting(d)'
          PROVE  MadeFor(call[d].key)' /\ (call'[d].file # Gone => MadeFor(call[d].file)')
        <3>1. CASE d = c
            BY <1>4, <1>7, <1>9, <2>1, <2>2, <3>1 DEF MadeFor
        <3>2. CASE d # c
            BY <1>4, <2>4, <2>7, <3>2 DEF MadeFor, ObjectInv, DirsMade
        <3> QED
            BY <3>1, <3>2
    <2> QED
        BY <2>6, <2>7 DEF DirsMade
<1>13. Present \subseteq Present' /\ \A p \in Path \ {t} : files'[p] = files[p]
    <2>1. <<>> # NoFile
        BY DEF NoFile
    <2> QED
        BY <1>2, <1>3, <1>4, <2>1 DEF Present, ObjectTypeOK
<1>14. ASSUME NEW d \in Caller
       PROVE  WritesAlone(d)' /\ WalkSees(call[d])'
    <2>1. CASE d = c
        <3>1. files'[t] = Sofar(0, Value(x.key, c))
            BY <1>2, <1>3, <1>4 DEF ObjectTypeOK, Sofar
        <3> QED
            BY <1>1, <1>7, <1>9, <2>1, <3>1 DEF WritesAlone, WalkSees
    <2>2. CASE d # c
        BY <1>8, <1>13, <2>2 DEF ObjectInv, WritesAlone, WalkSees, InFile, ToCome
    <2> QED
        BY <2>1, <2>2
<1>15. ASSUME NEW k \in Key \ (Temps \cup tainted)'
       PROVE  CleanKey(k)'
    <2>1. CleanKey(k) /\ k # t /\ k \in Path
        BY <1>3, <1>4 DEF ObjectInv, Path
    <2> QED
        BY <1>7, <1>8, <1>9, <1>13, <2>1 DEF CleanKey, InFile
<1> QED
    BY <1>10, <1>11, <1>12, <1>14, <1>15, <1>16 DEF ObjectInv

\* Who writes where another has its file is marked, and so is the other.
LEMMA PutWrites ==
    ASSUME ObjectInv, NEW c \in Caller, PutWrite(c)
    PROVE  ObjectInv'
<1>1. PICK f, k, part, v : f = call[c].file /\ k = call[c].key /\ part = call[c].part /\ v = Value(k, c)
    OBVIOUS
<1>2. Putting(c) /\ InFile(call[c]) /\ ObjectTypeOK /\ part \in {0, 1}
    BY <1>1, PutCallIs DEF PutWrite, Putting, InFile, ObjectInv, PartsInOrder
<1>3. k \in Key /\ f \in Path \cup {Gone} /\ call[c] \in PutCall
    BY <1>1, <1>2, PutCallIs, CallIs
<1>4. files' = (IF f = Gone THEN files ELSE [files EXCEPT ![f] = Written(@, part + 1, v)])
      /\ UNCHANGED <<made, bucket, tainted>>
    BY <1>1 DEF PutWrite
<1>5. PICK x : x = [call[c] EXCEPT !.part = part + 1, !.at = IF part + 1 = 2 THEN "rename" ELSE "write"]
    OBVIOUS
<1>6. call' = [call EXCEPT ![c] = x]
    BY <1>1, <1>2, <1>5 DEF PutWrite, ObjectTypeOK
<1>7. /\ x \in PutCall /\ InFile(x) /\ x.file = f /\ x.part = part + 1 /\ x.key = k
      /\ x.crossed = call[c].crossed /\ (x.at = "rename" <=> part = 1)
    <2>1. PICK at \in {"write", "rename"} : at = IF part + 1 = 2 THEN "rename" ELSE "write"
        OBVIOUS
    <2>2. part + 1 \in 0..2 /\ (at = "rename" <=> part = 1)
        BY <1>2, <2>1
    <2>3. x = [call[c] EXCEPT !.part = part + 1, !.at = at]
        BY <1>5, <2>1
    <2> QED
        BY <1>1, <1>3, <2>2, <2>3 DEF PutCall, InFile
<1>8. \A d \in Caller : call'[d] = IF d = c THEN x ELSE call[d]
    BY <1>2, <1>6 DEF ObjectTypeOK
<1>9. /\ files' \in [Path -> Seq(Part)] /\ \A p \in Path \ {f} : files'[p] = files[p]
      /\ f # Gone => files'[f] = Written(files[f], part + 1, v) /\ files'[f] # NoFile
    <2>1. CASE f = Gone
        BY <1>2, <1>4, <2>1 DEF ObjectTypeOK
    <2>2. CASE f # Gone
        <3>1. files[f] \in Seq(Part) /\ part + 1 \in 1..2
            BY <1>2, <1>3, <2>2 DEF ObjectTypeOK
        <3>2. Written(files[f], part + 1, v) \in Seq(Part) /\ Written(files[f], part + 1, v) # NoFile
            BY <1>1, <1>3, <3>1, WrittenParts
        <3>3. files' = [files EXCEPT ![f] = Written(files[f], part + 1, v)]
            BY <1>4, <2>2
        <3> QED
            BY <1>2, <1>3, <2>2, <3>2, <3>3 DEF ObjectTypeOK
    <2> QED
        BY <2>1, <2>2
<1>10. ObjectTypeOK'
    BY <1>2, <1>4, <1>6, <1>7, <1>9 DEF ObjectTypeOK, Calls
<1>11. PartsInOrder' /\ OneTemp' /\ MeetMarked'
    <2>1. PartsInOrder'
        BY <1>2, <1>7, <1>8 DEF ObjectInv, PartsInOrder, InFile
    <2>2. OneTemp'
        BY <1>1, <1>2, <1>7, <1>8 DEF ObjectInv, OneTemp, Putting
    <2>3. MeetMarked'
        BY <1>2, <1>7, <1>8 DEF ObjectInv, MeetMarked
    <2> QED
        BY <2>1, <2>2, <2>3
<1>12. BucketIsWhole'
    BY <1>4 DEF ObjectInv, BucketIsWhole, Objects
<1>13. Present \subseteq Present'
    BY <1>3, <1>9, ObjectAssumption DEF Present
<1>16. DirsMade'
    <2>1. Present' \subseteq Present \cup {f} /\ (f = Gone => Present' = Present)
        BY <1>4, <1>9 DEF Present
    <2>2. f # Gone => MadeFor(f)
        BY <1>1, <1>2 DEF ObjectInv, DirsMade
    <2>3. \A p \in Present' : MadeFor(p)
        BY <2>1, <2>2 DEF ObjectInv, DirsMade
    <2>4. \A d \in Caller : Putting(d)' =>
            Putting(d) /\ call'[d].key = call[d].key /\ call'[d].file = call[d].file
        BY <1>1, <1>2, <1>7, <1>8 DEF Putting
    <2> QED
        BY <1>4, <2>3, <2>4 DEF ObjectInv, DirsMade, MadeFor
<1>14. ASSUME NEW d \in Caller
       PROVE  WritesAlone(d)' /\ WalkSees(call[d])'
    <2>1. CASE d = c
        <3>1. WalkSees(x)'
            BY <1>7 DEF WalkSees, InFile
        <3>2. ASSUME ~x.crossed
              PROVE  \/ f = Temp[k] /\ files'[Temp[k]] = Sofar(part + 1, v)
                     \/ f = Gone /\ files'[Temp[k]] = NoFile
            <4>1. \/ f = Temp[k] /\ files[Temp[k]] = Sofar(part, v)
                  \/ f = Gone /\ files[Temp[k]] = NoFile
                BY <1>1, <1>2, <1>7, <3>2 DEF ObjectInv, WritesAlone
            <4>2. Temp[k] \in Path
                BY <1>3, ObjectAssumption
            <4>3. Written(Sofar(part, v), part + 1, v) = Sofar(part + 1, v)
                BY <1>2, WrittenInOrder
            <4> QED
                BY <1>9, <4>1, <4>2, <4>3, ObjectAssumption
        <3> QED
            BY <1>1, <1>7, <1>8, <2>1, <3>1, <3>2 DEF WritesAlone
    <2>2. CASE d # c
        <3>1. InFile(call[d]) => call[d].crossed
            BY <1>2, <2>2 DEF ObjectInv, MeetMarked
        <3> QED
            BY <1>8, <1>13, <2>2, <3>1 DEF ObjectInv, WritesAlone, WalkSees, ToCome
    <2> QED
        BY <2>1, <2>2
<1>15. ASSUME NEW j \in Key \ (Temps \cup tainted)'
       PROVE  CleanKey(j)'
    <2>1. CleanKey(j) /\ j # f /\ j \in Path
        BY <1>1, <1>2, <1>4 DEF ObjectInv, CleanKey, Path
    <2> QED
        BY <1>7, <1>8, <1>9, <2>1 DEF CleanKey
<1> QED
    BY <1>10, <1>11, <1>12, <1>14, <1>15, <1>16 DEF ObjectInv

\* Where a file has another name, who writes to it goes on under that name.
LEMMA RenamedCall ==
    ASSUME NEW calls \in [Caller -> Calls], NEW from, NEW to \in Path \cup {Gone}, NEW d \in Caller
    PROVE  LET y == Renamed(calls, from, to)[d]
           IN  /\ y \in Calls /\ y.at = calls[d].at
               /\ ~InFile(calls[d]) => y = calls[d]
               /\ InFile(calls[d]) =>
                    /\ y.key = calls[d].key /\ y.part = calls[d].part /\ y.crossed = calls[d].crossed
                    /\ y.file = IF calls[d].file = from THEN to ELSE calls[d].file
<1>1. PICK y : y = Renamed(calls, from, to)[d]
    OBVIOUS
<1>2. CASE InFile(calls[d]) /\ calls[d].file = from
    <2>1. calls[d] \in PutCall
        BY <1>2 DEF Calls, PutCall, ListCall, Idle, InFile
    <2>2. y = [calls[d] EXCEPT !.file = to]
        BY <1>1, <1>2 DEF Renamed, InFile
    <2>3. y \in PutCall
        BY <2>1, <2>2 DEF PutCall
    <2>4. y.at = calls[d].at /\ y.key = calls[d].key /\ y.part = calls[d].part /\ y.file = to
        BY <2>1, <2>2 DEF PutCall
    <2>5. y.crossed = calls[d].crossed
        BY <2>1, <2>2 DEF PutCall
    <2> QED
        BY <1>1, <1>2, <2>3, <2>4, <2>5 DEF Calls
<1>3. CASE ~(InFile(calls[d]) /\ calls[d].file = from)
    <2>1. y = calls[d]
        BY <1>1, <1>3 DEF Renamed, InFile
    <2> QED
        BY <1>1, <1>3, <2>1
<1> QED
    BY <1>2, <1>3

\* A walk goes on, though some names it was to find are no longer steady.
SameWalk(y, x, names) ==
    /\ y.of = x.of /\ y.prefix = x.prefix /\ y.dirs = x.dirs
    /\ y.open = x.open /\ y.left = x.left /\ y.found = x.found
    /\ y.steady = x.steady \ names

\* Only a walk learns that a file is gone.
LEMMA UnsteadyCall ==
    ASSUME ObjectTypeOK, NEW names, NEW d \in Caller
    PROVE  LET y == Unsteady(names)[d]
           IN  /\ y \in Calls /\ y.at = call[d].at
               /\ call[d].at # "walk" => y = call[d]
               /\ call[d].at = "walk" => SameWalk(y, call[d], names)
<1>1. PICK y : y = Unsteady(names)[d]
    OBVIOUS
<1>2. CASE call[d].at = "walk"
    <2>1. call[d] \in ListCall
        BY <1>2, CallIs DEF Listing
    <2>2. y = [call[d] EXCEPT !.steady = @ \ names]
        BY <1>1, <1>2 DEF Unsteady, Listing
    <2>3. y \in ListCall /\ y.at = "walk" /\ SameWalk(y, call[d], names)
        BY <1>2, <2>1, <2>2 DEF ListCall, SameWalk
    <2> QED
        BY <1>1, <1>2, <2>3 DEF Calls
<1>3. CASE call[d].at # "walk"
    <2>1. y = call[d]
        BY <1>1, <1>3 DEF Unsteady, Listing
    <2> QED
        BY <1>1, <1>3, <2>1 DEF ObjectTypeOK
<1> QED
    BY <1>2, <1>3

\* A file that is gone is missed by no walk and written by nobody.
LEMMA FileDeleted ==
    ASSUME ObjectInv, NEW k \in Key, DeleteFile(k)
    PROVE  ObjectInv'
<1>1. /\ files' = [files EXCEPT ![k] = NoFile] /\ UNCHANGED <<made, bucket, tainted>>
      /\ call' = Renamed(Unsteady({k}), k, Gone) /\ ObjectTypeOK /\ k \in Path
    BY DEF DeleteFile, ObjectInv, Path
<1>2. Unsteady({k}) \in [Caller -> Calls]
    BY <1>1, UnsteadyCall DEF Unsteady
<1>3. ASSUME NEW d \in Caller
      PROVE  /\ call'[d] \in Calls /\ call'[d].at = call[d].at
             /\ InFile(call[d]) =>
                    /\ call'[d].key = call[d].key /\ call'[d].part = call[d].part
                    /\ call'[d].crossed = call[d].crossed
                    /\ call'[d].file = IF call[d].file = k THEN Gone ELSE call[d].file
             /\ call[d].at = "walk" => SameWalk(call'[d], call[d], {k})
             /\ call[d].at \notin {"write", "rename", "walk"} => call'[d] = call[d]
    BY <1>1, <1>2, RenamedCall, UnsteadyCall DEF InFile
<1>4. ObjectTypeOK'
    <2>1. call' \in [Caller -> Calls]
        BY <1>1, <1>3 DEF Renamed
    <2>2. NoFile \in Seq(Part)
        BY DEF NoFile, Part
    <2> QED
        BY <1>1, <2>1, <2>2 DEF ObjectTypeOK
<1>5. PartsInOrder' /\ OneTemp' /\ MeetMarked'
    <2>1. PartsInOrder'
        BY <1>3 DEF ObjectInv, PartsInOrder, InFile
    <2>2. OneTemp'
        BY <1>3 DEF ObjectInv, OneTemp, Putting, InFile
    <2>3. MeetMarked'
        BY <1>3 DEF ObjectInv, MeetMarked, InFile
    <2> QED
        BY <2>1, <2>2, <2>3
<1>6. BucketIsWhole'
    BY <1>1 DEF ObjectInv, BucketIsWhole, Objects
<1>7. Present' = Present \ {k} /\ \A p \in Path : files'[p] = IF p = k THEN NoFile ELSE files[p]
    BY <1>1 DEF Present, ObjectTypeOK
<1>10. DirsMade'
    <2>1. \A p \in Present' : MadeFor(p)
        BY <1>7 DEF ObjectInv, DirsMade
    <2>2. \A d \in Caller : Putting(d)' =>
            Putting(d) /\ call'[d].key = call[d].key /\ call'[d].file \in {call[d].file, Gone}
        BY <1>3 DEF Putting, InFile
    <2> QED
        BY <1>1, <2>1, <2>2 DEF ObjectInv, DirsMade, MadeFor
<1>8. ASSUME NEW d \in Caller
      PROVE  WritesAlone(d)' /\ WalkSees(call[d])'
    <2>1. WalkSees(call[d])'
        <3>1. WalkSees(call[d])
            BY DEF ObjectInv
        <3>2. CASE call[d].at = "walk"
            BY <1>3, <1>7, <3>1, <3>2 DEF WalkSees, SameWalk, ToCome
        <3>3. CASE call[d].at = "listed"
            BY <1>3, <3>1, <3>3 DEF WalkSees
        <3> QED
            BY <1>3, <3>2, <3>3 DEF WalkSees
    <2>2. ASSUME InFile(call[d]), ~call[d].crossed
          PROVE  WritesAlone(d)'
        <3>1. Temp[call[d].key] \in Path
            BY <1>1, <2>2, PutCallIs DEF Putting, InFile
        <3> QED
            BY <1>3, <1>7, <2>2, <3>1 DEF ObjectInv, WritesAlone
    <2> QED
        BY <1>3, <2>1, <2>2 DEF WritesAlone, InFile
<1>9. ASSUME NEW j \in Key \ (Temps \cup tainted)'
      PROVE  CleanKey(j)'
    <2>1. CleanKey(j) /\ j \in Path
        BY <1>1 DEF ObjectInv, Path
    <2>2. \A d \in Caller : InFile(call[d])' => call'[d].file # j
        <3>1. j # Gone
            BY <2>1, ObjectAssumption
        <3> QED
            BY <1>3, <2>1, <3>1 DEF CleanKey, InFile
    <2>3. files'[j] # NoFile => files'[j] = files[j]
        BY <1>7, <2>1
    <2> QED
        BY <2>1, <2>2, <2>3 DEF CleanKey
<1> QED
    BY <1>4, <1>5, <1>6, <1>8, <1>9, <1>10 DEF ObjectInv

\* The bucket takes a value or loses one.
LEMMA BucketMoves ==
    ASSUME ObjectInv, NEW c \in Caller, NEW k \in Key, Upload(c, k) \/ DeleteObject(k)
    PROVE  ObjectInv'
<1>1. UNCHANGED <<files, made, call, tainted>>
    BY DEF Upload, DeleteObject
<1>2. PICK b \in {bucket[k], None, Value(k, c)} : bucket' = [bucket EXCEPT ![k] = b]
    BY DEF Upload, DeleteObject, ObjectInv, ObjectTypeOK
<1>3. Value(k, c) \in Key \X Caller
    BY DEF Value
<1>4. /\ bucket' \in [Key -> {None} \cup (Key \X Caller)]
      /\ \A j \in Key : bucket'[j] = IF j = k THEN b ELSE bucket[j]
    BY <1>2, <1>3 DEF ObjectInv, ObjectTypeOK
<1>5. IsFiniteSet(Objects')
    <2>1. IsFiniteSet(Objects \cup {k})
        BY FS_AddElement DEF ObjectInv, BucketIsWhole
    <2>2. Objects' \subseteq Objects \cup {k}
        BY <1>4 DEF Objects
    <2> QED
        BY <2>1, <2>2, FS_Subset
<1>6. BucketIsWhole'
    BY <1>4, <1>5 DEF ObjectInv, BucketIsWhole
<1>7. DirsMade'
    BY <1>1 DEF ObjectInv, DirsMade, MadeFor, Putting, Present
<1> QED
    BY <1>1, <1>4, <1>6, <1>7 DEF ObjectInv, ObjectTypeOK, PartsInOrder, OneTemp, MeetMarked, Putting, InFile,
        WritesAlone, WalkSees, CleanKey, Present, ToCome

\* What a put that no other met has written whole is what a reader finds from now on.
LEMMA PutRenames ==
    ASSUME ObjectInv, NEW c \in Caller, PutRename(c)
    PROVE  ObjectInv'
<1>1. PICK k, t : k = call[c].key /\ t = Temp[k]
    OBVIOUS
<1>2. call[c].at = "rename" /\ Putting(c) /\ InFile(call[c]) /\ ObjectTypeOK /\ call[c].part = 2
    BY DEF PutRename, Putting, InFile, ObjectInv, PartsInOrder
<1>3. k \in Key /\ k \in Path /\ t \in Temps /\ t \in Path /\ UNCHANGED <<made, bucket>>
    BY <1>1, <1>2, PutCallIs DEF Path, PutRename
<1>4. BucketIsWhole'
    BY <1>3 DEF ObjectInv, BucketIsWhole, Objects
<1>5. Idle \in Calls /\ Idle.at = "idle"
    BY DEF Calls, Idle
<1>6. CASE files[t] = NoFile
    <2>1. call' = [call EXCEPT ![c] = Idle] /\ UNCHANGED <<files, tainted>>
        BY <1>1, <1>6 DEF PutRename
    <2>2. WalkSees(Idle)
        BY <1>5 DEF WalkSees
    <2> QED
        BY <1>3, <2>1, <2>2, ListingMoves
<1>7. CASE files[t] # NoFile /\ t = k
    <2>1. /\ UNCHANGED files /\ tainted' = tainted \cup {k}
          /\ call' = Renamed([call EXCEPT ![c] = Idle], k, k)
        BY <1>1, <1>7 DEF PutRename
    <2>2. PICK rest \in [Caller -> Calls] : rest = [call EXCEPT ![c] = Idle]
        BY <1>2, <1>5 DEF ObjectTypeOK
    <2>3. ASSUME NEW d \in Caller
          PROVE  /\ call'[d] \in Calls /\ call'[d].at = rest[d].at
                 /\ ~InFile(rest[d]) => call'[d] = rest[d]
                 /\ InFile(rest[d]) =>
                      /\ call'[d].key = rest[d].key /\ call'[d].part = rest[d].part
                      /\ call'[d].crossed = rest[d].crossed /\ call'[d].file = rest[d].file
        <3>1. call'[d] = Renamed(rest, k, k)[d] /\ k \in Path \cup {Gone}
            BY <1>3, <2>1, <2>2
        <3> QED
            BY <3>1, RenamedCall
    <2>4. \A d \in Caller : rest[d] = IF d = c THEN Idle ELSE call[d]
        BY <1>2, <2>2 DEF ObjectTypeOK
    <2>5. ObjectTypeOK'
        <3>1. call' \in [Caller -> Calls]
            BY <2>1, <2>3 DEF Renamed
        <3> QED
            BY <1>2, <1>3, <2>1, <3>1 DEF ObjectTypeOK
    <2>6. PartsInOrder'
        BY <1>5, <2>3, <2>4 DEF ObjectInv, PartsInOrder, InFile
    <2>7. OneTemp'
        BY <1>5, <2>3, <2>4 DEF ObjectInv, OneTemp, Putting, InFile
    <2>8. MeetMarked'
        BY <1>5, <2>3, <2>4 DEF ObjectInv, MeetMarked, InFile
    <2>9. ASSUME NEW d \in Caller
          PROVE  WritesAlone(d)' /\ WalkSees(call[d])'
        <3>1. CASE d = c
            BY <1>5, <2>3, <2>4, <3>1 DEF WritesAlone, InFile, WalkSees
        <3>2. CASE d # c
            <4>1. rest[d] = call[d]
                BY <2>4, <3>2
            <4>2. WritesAlone(d) /\ WalkSees(call[d])
                BY DEF ObjectInv
            <4>3. CASE InFile(call[d])
                <5>1. /\ call'[d].at = call[d].at /\ call'[d].key = call[d].key /\ call'[d].part = call[d].part
                      /\ call'[d].crossed = call[d].crossed /\ call'[d].file = call[d].file
                    BY <2>3, <4>1, <4>3
                <5>2. WalkSees(call[d])'
                    BY <4>3, <5>1 DEF InFile, WalkSees
                <5> QED
                    BY <2>1, <4>2, <4>3, <5>1, <5>2 DEF WritesAlone, InFile
            <4>4. CASE ~InFile(call[d])
                <5>1. call'[d] = call[d]
                    BY <2>3, <4>1, <4>4
                <5> QED
                    BY <2>1, <4>2, <4>4, <5>1 DEF WritesAlone, WalkSees, Present, ToCome
            <4> QED
                BY <4>3, <4>4
        <3> QED
            BY <3>1, <3>2
    <2>10. ASSUME NEW j \in Key \ (Temps \cup tainted)'
           PROVE  CleanKey(j)'
        <3>1. CleanKey(j)
            BY <2>1 DEF ObjectInv
        <3>2. \A d \in Caller : InFile(call[d])' => call'[d].file # j
            BY <1>5, <2>3, <2>4, <3>1 DEF CleanKey, InFile
        <3> QED
            BY <2>1, <3>1, <3>2 DEF CleanKey
    <2>11. DirsMade'
        <3>1. \A d \in Caller : Putting(d)' =>
                Putting(d) /\ call'[d].key = call[d].key /\ call'[d].file = call[d].file
            BY <1>5, <2>3, <2>4 DEF Putting, InFile
        <3> QED
            BY <1>3, <2>1, <3>1 DEF ObjectInv, DirsMade, MadeFor, Present
    <2> QED
        BY <1>4, <2>5, <2>6, <2>7, <2>8, <2>9, <2>10, <2>11 DEF ObjectInv
<1>8. CASE files[t] # NoFile /\ t # k
    <2>1. /\ files' = [files EXCEPT ![k] = files[t], ![t] = NoFile]
          /\ call' = Renamed(Renamed([Unsteady({t, k}) EXCEPT ![c] = Idle], k, Gone), t, k)
          /\ tainted' = IF call[c].crossed THEN tainted \cup {k} ELSE tainted \ {k}
        BY <1>1, <1>8 DEF PutRename
    <2>2. Unsteady({t, k}) \in [Caller -> Calls]
        BY <1>2, UnsteadyCall DEF Unsteady
    <2>3. PICK rest \in [Caller -> Calls] : rest = [Unsteady({t, k}) EXCEPT ![c] = Idle]
        BY <1>5, <2>2
    <2>4. \A d \in Caller : rest[d] = IF d = c THEN Idle ELSE Unsteady({t, k})[d]
        BY <2>2, <2>3
    <2>5. PICK freed \in [Caller -> Calls] : freed = Renamed(rest, k, Gone)
        BY <2>3, RenamedCall DEF Renamed
    <2>6. call'[c].at = "idle" /\ call'[c] \in Calls
        <3>1. rest[c] = Idle
            BY <2>4
        <3>2. freed[c] = Idle
            <4>1. freed[c] = Renamed(rest, k, Gone)[c] /\ ~InFile(rest[c])
                BY <1>5, <2>5, <3>1 DEF InFile
            <4> QED
                BY <3>1, <4>1, RenamedCall
        <3>3. call'[c] = Renamed(freed, t, k)[c] /\ k \in Path \cup {Gone}
            BY <1>3, <2>1, <2>3, <2>5
        <3> QED
            BY <1>5, <3>2, <3>3, RenamedCall DEF InFile
    <2>7. ASSUME NEW d \in Caller \ {c}
          PROVE  /\ call'[d] \in Calls /\ call'[d].at = call[d].at
                 /\ InFile(call[d]) =>
                      /\ call'[d].key = call[d].key /\ call'[d].part = call[d].part
                      /\ call'[d].crossed = call[d].crossed
                      /\ call'[d].file \in {call[d].file, Gone, k}
                 /\ call[d].at = "walk" => SameWalk(call'[d], call[d], {t, k})
                 /\ call[d].at \notin {"write", "rename", "walk"} => call'[d] = call[d]
        <3>1. rest[d] = Unsteady({t, k})[d] /\ call' = Renamed(freed, t, k)
            BY <2>1, <2>3, <2>4, <2>5
        <3>2. CASE InFile(call[d])
            <4>1. rest[d] = call[d]
                BY <1>2, <3>1, <3>2, UnsteadyCall DEF InFile
            <4>2. /\ freed[d].at = call[d].at /\ freed[d].key = call[d].key /\ freed[d].part = call[d].part
                  /\ freed[d].crossed = call[d].crossed /\ freed[d].file \in {call[d].file, Gone}
                BY <2>5, <3>2, <4>1, RenamedCall
            <4> QED
                BY <1>3, <3>1, <3>2, <4>2, RenamedCall DEF InFile
        <3>3. CASE ~InFile(call[d])
            <4>1. rest[d].at = call[d].at
                BY <1>2, <3>1, UnsteadyCall
            <4>2. freed[d] = rest[d]
                BY <2>5, <3>3, <4>1, RenamedCall DEF InFile
            <4>3. call'[d] = rest[d]
                BY <1>3, <3>1, <3>3, <4>1, <4>2, RenamedCall DEF InFile
            <4> QED
                BY <1>2, <3>1, <3>3, <4>3, UnsteadyCall DEF InFile
        <3> QED
            BY <3>2, <3>3
    <2>8. /\ files' \in [Path -> Seq(Part)]
          /\ \A p \in Path : files'[p] = IF p = t THEN NoFile ELSE IF p = k THEN files[t] ELSE files[p]
        <3>1. NoFile \in Seq(Part)
            BY DEF NoFile, Part
        <3> QED
            BY <1>2, <1>3, <1>8, <2>1, <3>1 DEF ObjectTypeOK
    <2>9. ObjectTypeOK'
        <3>1. call' \in [Caller -> Calls]
            BY <2>1, <2>6, <2>7 DEF Renamed
        <3> QED
            BY <1>2, <1>3, <2>1, <2>8, <3>1 DEF ObjectTypeOK
    <2>10. PartsInOrder'
        BY <2>6, <2>7 DEF ObjectInv, PartsInOrder, InFile
    <2>11. OneTemp'
        BY <2>6, <2>7 DEF ObjectInv, OneTemp, Putting, InFile
    <2>12. MeetMarked'
        BY <2>6, <2>7 DEF ObjectInv, MeetMarked, InFile
    <2>13. Present \ {t} \subseteq Present'
        BY <1>3, <1>8, <2>8 DEF Present
    <2>14. ASSUME NEW d \in Caller
           PROVE  WritesAlone(d)' /\ WalkSees(call[d])'
        <3>1. CASE d = c
            BY <2>6, <3>1 DEF WritesAlone, WalkSees, InFile
        <3>2. CASE d # c
            <4>1. InFile(call[d]) => call[d].crossed
                BY <1>2, <3>2 DEF ObjectInv, MeetMarked
            <4>2. WalkSees(call[d])'
                <5>1. WalkSees(call[d])
                    BY DEF ObjectInv
                <5>2. CASE call[d].at = "walk"
                    BY <2>7, <2>13, <3>2, <5>1, <5>2 DEF WalkSees, SameWalk, ToCome
                <5>3. CASE call[d].at = "listed"
                    BY <2>7, <3>2, <5>1, <5>3 DEF WalkSees
                <5> QED
                    BY <2>7, <3>2, <5>2, <5>3 DEF WalkSees
            <4> QED
                BY <2>7, <3>2, <4>1, <4>2 DEF WritesAlone, InFile
        <3> QED
            BY <3>1, <3>2
    <2>15. ASSUME NEW j \in Key \ (Temps \cup tainted)'
           PROVE  CleanKey(j)'
        <3>1. j \in Path /\ j # t /\ j # Gone
            BY <1>3, ObjectAssumption DEF Path
        <3>2. CASE j = k
            <4>1. ~call[c].crossed
                BY <1>3, <2>1, <3>2
            <4>2. \A d \in Caller : ~InFile(call[d])'
                <5>1. \A d \in Caller \ {c} : ~InFile(call[d])
                    BY <1>2, <4>1 DEF ObjectInv, MeetMarked
                <5> QED
                    BY <2>6, <2>7, <5>1 DEF InFile
            <4>3. files[t] = Sofar(2, Value(k, c))
                BY <1>1, <1>2, <1>8, <4>1 DEF ObjectInv, WritesAlone
            <4>4. files'[k] = Whole(Value(k, c))
                BY <1>3, <1>8, <2>8, <4>3 DEF Sofar, Whole
            <4> QED
                BY <3>2, <4>2, <4>4 DEF CleanKey
        <3>3. CASE j # k
            <4>1. CleanKey(j)
                BY <2>1, <3>3 DEF ObjectInv
            <4>2. \A d \in Caller : InFile(call[d])' => call'[d].file # j
                BY <2>6, <2>7, <3>1, <3>3, <4>1 DEF CleanKey, InFile
            <4>3. files'[j] = files[j]
                BY <2>8, <3>1, <3>3
            <4> QED
                BY <4>1, <4>2, <4>3 DEF CleanKey
        <3> QED
            BY <3>2, <3>3
    <2>16. DirsMade'
        <3>1. MadeFor(k)
            BY <1>1, <1>2 DEF ObjectInv, DirsMade
        <3>2. Present' \subseteq Present \cup {k}
            BY <1>3, <2>8 DEF Present
        <3>3. \A p \in Present' : MadeFor(p)
            BY <3>1, <3>2 DEF ObjectInv, DirsMade
        <3>4. \A d \in Caller : Putting(d)' =>
                Putting(d) /\ call'[d].key = call[d].key /\ call'[d].file \in {call[d].file, Gone, k}
            BY <2>6, <2>7 DEF Putting, InFile
        <3> QED
            BY <1>3, <3>1, <3>3, <3>4 DEF ObjectInv, DirsMade, MadeFor
    <2> QED
        BY <1>4, <2>9, <2>10, <2>11, <2>12, <2>14, <2>15, <2>16 DEF ObjectInv
<1> QED
    BY <1>6, <1>7, <1>8

\* A list begins with the directory of its prefix; if there is none, it has no keys.
LEMMA ListBegins ==
    ASSUME ObjectInv, NEW c \in Caller, NEW prefix \in Prefix, ListFiles(c, prefix)
    PROVE  ObjectInv'
<1>1. UNCHANGED <<files, made, bucket, tainted>> /\ ObjectTypeOK
    BY DEF ListFiles, ObjectInv
<1>2. PICK steady : steady = Present \cap Begins[prefix]
    OBVIOUS
<1>3. steady \subseteq Key /\ steady \subseteq Present
    BY <1>2, ObjectAssumption
<1>7. PICK at, dirs :
        /\ at = IF Names[prefix] \in made THEN "walk" ELSE "listed"
        /\ dirs = IF Names[prefix] \in made THEN {Names[prefix]} ELSE {}
    OBVIOUS
<1>4. \A k \in steady \cap InDirectory(prefix) : Names[prefix] \in made /\ Home[k] \in Within[Names[prefix]]
    BY <1>3 DEF InDirectory, ObjectInv, DirsMade, MadeFor
<1>5. PICK x : x = [at |-> at, of |-> "files", prefix |-> prefix, dirs |-> dirs, open |-> Gone, left |-> {},
                    found |-> {}, steady |-> steady, whole |-> TRUE]
    OBVIOUS
<1>6. call' = [call EXCEPT ![c] = x]
    <2>1. CASE Names[prefix] \in made
        BY <1>2, <1>5, <1>7, <2>1 DEF ListFiles
    <2>2. CASE Names[prefix] \notin made
        BY <1>2, <1>5, <1>7, <2>2 DEF ListFiles
    <2> QED
        BY <2>1, <2>2
<1>8. x \in ListCall
    BY <1>1, <1>3, <1>5, <1>7 DEF ListCall, ObjectTypeOK
<1>9. WalkSees(x)
    BY <1>3, <1>4, <1>5, <1>7 DEF WalkSees, ToCome, Answerable
<1> QED
    BY <1>1, <1>6, <1>8, <1>9, ListingMoves

\* A directory that is opened has the files that are in it, and a subdirectory for every
\* other file that is further down.
LEMMA DirIsOpened ==
    ASSUME ObjectInv, NEW c \in Caller, ReadDir(c)
    PROVE  ObjectInv'
<1>1. UNCHANGED <<files, made, bucket, tainted>> /\ ObjectTypeOK
    BY DEF ReadDir, ObjectInv
<1>2. call[c].at = "walk" /\ call[c].open = Gone /\ call[c] \in ListCall /\ WalkSees(call[c])
    BY <1>1, CallIs DEF ReadDir, Listing, ObjectInv
<1>3. PICK d \in call[c].dirs :
        call' = [call EXCEPT ![c].dirs = @ \ {d}, ![c].open = d, ![c].left = Entries(d)]
    BY DEF ReadDir
<1>4. PICK x : x = [call[c] EXCEPT !.dirs = @ \ {d}, !.open = d, !.left = Entries(d)]
    OBVIOUS
<1>5. call' = [call EXCEPT ![c] = x]
    BY <1>1, <1>3, <1>4 DEF ObjectTypeOK
<1>6. d \in Dir /\ Entries(d) \subseteq Path \cup Dir
    BY <1>2 DEF ListCall, Entries, Present, Subdirs
<1>7. /\ x \in ListCall /\ x.at = "walk" /\ x.of = call[c].of /\ x.prefix = call[c].prefix
      /\ x.dirs = call[c].dirs \ {d} /\ x.open = d /\ x.left = Entries(d)
      /\ x.found = call[c].found /\ x.steady = call[c].steady
    BY <1>2, <1>4, <1>6 DEF ListCall
<1>8. ASSUME NEW k \in x.steady \cap InDirectory(x.prefix), k \notin x.found
      PROVE  ToCome(x, k)
    <2>1. PICK e \in call[c].dirs : Home[k] \in Within[e]
        BY <1>2, <1>7, <1>8 DEF WalkSees, ToCome
    <2>2. k \in Present
        BY <1>2, <1>7 DEF WalkSees
    <2>3. CASE e # d
        BY <1>7, <2>1, <2>3 DEF ToCome
    <2>4. CASE e = d
        <3>1. CASE Home[k] = d
            BY <1>7, <2>2, <3>1 DEF ToCome, Entries
        <3>2. CASE Home[k] # d
            <4>1. PICK s \in Subdirs(d) : Home[k] \in Within[s]
                BY <1>6, <2>1, <2>4, <3>2, ObjectAssumption
            <4>2. s \in Dir /\ s \in made
                BY <2>2, <4>1 DEF Subdirs, ObjectInv, DirsMade, MadeFor
            <4> QED
                BY <1>7, <4>1, <4>2 DEF ToCome, Entries
        <3> QED
            BY <3>1, <3>2
    <2> QED
        BY <2>3, <2>4
<1>9. x.open # Gone
    BY <1>6, <1>7, ObjectAssumption
<1>10. WalkSees(x)
    BY <1>2, <1>7, <1>8, <1>9 DEF WalkSees
<1> QED
    BY <1>1, <1>5, <1>7, <1>10, ListingMoves

\* An entry that is given is found, and one that is a directory is still to be read.
LEMMA EntryIsGiven ==
    ASSUME ObjectInv, NEW c \in Caller, NextEntry(c)
    PROVE  ObjectInv'
<1>1. UNCHANGED <<files, made, bucket, tainted>> /\ ObjectTypeOK
    BY DEF NextEntry, ObjectInv
<1>2. call[c].at = "walk" /\ call[c].open # Gone /\ call[c] \in ListCall /\ WalkSees(call[c])
    BY <1>1, CallIs DEF NextEntry, Listing, ObjectInv
<1>3. PICK e \in call[c].left \cup (Entries(call[c].open) \ call[c].found) :
        call' = [call EXCEPT ![c].left = @ \ {e}, ![c].found = @ \cup {e},
                             ![c].dirs = IF e \in Dir THEN @ \cup {e} ELSE @]
    BY DEF NextEntry
<1>4. PICK dirs : dirs = IF e \in Dir THEN call[c].dirs \cup {e} ELSE call[c].dirs
    OBVIOUS
<1>5. PICK x : x = [call[c] EXCEPT !.left = call[c].left \ {e}, !.found = call[c].found \cup {e}, !.dirs = dirs]
    OBVIOUS
<1>6. call' = [call EXCEPT ![c] = x]
    BY <1>1, <1>3, <1>4, <1>5 DEF ObjectTypeOK
<1>7. e \in Path \cup Dir /\ dirs \subseteq Dir
    BY <1>2, <1>4 DEF ListCall, Entries, Present, Subdirs
<1>8. /\ x \in ListCall /\ x.at = "walk" /\ x.of = call[c].of /\ x.prefix = call[c].prefix
      /\ x.dirs = dirs /\ x.open = call[c].open /\ x.left = call[c].left \ {e}
      /\ x.found = call[c].found \cup {e} /\ x.steady = call[c].steady
    BY <1>2, <1>5, <1>7 DEF ListCall
<1>9. ASSUME NEW k \in x.steady \cap InDirectory(x.prefix), k \notin x.found
      PROVE  ToCome(x, k)
    BY <1>2, <1>4, <1>8, <1>9 DEF WalkSees, ToCome
<1>10. WalkSees(x)
    BY <1>2, <1>8, <1>9 DEF WalkSees
<1> QED
    BY <1>1, <1>6, <1>8, <1>10, ListingMoves

\* A walk that has nothing ahead has found what stayed.
LEMMA Lists ==
    ASSUME ObjectInv, NEW c \in Caller, LastEntry(c) \/ EndWalk(c) \/ Listed(c)
    PROVE  ObjectInv'
<1>1. UNCHANGED <<files, made, bucket, tainted>> /\ ObjectTypeOK
    BY DEF LastEntry, EndWalk, Listed, ObjectInv
<1>2. CASE LastEntry(c)
    <2>1. /\ call[c].at = "walk" /\ call[c].left \cap (call[c].steady \cup Dir) = {}
          /\ call[c] \in ListCall /\ WalkSees(call[c])
        BY <1>1, <1>2, CallIs DEF LastEntry, Listing, ObjectInv
    <2>2. PICK x : x = [call[c] EXCEPT !.open = Gone, !.left = {}]
        OBVIOUS
    <2>3. call' = [call EXCEPT ![c] = x]
        BY <1>1, <1>2, <2>2 DEF LastEntry, ObjectTypeOK
    <2>4. /\ x \in ListCall /\ x.at = "walk" /\ x.of = call[c].of /\ x.prefix = call[c].prefix
          /\ x.dirs = call[c].dirs /\ x.open = Gone /\ x.left = {}
          /\ x.found = call[c].found /\ x.steady = call[c].steady
        BY <2>1, <2>2 DEF ListCall
    <2>5. WalkSees(x)
        BY <2>1, <2>4 DEF WalkSees, ToCome
    <2> QED
        BY <1>1, <2>3, <2>4, <2>5, ListingMoves
<1>3. CASE EndWalk(c)
    <2>1. /\ call[c].at = "walk" /\ call[c].open = Gone /\ call[c].dirs = {}
          /\ call[c] \in ListCall /\ WalkSees(call[c])
        BY <1>1, <1>3, CallIs DEF EndWalk, Listing, ObjectInv
    <2>2. PICK x : x = [call[c] EXCEPT !.at = "listed"]
        OBVIOUS
    <2>3. call' = [call EXCEPT ![c] = x]
        BY <1>1, <1>3, <2>2 DEF EndWalk, ObjectTypeOK
    <2>4. /\ x \in ListCall /\ x.at = "listed" /\ x.of = call[c].of /\ x.prefix = call[c].prefix
          /\ x.found = call[c].found /\ x.steady = call[c].steady
        BY <2>1, <2>2 DEF ListCall
    <2>5. WalkSees(x)
        BY <2>1, <2>4 DEF WalkSees, Answerable, ToCome
    <2> QED
        BY <1>1, <2>3, <2>4, <2>5, ListingMoves
<1>4. CASE Listed(c)
    <2>1. call' = [call EXCEPT ![c] = Idle] /\ WalkSees(Idle)
        BY <1>4 DEF Listed, WalkSees, Idle
    <2> QED
        BY <1>1, <2>1, ListingMoves
<1> QED
    BY <1>2, <1>3, <1>4

\* A page holds everything, unless it is full or has failed.
LEMMA PageLists ==
    ASSUME ObjectInv, NEW c \in Caller, NEW prefix \in Prefix, ListObjects(c, prefix)
    PROVE  ObjectInv'
<1>1. UNCHANGED <<files, made, bucket, tainted>>
    BY Zenon DEF ListObjects
<1>2. PICK wanted : wanted = Objects \cap Begins[prefix]
    OBVIOUS
<1>3. PICK found \in SUBSET wanted :
        /\ found = {} \/ Cardinality(found) = Page \/ found = wanted
        /\ call' = [call EXCEPT ![c] =
             [at |-> "listed", of |-> "bucket", prefix |-> prefix, dirs |-> {}, open |-> Gone, left |-> {},
              found |-> found, steady |-> wanted, whole |-> Cardinality(wanted) <= Page /\ found # {}]]
    BY <1>2 DEF ListObjects
<1>4. PICK whole \in BOOLEAN : whole <=> Cardinality(wanted) <= Page /\ found # {}
    OBVIOUS
<1>5. PICK x : x = [at |-> "listed", of |-> "bucket", prefix |-> prefix, dirs |-> {}, open |-> Gone, left |-> {},
                    found |-> found, steady |-> wanted, whole |-> whole]
    OBVIOUS
<1>6. call' = [call EXCEPT ![c] = x]
    BY <1>3, <1>4, <1>5
<1>7. found \subseteq Path \cup Dir /\ wanted \subseteq Key
    BY <1>2 DEF Objects, Path
<1>8. x \in ListCall /\ x.at = "listed" /\ x.found = found /\ x.steady = wanted /\ x.whole = whole
    BY <1>5, <1>7 DEF ListCall
<1>9. ASSUME whole, found # wanted
      PROVE  FALSE
    <2>1. IsFiniteSet(Objects) /\ Page \in Nat
        BY ObjectAssumption DEF ObjectInv, BucketIsWhole
    <2>2. IsFiniteSet(wanted)
        BY <1>2, <2>1, FS_Subset
    <2>3. Cardinality(found) < Cardinality(wanted) /\ Cardinality(found) \in Nat /\ Cardinality(wanted) \in Nat
        BY <1>9, <2>2, FS_Subset, FS_CardinalityType
    <2> QED
        BY <1>3, <1>4, <1>9, <2>1, <2>3
<1>10. WalkSees(x)
    BY <1>8, <1>9 DEF WalkSees
<1> QED
    BY <1>1, <1>6, <1>8, <1>10, ListingMoves

\* Every step of a caller keeps the invariant.
LEMMA ObjectKeeps ==
    ASSUME ObjectInv, NEW c \in Caller, LocalStep(c) \/ RemoteStep(c)
    PROVE  ObjectInv'
BY PutBegins, PutOpens, PutWrites, PutRenames, ListBegins, DirIsOpened, EntryIsGiven, Lists, PageLists,
    FileDeleted, BucketMoves
DEF LocalStep, RemoteStep

\* What is wanted of the objects follows.
LEMMA ReadsAreWhole == ObjectInv => NoPartialReadsAlone /\ ListHasAll
<1> SUFFICES ASSUME ObjectInv
             PROVE  NoPartialReadsAlone /\ ListHasAll
    OBVIOUS
<1>1. NoPartialReadsAlone
    <2> SUFFICES ASSUME NEW k \in Key \ (Temps \cup tainted), Found(k)
                 PROVE  \E c \in Caller : Get(k) = Whole(Value(k, c))
        BY DEF NoPartialReadsAlone
    <2>1. CASE files[k] # NoFile
        BY <2>1 DEF ObjectInv, CleanKey, Get
    <2>2. CASE files[k] = NoFile
        <3>1. PICK c \in Caller : bucket[k] = Value(k, c) /\ bucket[k] # None
            BY <2>2 DEF Found, ObjectInv, BucketIsWhole
        <3> QED
            BY <2>2, <3>1 DEF Get
    <2> QED
        BY <2>1, <2>2
<1>2. ListHasAll
    BY DEF ObjectInv, WalkSees, ListHasAll
<1> QED
    BY <1>1, <1>2

\* What does not touch the objects keeps what is known of them.
LEMMA ObjectsRest == ObjectInv /\ UNCHANGED objectVars => ObjectInv'
<1> SUFFICES ASSUME ObjectInv, UNCHANGED <<files, made, bucket, call, tainted>>
             PROVE  ObjectInv'
    BY DEF objectVars
<1>1. ObjectTypeOK' /\ PartsInOrder' /\ OneTemp' /\ MeetMarked' /\ BucketIsWhole' /\ DirsMade'
    BY DEF ObjectInv, ObjectTypeOK, PartsInOrder, OneTemp, MeetMarked, Putting, InFile, BucketIsWhole, Objects,
        DirsMade, MadeFor, Present
<1>2. ASSUME NEW c \in Caller
      PROVE  WritesAlone(c)' /\ WalkSees(call[c])'
    BY DEF ObjectInv, WritesAlone, InFile, WalkSees, Present, ToCome
<1>3. ASSUME NEW k \in Key \ (Temps \cup tainted)'
      PROVE  CleanKey(k)'
    BY DEF ObjectInv, CleanKey, InFile
<1> QED
    BY <1>1, <1>2, <1>3 DEF ObjectInv

\* Of a host's steps only a handler's call and the death of the process move the objects.
LEMMA HostKeepsObjects == ObjectInv /\ [HostNext]_hostVars => ObjectInv'
<1> SUFFICES ASSUME ObjectInv, [HostNext]_hostVars
             PROVE  ObjectInv'
    OBVIOUS
<1>1. ASSUME NEW r \in Request, Handle(r)
      PROVE  ObjectInv'
    <2>1. CASE UNCHANGED objectVars
        BY <2>1, ObjectsRest
    <2>2. CASE ObjectCall(r)
        <3>1. r \in Caller
            BY HostAssumption
        <3>2. LocalStep(r) \/ RemoteStep(r)
            BY <2>2 DEF ObjectCall
        <3> QED
            BY <3>1, <3>2, ObjectKeeps
    <2> QED
        BY <1>1, <2>1, <2>2 DEF Handle
<1>2. CASE Crash
    BY <1>2, DieKeeps DEF Crash
<1>3. CASE UNCHANGED objectVars
    BY <1>3, ObjectsRest
<1> QED
    BY <1>1, <1>2, <1>3 DEF HostNext, hostVars, storeVars, Outside

\* "Write to a temp file then rename for atomicity (no partial reads)" (object.rs:34): for
\* any callers, keys and temporary files, shared ones among them, and wherever the process
\* dies, what a reader finds under a key is the whole of one value, unless puts that share
\* a temporary file met in the put that stored it.
THEOREM ReadsAreNotPartial == HostSpec => []NoPartialReadsAlone
<1>1. HostInit => ObjectInv
    BY ObjectStarts DEF HostInit
<1> QED
    BY <1>1, HostKeepsObjects, ReadsAreWhole, PTL DEF HostSpec

\* "List all keys with the given prefix" (traits/object.rs:17): for any callers, keys and
\* directories, however deep, a list that reads one entry after the other, while others put
\* and delete, has every key that was all the while in the directory the prefix names (the
\* local store does not look for other keys that begin with it), and the list of a bucket
\* that fits in one page every key that begins with the prefix.
THEOREM ListsAreComplete == HostSpec => []ListHasAll
<1>1. HostInit => ObjectInv
    BY ObjectStarts DEF HostInit
<1> QED
    BY <1>1, HostKeepsObjects, ReadsAreWhole, PTL DEF HostSpec
----------------------------------------------------------------------------
(* The order of JSON values: DocumentStore.                                 *)

\* The characters of two texts are numbers, and the first at which they differ decides.
LEMMA TextsDiffer ==
    ASSUME NEW s \in Seq(Nat), NEW t \in Seq(Nat), s # t
    PROVE  TextBefore(s, t) \/ TextBefore(t, s)
<1> DEFINE D == {i \in Nat \ {0} : i > Len(s) \/ i > Len(t) \/ s[i] # t[i]}
<1>1. /\ Len(s) \in Nat /\ Len(t) \in Nat
      /\ \A i \in 1..Len(s) : s[i] \in Nat
      /\ \A i \in 1..Len(t) : t[i] \in Nat
    OBVIOUS
<1>2. PICK i \in D : \A j \in D : ~(j < i)
    <2>1. Len(s) + 1 \in D
        BY <1>1
    <2>2. D \subseteq Nat
        OBVIOUS
    <2> HIDE DEF D
    <2> QED
        BY <2>1, <2>2, Least
<1>3. i \in Nat \ {0} /\ \A j \in 1..(i - 1) : j <= Len(s) /\ j <= Len(t) /\ s[j] = t[j]
    <2>1. i \in Nat \ {0}
        OBVIOUS
    <2>2. ASSUME NEW j \in 1..(i - 1)
          PROVE  j <= Len(s) /\ j <= Len(t) /\ s[j] = t[j]
        <3>1. j \in Nat \ {0} /\ j < i
            BY <2>1
        <3>2. j \notin D
            BY <1>2, <3>1
        <3> QED
            BY <1>1, <3>1, <3>2
    <2> QED
        BY <2>1, <2>2
<1>4. i > Len(s) \/ i > Len(t) \/ s[i] # t[i]
    OBVIOUS
<1> HIDE DEF D
<1>5. CASE i > Len(s) /\ i > Len(t)
    <2>1. Len(s) = i - 1 /\ Len(t) = i - 1
        <3>1. CASE i = 1
            BY <1>1, <1>5, <3>1
        <3>2. CASE i # 1
            <4>1. i - 1 \in 1..(i - 1)
                BY <1>3, <3>2
            <4> QED
                BY <1>1, <1>3, <1>5, <4>1
        <3> QED
            BY <3>1, <3>2
    <2>2. s = t
        BY <1>3, <2>1
    <2> QED
        BY <2>2
<1>6. ASSUME i <= Len(t), i > Len(s) \/ s[i] < t[i]
      PROVE  TextBefore(s, t)
    <2>1. i \in 1..Len(t)
        BY <1>1, <1>3, <1>6
    <2> QED
        BY <1>3, <1>6, <2>1 DEF TextBefore
<1>7. ASSUME i <= Len(s), i > Len(t) \/ t[i] < s[i]
      PROVE  TextBefore(t, s)
    <2>1. i \in 1..Len(s)
        BY <1>1, <1>3, <1>7
    <2>2. \A j \in 1..(i - 1) : j <= Len(t) /\ t[j] = s[j]
        BY <1>3
    <2> QED
        BY <1>7, <2>1, <2>2 DEF TextBefore
<1>8. CASE i <= Len(s) /\ i <= Len(t)
    <2>1. s[i] < t[i] \/ t[i] < s[i]
        BY <1>1, <1>3, <1>4, <1>8
    <2> QED
        BY <1>6, <1>7, <1>8, <2>1
<1> QED
    BY <1>1, <1>3, <1>5, <1>6, <1>7, <1>8

LEMMA TextsOrdered ==
    ASSUME NEW s \in Seq(Nat), NEW t \in Seq(Nat), NEW u \in Seq(Nat), TextBefore(s, t)
    PROVE  ~TextBefore(t, s) /\ s # t /\ (TextBefore(t, u) => TextBefore(s, u))
<1>1. /\ Len(s) \in Nat /\ Len(t) \in Nat /\ Len(u) \in Nat
      /\ \A i \in 1..Len(s) : s[i] \in Nat
      /\ \A i \in 1..Len(t) : t[i] \in Nat
      /\ \A i \in 1..Len(u) : u[i] \in Nat
    OBVIOUS
<1>2. PICK i \in 1..Len(t) :
          /\ \A j \in 1..(i - 1) : j <= Len(s) /\ s[j] = t[j]
          /\ i > Len(s) \/ s[i] < t[i]
    BY DEF TextBefore
<1>3. s # t
    BY <1>1, <1>2
<1>4. ASSUME TextBefore(t, s)
      PROVE  FALSE
    <2>1. PICK k \in 1..Len(s) :
              /\ \A j \in 1..(k - 1) : j <= Len(t) /\ t[j] = s[j]
              /\ k > Len(t) \/ t[k] < s[k]
        BY <1>4 DEF TextBefore
    <2>2. CASE i < k
        <3>1. i \in 1..(k - 1) /\ i <= Len(s)
            BY <1>1, <2>2
        <3> QED
            BY <1>1, <1>2, <2>1, <3>1
    <2>3. CASE k < i
        <3>1. k \in 1..(i - 1) /\ k <= Len(t)
            BY <1>1, <2>3
        <3> QED
            BY <1>1, <1>2, <2>1, <3>1
    <2>4. CASE i = k
        BY <1>1, <1>2, <2>1, <2>4
    <2> QED
        BY <2>2, <2>3, <2>4
<1>5. ASSUME TextBefore(t, u)
      PROVE  TextBefore(s, u)
    <2>1. PICK k \in 1..Len(u) :
              /\ \A j \in 1..(k - 1) : j <= Len(t) /\ t[j] = u[j]
              /\ k > Len(t) \/ t[k] < u[k]
        BY <1>5 DEF TextBefore
    <2>2. CASE i <= k
        <3>1. i \in 1..Len(u)
            BY <1>1, <2>2
        <3>2. \A j \in 1..(i - 1) : j <= Len(s) /\ s[j] = u[j]
            <4> TAKE j \in 1..(i - 1)
            <4>1. j \in 1..(k - 1)
                BY <2>2
            <4> QED
                BY <1>2, <2>1, <4>1
        <3>3. i > Len(s) \/ s[i] < u[i]
            <4>1. CASE i = k
                BY <1>1, <1>2, <2>1, <3>1, <4>1
            <4>2. CASE i < k
                <5>1. i \in 1..(k - 1)
                    BY <4>2
                <5> QED
                    BY <1>2, <2>1, <5>1
            <4> QED
                BY <2>2, <4>1, <4>2
        <3> QED
            BY <3>1, <3>2, <3>3 DEF TextBefore
    <2>3. CASE k < i
        <3>1. k \in 1..(i - 1) /\ k <= Len(t)
            BY <1>1, <2>3
        <3>2. \A j \in 1..(k - 1) : j <= Len(s) /\ s[j] = u[j]
            <4> TAKE j \in 1..(k - 1)
            <4>1. j \in 1..(i - 1)
                BY <2>3
            <4> QED
                BY <1>2, <2>1, <4>1
        <3>3. s[k] < u[k]
            BY <1>2, <2>1, <3>1
        <3> QED
            BY <3>2, <3>3 DEF TextBefore
    <2> QED
        BY <2>2, <2>3
<1> QED
    BY <1>3, <1>4, <1>5

\* Nothing comes before the empty text.
LEMMA NothingBefore == ASSUME NEW s PROVE ~TextBefore(s, <<>>)
BY DEF TextBefore

\* So the range of a name has its ids up to the end, and keys are in one order.
LEMMA Reaching ==
    ASSUME NEW name \in Seq(Nat), NEW id \in Seq(Nat)
    PROVE  InRange(name, <<name, id>>) <=> ~PastTheEnd(id)
<1>1. ~TextBefore(name, name)
    BY TextsOrdered
<1>2. ~TextBefore(id, <<>>)
    BY NothingBefore
<1>3. PICK k, l, m : k = <<name, id>> /\ l = <<name, <<>>>> /\ m = <<name, <<Last>>>>
    OBVIOUS
<1>4. k[1] = name /\ k[2] = id /\ l[1] = name /\ l[2] = <<>> /\ m[1] = name /\ m[2] = <<Last>>
    BY <1>3
<1>5. ~KeyBefore(k, l) /\ (KeyBefore(m, k) <=> PastTheEnd(id))
    BY <1>1, <1>2, <1>4 DEF KeyBefore, PastTheEnd
<1> QED
    BY <1>3, <1>5 DEF InRange

LEMMA KeysOrdered ==
    ASSUME NEW S, \A k \in S : k[1] \in Seq(Nat) /\ k[2] \in Seq(Nat) /\ k = <<k[1], k[2]>>,
           NEW R, \A k, l \in S : <<k, l>> \in R <=> KeyBefore(k, l)
    PROVE  Orders(R, S)
<1>1. ASSUME NEW k \in S
      PROVE  ~KeyBefore(k, k)
    BY TextsOrdered DEF KeyBefore
<1>2. ASSUME NEW k \in S, NEW l \in S, NEW m \in S, KeyBefore(k, l), KeyBefore(l, m)
      PROVE  KeyBefore(k, m)
    <2>1. CASE TextBefore(k[1], l[1])
        <3>1. TextBefore(l[1], m[1]) => TextBefore(k[1], m[1])
            BY <2>1, TextsOrdered
        <3> QED
            BY <1>2, <2>1, <3>1 DEF KeyBefore
    <2>2. CASE k[1] = l[1] /\ TextBefore(k[2], l[2])
        <3>1. TextBefore(l[2], m[2]) => TextBefore(k[2], m[2])
            BY <2>2, TextsOrdered
        <3> QED
            BY <1>2, <2>2, <3>1 DEF KeyBefore
    <2> QED
        BY <1>2, <2>1, <2>2 DEF KeyBefore
<1>3. ASSUME NEW k \in S, NEW l \in S, k # l
      PROVE  KeyBefore(k, l) \/ KeyBefore(l, k)
    <2>1. k[1] # l[1] => TextBefore(k[1], l[1]) \/ TextBefore(l[1], k[1])
        BY TextsDiffer
    <2>2. k[2] # l[2] => TextBefore(k[2], l[2]) \/ TextBefore(l[2], k[2])
        BY TextsDiffer
    <2>3. k[1] # l[1] \/ k[2] # l[2]
        BY <1>3
    <2> QED
        BY <2>1, <2>2, <2>3 DEF KeyBefore
<1> QED
    BY <1>1, <1>2, <1>3 DEF Orders

\* So texts are compared as numbers are.
LEMMA ComparedTexts ==
    ASSUME NEW s \in Seq(Nat), NEW t \in Seq(Nat)
    PROVE  /\ CompareText(s, t) \in {-1, 0, 1} /\ CompareText(s, t) = -CompareText(t, s)
           /\ CompareText(s, t) < 0 <=> TextBefore(s, t)
           /\ CompareText(s, t) = 0 <=> s = t
           /\ \A u \in Seq(Nat) : TextBefore(s, t) => TextBefore(s, u) \/ TextBefore(u, t)
<1>1. TextBefore(s, t) => ~TextBefore(t, s) /\ s # t
    BY TextsOrdered
<1>2. TextBefore(t, s) => ~TextBefore(s, t) /\ s # t
    BY TextsOrdered
<1>3. s = t \/ TextBefore(s, t) \/ TextBefore(t, s)
    BY TextsDiffer
<1>4. ASSUME NEW u \in Seq(Nat), TextBefore(s, t)
      PROVE  TextBefore(s, u) \/ TextBefore(u, t)
    <2>1. s = u \/ TextBefore(s, u) \/ TextBefore(u, s)
        BY TextsDiffer
    <2>2. TextBefore(u, s) => TextBefore(u, t)
        BY <1>4, TextsOrdered
    <2> QED
        BY <1>4, <2>1, <2>2
<1> QED
    BY <1>1, <1>2, <1>3, <1>4 DEF CompareText

\* Comparing values the other way round gives the opposite.
LEMMA ComparedIs ==
    ASSUME NEW x \in Json, NEW y \in Json
    PROVE  /\ Compared(x, y) \in {-1, 0, 1} /\ Compared(x, y) = -Compared(y, x)
           /\ Compared(x, x) = 0
<1>1. /\ x.text \in Seq(Nat) /\ y.text \in Seq(Nat)
      /\ x.t \in {"num", "bool"} => x.v \in Int
      /\ y.t \in {"num", "bool"} => y.v \in Int
      /\ x.t = "str" => x.v \in Seq(Nat)
      /\ y.t = "str" => y.v \in Seq(Nat)
    BY JsonAssumption
<1>2. Compared(x, x) = 0
    <2>1. CompareText(x.text, x.text) = 0 /\ (x.t = "str" => CompareText(x.v, x.v) = 0)
        BY <1>1, ComparedTexts
    <2> QED
        BY <1>1, <2>1 DEF Compared, Sign
<1>3. CASE x.t = y.t /\ x.t \in {"num", "bool"}
    BY <1>1, <1>3, <1>2 DEF Compared, Sign
<1>4. CASE x.t = y.t /\ x.t = "str"
    <2>1. CompareText(x.v, y.v) \in {-1, 0, 1} /\ CompareText(x.v, y.v) = -CompareText(y.v, x.v)
          /\ CompareText(x.v, x.v) = 0
        BY <1>1, <1>4, ComparedTexts
    <2> QED
        BY <1>4, <1>2, <2>1 DEF Compared
<1>5. CASE ~(x.t = y.t /\ x.t \in {"num", "bool", "str"})
    <2>1. CompareText(x.text, y.text) \in {-1, 0, 1}
          /\ CompareText(x.text, y.text) = -CompareText(y.text, x.text)
        BY <1>1, ComparedTexts
    <2>2. Compared(x, y) = CompareText(x.text, y.text) /\ Compared(y, x) = CompareText(y.text, x.text)
        BY <1>5 DEF Compared
    <2> QED
        BY <1>2, <2>1, <2>2
<1> QED
    BY <1>2, <1>3, <1>4, <1>5

\* A third value comes after the lesser or before the greater of two, of whatever kinds
\* the three are: "Total order over serde_json::Value" (local/document.rs:238).
LEMMA ComparedThird ==
    ASSUME NEW x \in Json, NEW y \in Json, NEW z \in Json, Compared(x, y) < 0
    PROVE  Compared(x, z) < 0 \/ Compared(z, y) < 0
<1> DEFINE Scalar(v) == v.t \in {"num", "bool", "str"}
<1>1. /\ \A v \in {x, y, z} : v.text \in Seq(Nat)
      /\ \A v \in {x, y, z} : v.t \in {"num", "bool"} => v.v \in Int
      /\ \A v \in {x, y, z} : v.t = "str" => v.v \in Seq(Nat)
    BY JsonAssumption
<1>2. \A u, v \in {x, y, z} :
          /\ Compared(u, v) \in {-1, 0, 1} /\ Compared(u, v) = -Compared(v, u)
          /\ ~(u.t = v.t /\ Scalar(u)) => (Compared(u, v) < 0 <=> TextBefore(u.text, v.text))
    <2> TAKE u, v \in {x, y, z}
    <2>1. u \in Json /\ v \in Json
        OBVIOUS
    <2>2. ASSUME ~(u.t = v.t /\ Scalar(u))
          PROVE  Compared(u, v) < 0 <=> TextBefore(u.text, v.text)
        <3>1. Compared(u, v) = CompareText(u.text, v.text)
            BY <2>2 DEF Compared
        <3> QED
            BY <1>1, <3>1, ComparedTexts
    <2> QED
        BY <2>1, <2>2, ComparedIs
<1>3. \A u, v, w \in {x, y, z} :
          u.t = v.t /\ Scalar(u) /\ w.t # u.t /\ Compared(u, v) <= 0 =>
              /\ u.text # w.text
              /\ TextBefore(v.text, w.text) => TextBefore(u.text, w.text)
              /\ TextBefore(w.text, u.text) => TextBefore(w.text, v.text)
    BY JsonAssumption
<1>4. CASE x.t = y.t /\ Scalar(x) /\ z.t = x.t
    <2>1. CASE x.t = "str"
        <3>1. /\ TextBefore(x.v, y.v)
              /\ TextBefore(x.v, z.v) => Compared(x, z) < 0
              /\ TextBefore(z.v, y.v) => Compared(z, y) < 0
            <4>1. \A u, v \in {x, y, z} : Compared(u, v) = CompareText(u.v, v.v)
                BY <1>4, <2>1 DEF Compared
            <4>2. \A u, v \in {x, y, z} : CompareText(u.v, v.v) < 0 <=> TextBefore(u.v, v.v)
                BY <1>1, <1>4, <2>1, ComparedTexts
            <4> QED
                BY <4>1, <4>2
        <3>2. TextBefore(x.v, z.v) \/ TextBefore(z.v, y.v)
            BY <1>1, <1>4, <2>1, <3>1, ComparedTexts
        <3> QED
            BY <3>1, <3>2
    <2>2. CASE x.t \in {"num", "bool"}
        BY <1>1, <1>4, <2>2 DEF Compared, Sign
    <2> QED
        BY <1>4, <2>1, <2>2
<1>5. CASE x.t = y.t /\ Scalar(x) /\ z.t # x.t
    <2>1. Compared(x, y) <= 0 /\ Compared(y, y) <= 0
        BY <1>2
    <2>2. /\ y.text # z.text
          /\ TextBefore(y.text, z.text) => TextBefore(x.text, z.text)
        BY <1>3, <1>5, <2>1
    <2>3. TextBefore(y.text, z.text) \/ TextBefore(z.text, y.text)
        BY <1>1, <2>2, TextsDiffer
    <2> QED
        BY <1>2, <1>5, <2>2, <2>3
<1>6. CASE ~(x.t = y.t /\ Scalar(x))
    <2>1. TextBefore(x.text, y.text)
        BY <1>2, <1>6
    <2>2. CASE z.t = x.t /\ Scalar(x)
        <3>1. Compared(x, z) < 0 \/ Compared(z, x) <= 0
            BY <1>2
        <3>2. Compared(z, x) <= 0 => TextBefore(z.text, y.text)
            BY <1>3, <1>6, <2>1, <2>2
        <3>3. TextBefore(z.text, y.text) => Compared(z, y) < 0
            BY <1>2, <1>6, <2>2
        <3> QED
            BY <3>1, <3>2, <3>3
    <2>3. CASE z.t = y.t /\ Scalar(y)
        <3>1. Compared(z, y) < 0 \/ Compared(y, z) <= 0
            BY <1>2
        <3>2. Compared(y, z) <= 0 => TextBefore(x.text, z.text)
            BY <1>3, <1>6, <2>1, <2>3
        <3>3. TextBefore(x.text, z.text) => Compared(x, z) < 0
            BY <1>2, <1>6, <2>3
        <3> QED
            BY <3>1, <3>2, <3>3
    <2>4. CASE ~(z.t = x.t /\ Scalar(x)) /\ ~(z.t = y.t /\ Scalar(y))
        <3>1. TextBefore(x.text, z.text) \/ TextBefore(z.text, y.text)
            BY <1>1, <2>1, ComparedTexts
        <3>2. ~(x.t = z.t /\ Scalar(x)) /\ ~(z.t = y.t /\ Scalar(z))
            BY <2>4
        <3> QED
            BY <1>2, <3>1, <3>2
    <2> QED
        BY <2>2, <2>3, <2>4
<1> QED
    BY <1>4, <1>5, <1>6

\* A value, or none.
Maybe == {<<>>} \cup {<<x>> : x \in Json}

\* The same with what is missing.
LEMMA ValuesOrdered ==
    ASSUME NEW a \in Maybe, NEW b \in Maybe
    PROVE  /\ CompareValues(a, b) \in {-1, 0, 1} /\ CompareValues(a, b) = -CompareValues(b, a)
           /\ \A c \in Maybe : CompareValues(a, b) < 0 => CompareValues(a, c) < 0 \/ CompareValues(c, b) < 0
           /\ \A c \in Maybe : CompareValues(a, b) > 0 => CompareValues(a, c) > 0 \/ CompareValues(c, b) > 0
<1>1. \A c \in Maybe : \/ c = <<>> /\ Len(c) = 0
                       \/ c # <<>> /\ Len(c) = 1 /\ c[1] \in Json
    <2> TAKE c \in Maybe
    <2>1. ASSUME NEW x \in Json, c = <<x>>
          PROVE  c # <<>> /\ Len(c) = 1 /\ c[1] \in Json
        BY <2>1
    <2>2. c = <<>> => Len(c) = 0
        OBVIOUS
    <2>3. c = <<>> \/ \E x \in Json : c = <<x>>
        BY DEF Maybe
    <2>4. CASE c = <<>>
        BY <2>2, <2>4
    <2>5. CASE \E x \in Json : c = <<x>>
        <3>1. PICK x \in Json : c = <<x>>
            BY <2>5
        <3> QED
            BY <2>1, <3>1
    <2> QED
        BY <2>3, <2>4, <2>5
<1>2. \A c, d \in Maybe : /\ CompareValues(c, d) \in {-1, 0, 1}
                          /\ CompareValues(c, d) = -CompareValues(d, c)
    <2> TAKE c, d \in Maybe
    <2>1. CASE c = <<>> \/ d = <<>>
        BY <1>1, <2>1 DEF CompareValues, Sign
    <2>2. CASE c # <<>> /\ d # <<>>
        <3>1. CompareValues(c, d) = Compared(c[1], d[1]) /\ CompareValues(d, c) = Compared(d[1], c[1])
            BY <2>2 DEF CompareValues
        <3> QED
            BY <1>1, <2>2, <3>1, ComparedIs
    <2> QED
        BY <2>1, <2>2
<1>3. \A u, v, c \in Maybe : CompareValues(u, v) < 0 => CompareValues(u, c) < 0 \/ CompareValues(c, v) < 0
    <2> SUFFICES ASSUME NEW u \in Maybe, NEW v \in Maybe, NEW c \in Maybe, CompareValues(u, v) < 0
                 PROVE  CompareValues(u, c) < 0 \/ CompareValues(c, v) < 0
        OBVIOUS
    <2>1. CASE u = <<>> \/ v = <<>> \/ c = <<>>
        BY <1>1, <2>1 DEF CompareValues, Sign
    <2>2. CASE u # <<>> /\ v # <<>> /\ c # <<>>
        <3>1. /\ CompareValues(u, v) = Compared(u[1], v[1]) /\ CompareValues(u, c) = Compared(u[1], c[1])
              /\ CompareValues(c, v) = Compared(c[1], v[1])
            BY <2>2 DEF CompareValues
        <3> QED
            BY <1>1, <2>2, <3>1, ComparedThird
    <2> QED
        BY <2>1, <2>2
<1>4. \A c \in Maybe : CompareValues(a, b) > 0 => CompareValues(a, c) > 0 \/ CompareValues(c, b) > 0
    <2> SUFFICES ASSUME NEW c \in Maybe, CompareValues(a, b) > 0
                 PROVE  CompareValues(a, c) > 0 \/ CompareValues(c, b) > 0
        OBVIOUS
    <2>1. CompareValues(b, a) < 0
        BY <1>2
    <2>2. CompareValues(b, c) < 0 \/ CompareValues(c, a) < 0
        BY <1>3, <2>1
    <2> QED
        BY <1>2, <2>2
<1> QED
    BY <1>2, <1>3, <1>4

----------------------------------------------------------------------------
(* What the stores hold.                                                    *)

Row == [data : Body, created : Nat, updated : Nat]
Item == [id : Id, text : Text \ {Blank}]
Batch == [ns : Namespace, items : Seq(Item) \ {<<>>}]

VectorInv ==
    /\ table \in [Namespace \X Id -> {NoVector} \cup {<<t>> : t \in Text \ {Blank}}]
    /\ batch \in [Loader -> {NoBatch} \cup Batch]

DocumentInv == local_dev => docs \in [Doc -> {NoDoc} \cup Row] /\ writes \in Nat

Event == [id : Nat, at : Nat, org : Org \cup {""}, app : App, type : Type]

EventInv ==
    /\ log \in Seq(Event)
    /\ \A i, j \in DOMAIN log : i # j => log[i].id # log[j].id

----------------------------------------------------------------------------
(* Lists cut at a limit.                                                    *)

\* The elements of S, each once.
OneEach(a, c, S) ==
    /\ a \in [1..c -> S]
    /\ \A i, j \in 1..c : i # j => a[i] # a[j]
    /\ \A x \in S : \E i \in 1..c : a[i] = x

LEMMA AscendingLists ==
    ASSUME NEW S, IsFiniteSet(S), S \subseteq Int
    PROVE  /\ Cardinality(S) \in Nat /\ OneEach(Ascending(S), Cardinality(S), S)
           /\ \A i, j \in 1..Cardinality(S) : i < j => Ascending(S)[i] < Ascending(S)[j]
<1>1. Cardinality(S) \in Nat
    BY FS_CardinalityType
<1>2. /\ Ascending(S) \in [1..Cardinality(S) -> S]
      /\ \A i, j \in 1..Cardinality(S) : i < j => Ascending(S)[i] < Ascending(S)[j]
      /\ \A x \in S : \E i \in 1..Cardinality(S) : Ascending(S)[i] = x
    BY AscendingIs
<1>3. ASSUME NEW i \in 1..Cardinality(S), NEW j \in 1..Cardinality(S), i # j
      PROVE  Ascending(S)[i] # Ascending(S)[j]
    <2>1. i < j \/ j < i
        BY <1>3
    <2>2. Ascending(S)[i] \in Int /\ Ascending(S)[j] \in Int
        BY <1>2
    <2> QED
        BY <1>2, <2>1, <2>2
<1> QED
    BY <1>1, <1>2, <1>3 DEF OneEach

LEMMA OrderedLists ==
    ASSUME NEW S, IsFiniteSet(S), NEW R, Orders(R, S)
    PROVE  Cardinality(S) \in Nat /\ OneEach(Ordered(S, R), Cardinality(S), S)
<1>1. PICK o, c : o = Ordered(S, R) /\ c = Cardinality(S)
    OBVIOUS
<1>2. /\ o \in [1..c -> S] /\ c \in Nat
      /\ \A i, j \in 1..c : i < j => <<o[i], o[j]>> \in R
      /\ \A x \in S : \E i \in 1..c : o[i] = x
    BY <1>1, OrderedIs
<1>3. ASSUME NEW i \in 1..c, NEW j \in 1..c, i # j
      PROVE  o[i] # o[j]
    <2>1. i < j \/ j < i
        BY <1>2, <1>3
    <2>2. o[i] \in S /\ o[j] \in S /\ (<<o[i], o[j]>> \in R \/ <<o[j], o[i]>> \in R)
        BY <1>2, <2>1
    <2> QED
        BY <2>2 DEF Orders
<1> QED
    BY <1>1, <1>2, <1>3 DEF OneEach

\* None of a stands before one that it belongs after by the places in rows.
Arranged(a, rows, c, W) == \A k, l \in 1..c : k < l =>
    \E i, j \in 1..c : a[k] = rows[i] /\ a[l] = rows[j] /\ <<j, i>> \notin W

\* A stable sort of a list is a list of the same.
LEMMA SortListing ==
    ASSUME NEW S, NEW c \in Nat, NEW rows, OneEach(rows, c, S), NEW W, WeaklyOrders(W, 1..c),
           NEW a, a = AtPlaces(rows, Ordered(1..c, Stably(W, c)))
    PROVE  OneEach(a, c, S) /\ Arranged(a, rows, c, W)
<1>1. PICK P : P = Ordered(1..c, Stably(W, c))
    OBVIOUS
<1>2. IsSort(P, W, c)
    BY <1>1, StableIs
<1>3. P \in [1..c -> 1..c] /\ a = [k \in 1..c |-> rows[P[k]]]
    BY <1>1, <1>2 DEF AtPlaces, IsSort
<1>4. \A k \in 1..c : P[k] \in 1..c /\ a[k] = rows[P[k]] /\ a[k] \in S
    BY <1>3 DEF OneEach
<1>5. OneEach(a, c, S)
    <2>1. a \in [1..c -> S]
        BY <1>3, <1>4
    <2>2. ASSUME NEW i \in 1..c, NEW j \in 1..c, i # j
          PROVE  a[i] # a[j]
        <3>1. i < j \/ j < i
            BY <2>2
        <3>2. P[i] # P[j]
            BY <1>2, <3>1 DEF IsSort
        <3> QED
            BY <1>4, <3>2 DEF OneEach
    <2>3. ASSUME NEW x \in S
          PROVE  \E i \in 1..c : a[i] = x
        <3>1. PICK i \in 1..c : rows[i] = x
            BY DEF OneEach
        <3>2. PICK k \in 1..c : P[k] = i
            BY <1>2 DEF IsSort
        <3> QED
            BY <1>4, <3>1, <3>2
    <2> QED
        BY <2>1, <2>2, <2>3 DEF OneEach
<1>6. ASSUME NEW k \in 1..c, NEW l \in 1..c, k < l
      PROVE  \E i, j \in 1..c : a[k] = rows[i] /\ a[l] = rows[j] /\ <<j, i>> \notin W
    <2>1. <<P[l], P[k]>> \notin W
        BY <1>2, <1>6 DEF IsSort
    <2> QED
        BY <1>4, <2>1
<1> QED
    BY <1>5, <1>6 DEF Arranged

\* What the first m places of a list hold.
First(a, m) == {a[k] : k \in 1..m}

LEMMA FirstIs ==
    ASSUME NEW S, NEW c \in Nat, NEW a, OneEach(a, c, S), NEW m \in 0..c
    PROVE  /\ First(a, m) \subseteq S /\ IsFiniteSet(First(a, m)) /\ Cardinality(First(a, m)) = m
           /\ m = c => First(a, m) = S
           /\ \A d \in S \ First(a, m) : \E k \in 1..c : m < k /\ a[k] = d
<1>1. PICK F : F = First(a, m)
    OBVIOUS
<1>2. PICK f : f = [k \in 1..m |-> a[k]]
    OBVIOUS
<1>3. \A k \in 1..m : k \in 1..c /\ a[k] \in S /\ f[k] = a[k] /\ a[k] \in F
    BY <1>1, <1>2 DEF OneEach, First
<1>4. \A x \in F : \E k \in 1..m : a[k] = x
    BY <1>1 DEF First
<1>5. f \in Bijection(1..m, F)
    <2>1. f \in [1..m -> F]
        BY <1>2, <1>3
    <2>2. \A i, j \in 1..m : f[i] = f[j] => i = j
        BY <1>3 DEF OneEach
    <2>3. \A x \in F : \E k \in 1..m : f[k] = x
        BY <1>3, <1>4
    <2> QED
        BY <2>1, <2>2, <2>3 DEF Bijection, Injection, Surjection, IsInjective
<1>6. IsFiniteSet(F) /\ Cardinality(F) = m
    <2>1. IsFiniteSet(1..m) /\ Cardinality(1..m) = m
        BY UpTo
    <2> QED
        BY <1>5, <2>1, FS_Bijection DEF ExistsBijection
<1>7. F \subseteq S
    BY <1>3, <1>4
<1>8. \A d \in S \ F : \E k \in 1..c : m < k /\ a[k] = d
    <2> TAKE d \in S \ F
    <2>1. PICK k \in 1..c : a[k] = d
        BY DEF OneEach
    <2>2. k \notin 1..m
        BY <1>3, <2>1
    <2> QED
        BY <2>1, <2>2
<1>9. m = c => F = S
    BY <1>7, <1>8
<1> QED
    BY <1>1, <1>6, <1>7, <1>8, <1>9

\* How many of c are left when as many as the limit allows are taken.
Allowed(limit, c) == IF c > limit THEN limit ELSE c

\* The first n of a list.
FirstOnes(b, a, c, n) ==
    /\ Len(b) = Allowed(n, c) /\ DOMAIN b = 1..Allowed(n, c)
    /\ \A k \in 1..Allowed(n, c) : b[k] = a[k]
    /\ Allowed(n, c) \in 0..c

LEMMA FirstOf ==
    ASSUME NEW S, NEW c \in Nat, NEW a, OneEach(a, c, S), NEW n \in Nat
    PROVE  FirstOnes(Truncated(a, n), a, c, n)
<1>1. a \in Seq(S) /\ Len(a) = c /\ DOMAIN a = 1..c
    BY DEF OneEach
<1>2. CASE c > n
    <2>1. PICK b : b = SubSeq(a, 1, n)
        OBVIOUS
    <2>2. \A k \in 1..n : k \in 1..c /\ a[k] \in S
        BY <1>1, <1>2
    <2>3. b = [k \in 1..n |-> a[k]]
        BY <1>1, <2>1, <2>2
    <2>4. Len(b) = n /\ DOMAIN b = 1..n /\ \A k \in 1..n : b[k] = a[k]
        BY <2>2, <2>3
    <2> QED
        BY <1>1, <1>2, <2>1, <2>4 DEF Allowed, Truncated, FirstOnes
<1>3. CASE ~(c > n)
    BY <1>1, <1>3 DEF Allowed, Truncated, FirstOnes
<1> QED
    BY <1>2, <1>3

LEMMA AtTheLimit ==
    ASSUME NEW c \in Nat
    PROVE  \A n \in Nat : Allowed(n, c) \in 0..c /\ (Allowed(n, c) # c => Allowed(n, c) = n)
BY DEF Allowed

\* Of the list a what is left comes behind what is in b.
Behind(b, a, c, left) == \A k \in DOMAIN b, d \in left : \E l \in 1..c : k < l /\ a[l] = d

\* What is given when a list of S is cut to n.
IsGiven(given, S, b, a, c, n) ==
    /\ given \subseteq S /\ Cardinality(given) = Len(b) /\ (given # S => Len(b) = n)
    /\ DOMAIN b \subseteq 1..c /\ \A k \in DOMAIN b : b[k] = a[k]
    /\ Behind(b, a, c, S \ given)

LEMMA GivenIs ==
    ASSUME NEW S, NEW c \in Nat, NEW a, OneEach(a, c, S), NEW n \in Nat,
           NEW b, b = Truncated(a, n), NEW given, given = Given(b)
    PROVE  IsGiven(given, S, b, a, c, n)
<1>1. PICK m : m = Allowed(n, c)
    OBVIOUS
<1>2. Len(b) = m /\ DOMAIN b = 1..m /\ (\A k \in 1..m : b[k] = a[k]) /\ m \in 0..c
    BY <1>1, FirstOf DEF FirstOnes
<1>3. given = First(a, m)
    <2>1. {b[k] : k \in 1..m} = {a[k] : k \in 1..m}
        BY <1>2
    <2> QED
        BY <1>2, <2>1 DEF First, Given
<1>4. given \subseteq S /\ Cardinality(given) = m /\ (m = c => given = S)
    <2>1. First(a, m) \subseteq S /\ Cardinality(First(a, m)) = m /\ (m = c => First(a, m) = S)
        BY <1>2, FirstIs
    <2> QED
        BY <1>3, <2>1
<1>7. \A d \in S \ First(a, m) : \E k \in 1..c : m < k /\ a[k] = d
    BY <1>2, FirstIs
<1>5. given # S => m = n
    BY <1>1, <1>4, AtTheLimit
<1>6. ASSUME NEW k \in DOMAIN b, NEW d \in S \ given
      PROVE  \E l \in 1..c : k < l /\ a[l] = d
    <2>1. PICK l \in 1..c : m < l /\ a[l] = d
        BY <1>3, <1>7
    <2>2. k < l
        BY <1>2, <2>1
    <2> QED
        BY <2>1, <2>2
<1>8. Behind(b, a, c, S \ given)
    BY <1>6 DEF Behind
<1>9. DOMAIN b \subseteq 1..c /\ \A k \in DOMAIN b : b[k] = a[k]
    BY <1>2
<1> QED
    BY <1>2, <1>4, <1>5, <1>8, <1>9 DEF IsGiven

----------------------------------------------------------------------------
(* Events: EventLog.                                                        *)

\* The events that were asked for, in the order of ids and then of their times.
LEMMA EventsListed ==
    ASSUME EventInv, NEW S, S \subseteq DOMAIN log
    PROVE  LET rows == ById(S)  a == OldestFirst(rows)
               c == Cardinality(S)
           IN  /\ IsFiniteSet(S) /\ c \in Nat /\ OneEach(a, c, S)
               /\ \A k, l \in 1..c : k < l => log[a[k]].at <= log[a[l]].at
<1>1. PICK n \in Nat : DOMAIN log = 1..n
    <2>1. PICK E : log \in Seq(E)
        BY DEF EventInv
    <2> QED
        BY <2>1
<1>2. \A i \in S : log[i].id \in Nat /\ log[i].at \in Nat
    <2>1. PICK E : E = Event
        OBVIOUS
    <2>2. \A i \in DOMAIN log : log[i] \in E
        BY <2>1 DEF EventInv
    <2> QED
        BY <2>1, <2>2 DEF Event
<1>3. IsFiniteSet(S)
    <2>1. S \in SUBSET (1..n)
        BY <1>1
    <2> QED
        BY <2>1, PartOf
<1>4. PICK R : R = {p \in S \X S : log[p[1]].id < log[p[2]].id}
    OBVIOUS
<1>5. \A i, j \in S : <<i, j>> \in R <=> log[i].id < log[j].id
    BY <1>4
<1>6. Orders(R, S)
    <2>1. \A i, j \in S : i # j => log[i].id # log[j].id
        BY DEF EventInv
    <2> QED
        BY <1>2, <1>5, <2>1 DEF Orders
<1>7. PICK rows, c : rows = ById(S) /\ c = Cardinality(S)
    OBVIOUS
<1>8. c \in Nat /\ OneEach(rows, c, S)
    <2>1. rows = Ordered(S, R)
        BY <1>4, <1>7 DEF ById
    <2> QED
        BY <1>3, <1>6, <1>7, <2>1, OrderedLists
<1>9. DOMAIN rows = 1..c /\ \A i \in 1..c : rows[i] \in S
    BY <1>8 DEF OneEach
<1>10. PICK W : W = {p \in (1..c) \X (1..c) : log[rows[p[1]]].at < log[rows[p[2]]].at}
    OBVIOUS
<1>11. \A i, j \in 1..c : <<i, j>> \in W <=> log[rows[i]].at < log[rows[j]].at
    BY <1>10
<1>12. WeaklyOrders(W, 1..c)
    BY <1>2, <1>9, <1>11 DEF WeaklyOrders
<1>13. PICK a : a = OldestFirst(rows)
    OBVIOUS
<1>14. a = AtPlaces(rows, Ordered(1..c, Stably(W, c)))
    <2>1. Stably(W, c)
          = {p \in (1..c) \X (1..c) :
                \/ log[rows[p[1]]].at < log[rows[p[2]]].at
                \/ (~(log[rows[p[2]]].at < log[rows[p[1]]].at) /\ p[1] < p[2])}
        BY <1>10 DEF Stably
    <2> QED
        BY <1>9, <1>13, <2>1 DEF OldestFirst, StableSort, StablePlaces
<1>15. OneEach(a, c, S) /\ Arranged(a, rows, c, W)
    BY <1>8, <1>12, <1>14, SortListing
<1>16. ASSUME NEW k \in 1..c, NEW l \in 1..c, k < l
       PROVE  log[a[k]].at <= log[a[l]].at
    <2>1. PICK i \in 1..c, j \in 1..c : a[k] = rows[i] /\ a[l] = rows[j] /\ <<j, i>> \notin W
        BY <1>15, <1>16 DEF Arranged
    <2>2. ~(log[rows[j]].at < log[rows[i]].at) /\ rows[i] \in S /\ rows[j] \in S
        BY <1>9, <1>11, <2>1
    <2> QED
        BY <1>2, <2>1, <2>2
<1> QED
    BY <1>3, <1>7, <1>8, <1>13, <1>15, <1>16

\* Of a table, the oldest events that were asked for, as many as the limit allows; of
\* Firestore any as many.
LEMMA EventsAre == ASSUME EventInv, local_dev \in BOOLEAN PROVE EventsAnswered(local_dev)
<1> SUFFICES ASSUME NEW q \in EventQuery, local_dev \/ (q.org = Unset /\ q.app = Unset),
                    NEW answer \in Answers(q, local_dev)
             PROVE  LET asked == {i \in DOMAIN log : Asked(i, q)} IN
                    /\ answer \subseteq asked
                    /\ answer # asked => Cardinality(answer) = q.limit
                    /\ local_dev =>
                        /\ \A i \in answer, j \in asked \ answer : log[i].at <= log[j].at
                        /\ \A k, l \in DOMAIN QueryEvents(q) :
                               k < l => log[QueryEvents(q)[k]].at <= log[QueryEvents(q)[l]].at
    BY DEF EventsAnswered
<1>1. PICK asked : asked = {i \in DOMAIN log : Asked(i, q)}
    OBVIOUS
<1>2. asked \subseteq DOMAIN log
    BY <1>1
<1>3. PICK c, a :
          /\ IsFiniteSet(asked) /\ c = Cardinality(asked) /\ c \in Nat /\ OneEach(a, c, asked)
          /\ \A k, l \in 1..c : k < l => log[a[k]].at <= log[a[l]].at
          /\ a = OldestFirst(ById(asked))
    BY <1>2, EventsListed
<1>4. q.limit \in Nat
    <2>1. q.limit \in 1..MaxEvents
        BY DEF EventQuery
    <2>2. MaxEvents \in Nat
        BY EventLogAssumption
    <2> QED
        BY <2>1, <2>2
<1>5. CASE local_dev
    <2>1. PICK b : b = Truncated(a, q.limit)
        OBVIOUS
    <2>2. b = QueryEvents(q)
        BY <1>1, <1>3, <2>1 DEF QueryEvents
    <2>3. answer = Given(b)
        BY <1>5, <2>2 DEF Answers, Given
    <2>4. /\ answer \subseteq asked /\ Cardinality(answer) = Len(b) /\ (answer # asked => Len(b) = q.limit)
          /\ DOMAIN b \subseteq 1..c /\ \A k \in DOMAIN b : b[k] = a[k]
          /\ Behind(b, a, c, asked \ answer)
        <3>1. IsGiven(answer, asked, b, a, c, q.limit)
            BY <1>3, <1>4, <2>1, <2>3, GivenIs
        <3> QED
            BY <3>1 DEF IsGiven
    <2>5. ASSUME NEW i \in answer, NEW j \in asked \ answer
          PROVE  log[i].at <= log[j].at
        <3>1. PICK k \in DOMAIN b : b[k] = i
            BY <2>3 DEF Given
        <3>2. PICK l \in 1..c : k < l /\ a[l] = j
            BY <2>4 DEF Behind
        <3>3. k \in 1..c /\ a[k] = i
            BY <2>4, <3>1
        <3> QED
            BY <1>3, <3>2, <3>3
    <2>6. \A k, l \in DOMAIN b : k < l => log[b[k]].at <= log[b[l]].at
        BY <1>3, <2>4
    <2> QED
        BY <1>1, <2>2, <2>4, <2>5, <2>6
<1>6. CASE ~local_dev
    <2>1. PICK found : found = {i \in DOMAIN log : q.org = Unset /\ q.app = Unset
                                    /\ q.type \in {Unset, log[i].type} /\ log[i].at > q.since}
        OBVIOUS
    <2>2. answer \subseteq found
          /\ Cardinality(answer) = IF Cardinality(found) > q.limit THEN q.limit ELSE Cardinality(found)
        BY <1>6, <2>1 DEF Answers, RunEventQuery
    <2>3. found = asked
        BY <1>1, <1>6, <2>1 DEF Asked
    <2>4. answer # asked => Cardinality(answer) = q.limit
        <3>1. answer \in SUBSET asked
            BY <2>2, <2>3
        <3>2. Cardinality(asked) = Cardinality(answer) => asked = answer
            BY <1>3, <3>1, FS_Subset
        <3> QED
            BY <2>2, <2>3, <3>2
    <2> QED
        BY <1>1, <1>6, <2>2, <2>3, <2>4
<1> QED
    BY <1>5, <1>6

----------------------------------------------------------------------------
(* Documents: DocumentStore.                                                *)

\* What a query asks to be put before what, of the rows of a list.
Order(q, rows, c) == {p \in (1..c) \X (1..c) : After(q, rows[p[2]], rows[p[1]])}

LEMMA RowsAre ==
    ASSUME DocumentInv, local_dev, NEW d \in Stored
    PROVE  d \in Doc /\ docs[d].updated \in Nat /\ \A f : Field(d, f) \in Maybe
<1>1. d \in Doc /\ docs[d] \in Row
    BY DEF DocumentInv, Stored
<1>2. docs[d].data \in Body /\ docs[d].updated \in Nat
    BY <1>1 DEF Row
<1>3. ASSUME NEW f
      PROVE  Field(d, f) \in Maybe
    <2>1. CASE f \in DOMAIN docs[d].data
        <3>1. docs[d].data[f] \in Json
            BY <1>2, <2>1 DEF Json
        <3> QED
            BY <2>1, <3>1 DEF Field, Maybe
    <2>2. CASE f \notin DOMAIN docs[d].data
        BY <2>2 DEF Field, Maybe
    <2> QED
        BY <2>1, <2>2
<1> QED
    BY <1>1, <1>2, <1>3

\* Every order of a query is one of rows: an earlier and a later row have any third one
\* after the earlier or before the later.
LEMMA AfterOrders ==
    ASSUME DocumentInv, local_dev, NEW q, NEW x \in Stored, NEW y \in Stored, NEW z \in Stored,
           After(q, y, x)
    PROVE  ~After(q, x, y) /\ (After(q, z, x) \/ After(q, y, z))
<1>1. CASE q.order = <<>>
    <2>1. docs[x].updated \in Nat /\ docs[y].updated \in Nat /\ docs[z].updated \in Nat
        BY RowsAre
    <2> QED
        BY <1>1, <2>1 DEF After
<1>2. CASE q.order # <<>>
    <2>1. PICK a, b, c : /\ a = Field(x, q.order[1].field) /\ b = Field(y, q.order[1].field)
                         /\ c = Field(z, q.order[1].field)
        OBVIOUS
    <2>2. a \in Maybe /\ b \in Maybe /\ c \in Maybe
        BY <2>1, RowsAre
    <2>3. /\ CompareValues(b, a) \in {-1, 0, 1} /\ CompareValues(b, a) = -CompareValues(a, b)
          /\ CompareValues(b, a) < 0 => CompareValues(b, c) < 0 \/ CompareValues(c, a) < 0
          /\ CompareValues(b, a) > 0 => CompareValues(b, c) > 0 \/ CompareValues(c, a) > 0
        BY <2>2, ValuesOrdered
    <2>4. CompareValues(a, b) \in {-1, 0, 1}
        BY <2>2, ValuesOrdered
    <2>5. CASE q.order[1].asc
        <3>1. /\ After(q, y, x) <=> CompareValues(b, a) > 0
              /\ After(q, x, y) <=> CompareValues(a, b) > 0
              /\ After(q, y, z) <=> CompareValues(b, c) > 0
              /\ After(q, z, x) <=> CompareValues(c, a) > 0
            BY <1>2, <2>1, <2>5 DEF After
        <3> QED
            BY <2>3, <2>4, <3>1
    <2>6. CASE ~q.order[1].asc
        <3>1. /\ After(q, y, x) <=> CompareValues(b, a) < 0
              /\ After(q, x, y) <=> CompareValues(a, b) < 0
              /\ After(q, y, z) <=> CompareValues(b, c) < 0
              /\ After(q, z, x) <=> CompareValues(c, a) < 0
            BY <1>2, <2>1, <2>6 DEF After
        <3> QED
            BY <2>3, <2>4, <3>1
    <2> QED
        BY <2>5, <2>6
<1> QED
    BY <1>1, <1>2

\* Sorted rows are the same rows, none before one that it belongs after.
LEMMA SortedIs ==
    ASSUME DocumentInv, local_dev, NEW q, NEW S, S \subseteq Stored, NEW c \in Nat,
           NEW rows, OneEach(rows, c, S)
    PROVE  /\ OneEach(Sorted(q, rows), c, S)
           /\ \A k, l \in 1..c : k < l => ~After(q, Sorted(q, rows)[k], Sorted(q, rows)[l])
<1>1. PICK W : W = Order(q, rows, c)
    OBVIOUS
<1>2. \A i, j \in 1..c : <<i, j>> \in W <=> After(q, rows[j], rows[i])
    BY <1>1 DEF Order
<1>3. \A i \in 1..c : rows[i] \in S /\ rows[i] \in Stored
    BY DEF OneEach
<1>4. WeaklyOrders(W, 1..c)
    <2>1. ASSUME NEW i \in 1..c, NEW j \in 1..c, <<i, j>> \in W
          PROVE  /\ <<j, i>> \notin W
                 /\ \A k \in 1..c : <<i, k>> \in W \/ <<k, j>> \in W
        <3>1. After(q, rows[j], rows[i])
            BY <1>2, <2>1
        <3>2. \A k \in 1..c : /\ ~After(q, rows[i], rows[j])
                              /\ After(q, rows[k], rows[i]) \/ After(q, rows[j], rows[k])
            BY <1>3, <3>1, AfterOrders
        <3> QED
            BY <1>2, <2>1, <3>2
    <2> QED
        BY <2>1 DEF WeaklyOrders
<1>5. PICK a : a = Sorted(q, rows)
    OBVIOUS
<1>6. a = AtPlaces(rows, Ordered(1..c, Stably(W, c)))
    <2>1. DOMAIN rows = 1..c
        BY DEF OneEach
    <2>2. Stably(W, c)
          = {p \in (1..c) \X (1..c) :
                \/ After(q, rows[p[2]], rows[p[1]])
                \/ (~After(q, rows[p[1]], rows[p[2]]) /\ p[1] < p[2])}
        BY <1>1 DEF Order, Stably
    <2> QED
        BY <1>5, <2>1, <2>2 DEF Sorted, StableSort, StablePlaces
<1>7. OneEach(a, c, S) /\ Arranged(a, rows, c, W)
    BY <1>4, <1>6, SortListing
<1>8. ASSUME NEW k \in 1..c, NEW l \in 1..c, k < l
      PROVE  ~After(q, a[k], a[l])
    <2>1. PICK i \in 1..c, j \in 1..c : a[k] = rows[i] /\ a[l] = rows[j] /\ <<j, i>> \notin W
        BY <1>7, <1>8 DEF Arranged
    <2> QED
        BY <1>2, <2>1
<1> QED
    BY <1>5, <1>7, <1>8

\* As many as the limit allows, the first ones.
LEMMA CutIs ==
    ASSUME NEW q \in Query, NEW S, NEW c \in Nat, NEW a, OneEach(a, c, S), IsFiniteSet(S), Cardinality(S) = c
    PROVE  /\ AsMany(q, Cut(q, a), S)
           /\ \E m \in 0..c : /\ DOMAIN Cut(q, a) = 1..m /\ \A k \in 1..m : Cut(q, a)[k] = a[k]
                              /\ Given(Cut(q, a)) = First(a, m)
<1>1. PICK b : b = Cut(q, a)
    OBVIOUS
<1>2. PICK m \in 0..c :
          /\ Len(b) = m /\ DOMAIN b = 1..m /\ \A k \in 1..m : b[k] = a[k]
          /\ m = IF q.limit # <<>> /\ c > q.limit[1] THEN q.limit[1] ELSE c
    <2>1. Len(a) = c /\ DOMAIN a = 1..c
        BY DEF OneEach
    <2>2. CASE q.limit = <<>>
        BY <1>1, <2>1, <2>2 DEF Cut
    <2>3. CASE q.limit # <<>>
        <3>1. PICK n \in Nat : n = q.limit[1]
            BY <2>3, DocumentAssumption
        <3>2. b = Truncated(a, n)
            BY <1>1, <2>3, <3>1 DEF Cut
        <3>3. PICK m : m = Allowed(n, c)
            OBVIOUS
        <3>5. PICK e : e = Truncated(a, n)
            OBVIOUS
        <3>6. Len(e) = m /\ DOMAIN e = 1..m /\ (\A k \in 1..m : e[k] = a[k]) /\ m \in 0..c
            <4>1. FirstOnes(Truncated(a, n), a, c, n)
                BY FirstOf
            <4> QED
                BY <3>3, <3>5, <4>1 DEF FirstOnes
        <3>4. Len(b) = m /\ DOMAIN b = 1..m /\ (\A k \in 1..m : b[k] = a[k]) /\ m \in 0..c
            BY <3>2, <3>5, <3>6
        <3> QED
            BY <2>3, <3>1, <3>3, <3>4 DEF Allowed
    <2> QED
        BY <2>2, <2>3
<1>3. Given(b) = First(a, m)
    <2>1. {b[i] : i \in 1..m} = {a[k] : k \in 1..m}
        BY <1>2
    <2> QED
        BY <1>2, <2>1 DEF Given, First
<1>4. Given(b) \subseteq S /\ Cardinality(Given(b)) = Len(b)
    <2>1. First(a, m) \subseteq S /\ Cardinality(First(a, m)) = m
        BY FirstIs
    <2> QED
        BY <1>2, <1>3, <2>1
<1>5. AsMany(q, b, S)
    BY <1>2, <1>4 DEF AsMany
<1> QED
    BY <1>1, <1>2, <1>3, <1>5

\* A set of documents, listed in the order of their keys.
LEMMA RowsList ==
    ASSUME NEW S, S \subseteq Doc
    PROVE  IsFiniteSet(S) /\ Cardinality(S) \in Nat /\ OneEach(Rows(S), Cardinality(S), S)
<1>1. PICK n \in Nat : Doc = 1..n
    BY DocumentAssumption
<1>2. S \in SUBSET (1..n)
    BY <1>1
<1>3. IsFiniteSet(S) /\ S \subseteq Int
    BY <1>2, PartOf
<1> QED
    BY <1>3, AscendingLists DEF Rows

LEMMA TableIs == ASSUME DocumentInv, local_dev PROVE TableAnswers
<1> SUFFICES ASSUME NEW q \in Query
             PROVE  LET rows == QueryTable(q)
                        wanted == {d \in Stored : Wanted(d, q) /\ ~PastTheEnd(DocId[d])}
                    IN  /\ AsMany(q, rows, wanted)
                        /\ \A i \in DOMAIN rows : \A d \in wanted \ {rows[j] : j \in 1..i} :
                               ~After(q, rows[i], d)
                        /\ NumbersInOrder(q, rows)
    BY DEF TableAnswers
<1>1. PICK S : S = {d \in Stored : Wanted(d, q) /\ ~PastTheEnd(DocId[d])}
    OBVIOUS
<1>2. S \subseteq Stored /\ S \subseteq Doc
    BY <1>1 DEF Stored
<1>12. S = {d \in Scanned : Wanted(d, q)}
    <2>1. \A d \in Stored : InRange(Collection, <<Collection, DocId[d]>>) <=> ~PastTheEnd(DocId[d])
        <3> TAKE d \in Stored
        <3>1. d \in Doc
            BY DEF Stored
        <3>2. Collection \in Seq(Nat) /\ DocId[d] \in Seq(Nat)
            BY <3>1, DocumentAssumption
        <3> QED
            BY <3>2, Reaching
    <2> QED
        BY <1>1, <2>1 DEF Scanned
<1>3. PICK c \in Nat : IsFiniteSet(S) /\ c = Cardinality(S) /\ OneEach(Rows(S), c, S)
    BY <1>2, RowsList
<1>4. PICK a : a = Sorted(q, Rows(S))
    OBVIOUS
<1>5. OneEach(a, c, S) /\ \A k, l \in 1..c : k < l => ~After(q, a[k], a[l])
    BY <1>2, <1>3, <1>4, SortedIs
<1>6. PICK b : b = QueryTable(q)
    OBVIOUS
<1>7. b = Cut(q, a)
    BY <1>12, <1>4, <1>6 DEF QueryTable
<1>8. AsMany(q, b, S)
    BY <1>3, <1>5, <1>7, CutIs
<1>9. PICK m \in 0..c : DOMAIN b = 1..m /\ \A k \in 1..m : b[k] = a[k]
    BY <1>3, <1>5, <1>7, CutIs
<1>10. ASSUME NEW i \in 1..m, NEW d \in S \ {b[j] : j \in 1..i}
       PROVE  ~After(q, b[i], d)
    <2>1. PICK k \in 1..c : a[k] = d
        BY <1>5 DEF OneEach
    <2>2. i < k
        <3>1. \A j \in 1..i : j \in 1..m /\ b[j] = a[j]
            BY <1>9, <1>10
        <3>2. k \notin 1..i
            BY <1>10, <2>1, <3>1
        <3> QED
            BY <1>10, <3>2
    <2>3. i \in 1..c /\ b[i] = a[i]
        BY <1>9, <1>10
    <2> QED
        BY <1>5, <2>1, <2>2, <2>3
<1>11. NumbersInOrder(q, b)
    <2> SUFFICES ASSUME q.order # <<>>, NEW i \in DOMAIN b, NEW j \in DOMAIN b, i < j,
                        NEW x, x = Field(b[i], q.order[1].field), x # <<>>, x[1].t = "num",
                        NEW y, y = Field(b[j], q.order[1].field), y # <<>>, y[1].t = "num"
                 PROVE  IF q.order[1].asc THEN x[1].v <= y[1].v ELSE x[1].v >= y[1].v
        BY DEF NumbersInOrder
    <2>1. i \in 1..c /\ j \in 1..c /\ b[i] = a[i] /\ b[j] = a[j]
        BY <1>9
    <2>2. ~After(q, b[i], b[j]) /\ b[i] \in Stored /\ b[j] \in Stored
        BY <1>2, <1>5, <2>1 DEF OneEach
    <2>3. x \in Maybe /\ y \in Maybe
        BY <2>2, RowsAre
    <2>4. x[1] \in Json /\ y[1] \in Json
        BY <2>3 DEF Maybe
    <2>5. x[1].v \in Int /\ y[1].v \in Int
        BY <2>4, JsonAssumption
    <2>6. CompareValues(x, y) = Sign(x[1].v, y[1].v)
        BY DEF CompareValues, Compared
    <2>7. IF q.order[1].asc THEN ~(CompareValues(x, y) > 0) ELSE ~(CompareValues(x, y) < 0)
        BY <2>2 DEF After
    <2> QED
        BY <2>5, <2>6, <2>7 DEF Sign
<1> QED
    BY <1>1, <1>6, <1>8, <1>9, <1>10, <1>11

\* Firestore selects what is wanted if that is one equality, of a value that it keeps.
LEMMA FirestoreIs == FirestoreAnswers
<1> SUFFICES ASSUME NEW q \in Query, q.after = <<>>,
                    q.filter # <<>> => q.filter[1].op = "eq" /\ Kept(q.filter[1].value) = q.filter[1].value
             PROVE  AsMany(q, RunQuery(q), {d \in Stored : Wanted(d, q)})
    BY DEF FirestoreAnswers
<1>1. PICK S : S = {d \in Stored : Selected(d, q)}
    OBVIOUS
<1>2. S \subseteq Doc
    BY <1>1 DEF Stored
<1>3. ASSUME NEW d \in Stored
      PROVE  Selected(d, q) <=> Wanted(d, q)
    <2>1. CASE q.filter = <<>>
        BY <2>1 DEF Selected, Wanted
    <2>2. CASE q.filter # <<>>
        <3>1. PICK f : f = q.filter[1]
            OBVIOUS
        <3>2. PICK value : value = Field(d, f.field)
            OBVIOUS
        <3>3. Applies(d, f) <=> value # <<>> /\ Same(value[1], f.value)
            BY <2>2, <3>1, <3>2 DEF Applies, Holds
        <3>4. Selected(d, q) <=> \E x \in Given(value) : Same(x, f.value)
            BY <2>2, <3>1, <3>2 DEF Selected
        <3>5. Given(value) = IF value = <<>> THEN {} ELSE {value[1]}
            <4>1. value = <<>> \/ \E x : value = <<x>>
                BY <3>2 DEF Field
            <4>2. CASE value = <<>>
                BY <4>2 DEF Given
            <4>3. CASE \E x : value = <<x>>
                <5>1. PICK x : value = <<x>>
                    BY <4>3
                <5>2. DOMAIN value = {1} /\ value[1] = x /\ value # <<>>
                    BY <5>1
                <5> QED
                    BY <5>2 DEF Given
            <4> QED
                BY <4>1, <4>2, <4>3
        <3>6. Wanted(d, q) <=> Applies(d, f)
            BY <2>2, <3>1 DEF Wanted
        <3> QED
            BY <3>3, <3>4, <3>5, <3>6
    <2> QED
        BY <2>1, <2>2
<1>4. S = {d \in Stored : Wanted(d, q)}
    BY <1>1, <1>3
<1>5. RunQuery(q) = Cut(q, Rows(S))
    BY <1>1 DEF RunQuery
<1> QED
    BY <1>2, <1>4, <1>5, RowsList, CutIs

----------------------------------------------------------------------------
(* Vectors: VectorStore.                                                    *)

\* The vectors of a namespace that its range reaches, in the order of keys.
LEMMA ScanIs ==
    ASSUME VectorInv, NEW ns \in Namespace,
           NEW S, S = {key \in Held : key[1] = ns /\ ~PastTheEnd(key[2])}
    PROVE  /\ Cardinality(S) \in Nat /\ OneEach(Scan(ns), Cardinality(S), S)
           /\ \A key \in S : table[key] \in {<<t>> : t \in Text \ {Blank}}
<1>1. Namespace \subseteq Seq(Nat) /\ Id \subseteq Seq(Nat) /\ IsFiniteSet(Namespace) /\ IsFiniteSet(Id)
    BY VectorAssumption
<1>2. \A key \in Namespace \X Id : /\ key[1] \in Namespace /\ key[2] \in Id /\ key = <<key[1], key[2]>>
                                    /\ key[1] \in Seq(Nat) /\ key[2] \in Seq(Nat)
    BY <1>1
<1>3. S \in SUBSET (Namespace \X Id)
    BY DEF Held
<1>4. IsFiniteSet(S)
    <2>1. IsFiniteSet(Namespace \X Id)
        BY <1>1, FS_Product
    <2> QED
        BY <1>3, <2>1, FS_Subset
<1>5. S = {key \in Held : InRange(ns, key) /\ key[1] = ns}
    <2>1. ASSUME NEW key \in Held, key[1] = ns
          PROVE  InRange(ns, key) <=> ~PastTheEnd(key[2])
        <3>1. key \in Namespace \X Id
            BY DEF Held
        <3>2. key = <<ns, key[2]>> /\ ns \in Seq(Nat) /\ key[2] \in Seq(Nat)
            BY <1>2, <2>1, <3>1
        <3> QED
            BY <3>2, Reaching
    <2> QED
        BY <2>1
<1>6. PICK R : R = {p \in S \X S : KeyBefore(p[1], p[2])}
    OBVIOUS
<1>7. Scan(ns) = Ordered(S, R)
    BY <1>5, <1>6 DEF Scan, InKeyOrder
<1>8. Orders(R, S)
    <2>1. \A k, l \in S : <<k, l>> \in R <=> KeyBefore(k, l)
        BY <1>6
    <2>2. \A k \in S : k[1] \in Seq(Nat) /\ k[2] \in Seq(Nat) /\ k = <<k[1], k[2]>>
        BY <1>2, <1>3
    <2> QED
        BY <2>1, <2>2, KeysOrdered
<1>9. \A key \in S : table[key] \in {<<t>> : t \in Text \ {Blank}}
    BY <1>3 DEF VectorInv, Held
<1> QED
    BY <1>4, <1>7, <1>8, <1>9, OrderedLists

\* What was scanned, the best first.
LEMMA BestFirstIs ==
    ASSUME VectorInv, NEW S, NEW c \in Nat, NEW rows, OneEach(rows, c, S),
           \A key \in S : table[key] \in {<<t>> : t \in Text \ {Blank}}, NEW query \in Text \ {Blank},
           NEW a, a = BestFirst(query, rows)
    PROVE  /\ OneEach(a, c, S)
           /\ \A k, l \in 1..c : k < l => ScoreOf(query, a[k]) >= ScoreOf(query, a[l])
<1>1. DOMAIN rows = 1..c /\ \A i \in 1..c : rows[i] \in S
    BY DEF OneEach
<1>2. \A key \in S : ScoreOf(query, key) \in Int
    <2> TAKE key \in S
    <2>1. PICK t \in Text \ {Blank} : table[key] = <<t>>
        OBVIOUS
    <2>2. PICK v : v = table[key]
        OBVIOUS
    <2>3. v[1] = t
        <3>1. v = <<t>>
            BY <2>1, <2>2
        <3> QED
            BY <3>1
    <2>4. ScoreOf(query, key) = Score[query][t]
        BY <2>2, <2>3, Zenon DEF ScoreOf
    <2> QED
        BY <2>4, VectorAssumption
<1>9. PICK f : f = [i \in 1..c |-> ScoreOf(query, rows[i])]
    OBVIOUS
<1>10. f \in [1..c -> Int] /\ \A i \in 1..c : ScoreOf(query, rows[i]) = f[i]
    BY <1>1, <1>2, <1>9
<1>3. PICK W : W = {p \in (1..c) \X (1..c) : ScoreOf(query, rows[p[1]]) > ScoreOf(query, rows[p[2]])}
    OBVIOUS
<1>4. \A i, j \in 1..c : <<i, j>> \in W <=> ScoreOf(query, rows[i]) > ScoreOf(query, rows[j])
    BY <1>3
<1>5. WeaklyOrders(W, 1..c)
    <2>1. \A i, j \in 1..c : <<i, j>> \in W <=> f[i] > f[j]
        BY <1>4, <1>10
    <2> QED
        BY <1>10, <2>1 DEF WeaklyOrders
<1>6. a = AtPlaces(rows, Ordered(1..c, Stably(W, c)))
    <2>1. Stably(W, c)
          = {p \in (1..c) \X (1..c) :
                \/ ScoreOf(query, rows[p[1]]) > ScoreOf(query, rows[p[2]])
                \/ (~(ScoreOf(query, rows[p[2]]) > ScoreOf(query, rows[p[1]])) /\ p[1] < p[2])}
        BY <1>3 DEF Stably
    <2> QED
        BY <1>1, <2>1 DEF BestFirst, StableSort, StablePlaces
<1>7. OneEach(a, c, S) /\ Arranged(a, rows, c, W)
    BY <1>5, <1>6, SortListing
<1>8. ASSUME NEW k \in 1..c, NEW l \in 1..c, k < l
      PROVE  ScoreOf(query, a[k]) >= ScoreOf(query, a[l])
    <2>1. PICK i \in 1..c, j \in 1..c : a[k] = rows[i] /\ a[l] = rows[j] /\ <<j, i>> \notin W
        BY <1>7, <1>8 DEF Arranged
    <2>2. ~(f[j] > f[i]) /\ f[i] \in Int /\ f[j] \in Int
        BY <1>4, <1>10, <2>1
    <2>3. ScoreOf(query, a[k]) = f[i] /\ ScoreOf(query, a[l]) = f[j]
        BY <1>10, <2>1
    <2> QED
        BY <2>2, <2>3
<1> QED
    BY <1>7, <1>8

LEMMA VectorsAre == ASSUME VectorInv PROVE SearchesNamespace
<1> SUFFICES ASSUME NEW ns \in Namespace, NEW query \in Text \ {Blank}, NEW n \in 1..Cardinality(Id)
             PROVE  LET best == Search(ns, query, n)
                        wanted == {key \in Held : key[1] = ns /\ ~PastTheEnd(key[2])}
                        given == {best[k] : k \in DOMAIN best}
                    IN  /\ given \subseteq wanted /\ Cardinality(given) = Len(best)
                        /\ given # wanted => Len(best) = n
                        /\ \A k, l \in DOMAIN best :
                               k < l => ScoreOf(query, best[k]) >= ScoreOf(query, best[l])
                        /\ \A k \in DOMAIN best, key \in wanted \ given :
                               ScoreOf(query, best[k]) >= ScoreOf(query, key)
    BY DEF SearchesNamespace
<1>1. PICK S : S = {key \in Held : key[1] = ns /\ ~PastTheEnd(key[2])}
    OBVIOUS
<1>2. PICK c \in Nat : /\ OneEach(Scan(ns), c, S)
                       /\ \A key \in S : table[key] \in {<<t>> : t \in Text \ {Blank}}
    BY <1>1, ScanIs
<1>3. PICK a : a = BestFirst(query, Scan(ns))
    OBVIOUS
<1>4. OneEach(a, c, S) /\ \A k, l \in 1..c : k < l => ScoreOf(query, a[k]) >= ScoreOf(query, a[l])
    BY <1>2, <1>3, BestFirstIs
<1>5. PICK b : b = Search(ns, query, n)
    OBVIOUS
<1>6. b = Truncated(a, n)
    BY <1>3, <1>5 DEF Search
<1>7. PICK given : given = Given(b)
    OBVIOUS
<1>8. /\ given \subseteq S /\ Cardinality(given) = Len(b) /\ (given # S => Len(b) = n)
      /\ DOMAIN b \subseteq 1..c /\ \A k \in DOMAIN b : b[k] = a[k]
      /\ Behind(b, a, c, S \ given)
    <2>1. n \in Nat
        <3>1. Cardinality(Id) \in Nat
            BY VectorAssumption, FS_CardinalityType
        <3> QED
            BY <3>1
    <2>2. IsGiven(given, S, b, a, c, n)
        BY <1>4, <1>6, <1>7, <2>1, GivenIs
    <2> QED
        BY <2>2 DEF IsGiven
<1>9. \A k, l \in DOMAIN b : k < l => ScoreOf(query, b[k]) >= ScoreOf(query, b[l])
    BY <1>4, <1>8
<1>10. ASSUME NEW k \in DOMAIN b, NEW key \in S \ given
       PROVE  ScoreOf(query, b[k]) >= ScoreOf(query, key)
    <2>1. PICK l \in 1..c : k < l /\ a[l] = key
        BY <1>8 DEF Behind
    <2> QED
        BY <1>4, <1>8, <2>1
<1>11. given = {b[k] : k \in DOMAIN b}
    BY <1>7 DEF Given
<1> QED
    BY <1>1, <1>5, <1>8, <1>9, <1>10, <1>11

----------------------------------------------------------------------------
(* The stores of a host keep what they hold typed.                          *)

LEMMA RestKeeps ==
    ASSUME VectorInv, NEW l \in Loader, batch[l] # NoBatch, Rest(l)
    PROVE  batch' \in [Loader -> {NoBatch} \cup Batch]
<1>1. PICK b : b = batch[l]
    OBVIOUS
<1>2. b.ns \in Namespace /\ b.items \in Seq(Item) /\ b.items # <<>>
    BY <1>1 DEF VectorInv, Batch
<1>3. PICK rest : rest = Tail(b.items)
    OBVIOUS
<1>4. rest \in Seq(Item)
    BY <1>2, <1>3
<1>5. PICK n : n = IF rest = <<>> THEN NoBatch ELSE [ns |-> b.ns, items |-> rest]
    OBVIOUS
<1>6. n \in {NoBatch} \cup Batch
    BY <1>2, <1>4, <1>5 DEF Batch
<1>7. batch' = [batch EXCEPT ![l] = n]
    BY <1>1, <1>3, <1>5 DEF Rest
<1> QED
    BY <1>6, <1>7 DEF VectorInv

LEMMA VectorKeeps ==
    ASSUME VectorInv, NEW r \in Loader, VectorCall(r)
    PROVE  VectorInv'
<1>1. ASSUME NEW ns \in Namespace, NEW items \in Batches, Embed(r, ns, items)
      PROVE  VectorInv'
    <2>1. PICK E : E = [id : Id, text : Text]
        OBVIOUS
    <2>2. items \in Seq(E) /\ items # <<>>
        BY <1>1, <2>1, VectorAssumption
    <2>3. items \in Seq(Item) /\ items # <<>>
        <3>1. PICK n \in Nat : items \in [1..n -> E] /\ n = Len(items)
            BY <2>2
        <3>2. \A i \in 1..n : items[i] \in Item
            BY <1>1, <2>1, <3>1 DEF Embed, Embeddable, Item
        <3>3. items \in [1..n -> Item]
            BY <3>1, <3>2
        <3> QED
            BY <2>2, <3>1, <3>3
    <2>4. [ns |-> ns, items |-> items] \in Batch
        BY <2>3 DEF Batch
    <2> QED
        BY <1>1, <2>4 DEF Embed, VectorInv
<1>2. CASE UpsertFails(r)
    BY <1>2 DEF UpsertFails, VectorInv
<1>3. CASE Upsert(r)
    <2>1. batch[r] \in Batch
        BY <1>3 DEF Upsert, VectorInv
    <2>2. PICK item : item = Head(batch[r].items)
        OBVIOUS
    <2>3. item \in Item
        <3>1. batch[r].items \in Seq(Item) /\ batch[r].items # <<>>
            BY <2>1 DEF Batch
        <3> QED
            BY <2>2, <3>1
    <2>4. table' = [table EXCEPT ![<<batch[r].ns, item.id>>] = <<item.text>>]
        BY <1>3, <2>2 DEF Upsert
    <2>5. table' \in [Namespace \X Id -> {NoVector} \cup {<<t>> : t \in Text \ {Blank}}]
        <3>1. <<item.text>> \in {<<t>> : t \in Text \ {Blank}}
            BY <2>3 DEF Item
        <3> QED
            BY <2>4, <3>1 DEF VectorInv
    <2>6. batch' \in [Loader -> {NoBatch} \cup Batch]
        BY <1>3, RestKeeps DEF Upsert
    <2> QED
        BY <2>5, <2>6 DEF VectorInv
<1>4. CASE UpsertDatapoint(r)
    <2>1. CASE Rest(r)
        <3>1. batch' \in [Loader -> {NoBatch} \cup Batch]
            BY <1>4, <2>1, RestKeeps DEF UpsertDatapoint
        <3> QED
            BY <1>4, <3>1 DEF UpsertDatapoint, VectorInv
    <2>2. CASE batch' = [batch EXCEPT ![r] = NoBatch]
        BY <1>4, <2>2 DEF UpsertDatapoint, VectorInv
    <2> QED
        BY <1>4, <2>1, <2>2 DEF UpsertDatapoint
<1>5. ASSUME NEW ns \in Namespace, NEW i \in Id, Remove(ns, i)
      PROVE  VectorInv'
    BY <1>5 DEF Remove, VectorInv
<1>6. ASSUME NEW i \in Id, RemoveDatapoint(i)
      PROVE  VectorInv'
    BY <1>6 DEF RemoveDatapoint, VectorInv
<1> QED
    BY <1>1, <1>2, <1>3, <1>4, <1>5, <1>6 DEF VectorCall

\* Only a local host has rows; what Firestore keeps of a number is not what was put.
LEMMA DocumentKeeps ==
    ASSUME DocumentInv, DocumentCall, local_dev' = local_dev
    PROVE  DocumentInv'
<1>1. CASE ~local_dev
    BY <1>1 DEF DocumentInv
<1>2. CASE local_dev
    <2>1. docs \in [Doc -> {NoDoc} \cup Row] /\ writes \in Nat
        BY <1>2 DEF DocumentInv
    <2>2. ASSUME NEW d \in Doc, DeleteRow(d)
          PROVE  DocumentInv'
        BY <2>1, <2>2 DEF DeleteRow, DocumentInv
    <2>3. ASSUME NEW p \in Puts, NEW d, NEW body, d = p[1], body = p[2], PutRow(d, body)
          PROVE  DocumentInv'
        <3>5. d \in Doc /\ body \in Body
            <4>1. p \in Doc \X Body
                BY DocumentAssumption
            <4> QED
                BY <2>3, <4>1
        <3>1. PICK row : row = Stamped(d, body)
            OBVIOUS
        <3>2. docs[d] # NoDoc => docs[d].created \in Nat
            BY <2>1, <3>5 DEF Row
        <3>3. row \in Row
            BY <2>1, <3>1, <3>2, <3>5 DEF Stamped, Row
        <3>4. docs' = [docs EXCEPT ![d] = row] /\ writes' = writes + 1
            BY <2>3, <3>1 DEF PutRow
        <3> QED
            BY <2>1, <3>3, <3>4, <3>5 DEF DocumentInv
    <2> QED
        BY <1>2, <2>2, <2>3 DEF DocumentCall
<1> QED
    BY <1>1, <1>2

LEMMA EventKeeps == ASSUME EventInv, EventCall PROVE EventInv'
<1>1. PICK org \in Org \cup {Unset}, claim \in Org \cup {Unset}, app \in App, type \in Type :
          AppendEvent(org, claim, app, type, local_dev)
    BY DEF EventCall
<1>2. PICK name : name = IF org # Unset THEN org ELSE IF claim # Unset THEN claim ELSE ""
    OBVIOUS
<1>3. name \in Org \cup {""}
    BY <1>2
<1>4. CASE log' = log
    BY <1>4 DEF EventInv
<1>5. ASSUME NEW id \in 1..MaxEvents \ {log[i].id : i \in DOMAIN log}, NEW at \in 1..MaxEvents,
             log' = Append(log, [id |-> id, at |-> at, org |-> name, app |-> app, type |-> type])
      PROVE  EventInv'
    <2>1. PICK e : e = [id |-> id, at |-> at, org |-> name, app |-> app, type |-> type]
        OBVIOUS
    <2>2. e \in Event /\ e.id = id
        <3>1. MaxEvents \in Nat
            BY EventLogAssumption
        <3>2. id \in Nat /\ at \in Nat
            BY <3>1
        <3> QED
            BY <1>3, <2>1, <3>2 DEF Event
    <2>3. PICK E : E = Event
        OBVIOUS
    <2>4. log \in Seq(E) /\ e \in E /\ log' = Append(log, e)
        BY <1>5, <2>1, <2>2, <2>3 DEF EventInv
    <2>5. log' \in Seq(E)
        BY <2>4
    <2>6. \A i \in DOMAIN log : log[i].id # id
        OBVIOUS
    <2>7. \A i \in DOMAIN log' : \/ i \in DOMAIN log /\ log'[i] = log[i]
                                 \/ i = Len(log) + 1 /\ log'[i] = e
        BY <2>4
    <2>8. \A i, j \in DOMAIN log' : i # j => log'[i].id # log'[j].id
        BY <2>2, <2>6, <2>7 DEF EventInv
    <2> QED
        BY <2>3, <2>5, <2>8 DEF EventInv
<1> QED
    BY <1>1, <1>2, <1>4, <1>5 DEF AppendEvent

HeldInv == local_dev \in BOOLEAN /\ VectorInv /\ DocumentInv /\ EventInv

LEMMA HostHolds == HostInit => HeldInv
<1> SUFFICES ASSUME HostInit
             PROVE  HeldInv
    OBVIOUS
<1>1. VectorInv
    BY DEF HostInit, VectorInit, VectorInv
<1>2. DocumentInv
    BY DEF HostInit, DocumentInit, DocumentInv
<1>3. EventInv
    BY DEF HostInit, NoEvents, EventInv
<1> QED
    BY <1>1, <1>2, <1>3 DEF HostInit, HeldInv

LEMMA HostKeepsHolding == HeldInv /\ [HostNext]_hostVars => HeldInv'
<1> SUFFICES ASSUME HeldInv, [HostNext]_hostVars
             PROVE  HeldInv'
    OBVIOUS
<1>1. local_dev' = local_dev /\ VectorInv /\ DocumentInv /\ EventInv /\ local_dev \in BOOLEAN
    BY DEF HeldInv, HostNext, hostVars
<1>2. UNCHANGED vectorVars => VectorInv'
    BY <1>1 DEF vectorVars, VectorInv
<1>3. UNCHANGED documentVars => DocumentInv'
    BY <1>1 DEF documentVars, DocumentInv
<1>4. UNCHANGED log => EventInv'
    BY <1>1 DEF EventInv
<1>5. ASSUME NEW r \in Request, Handle(r)
      PROVE  HeldInv'
    <2>1. CASE ObjectCall(r) /\ UNCHANGED <<vectorVars, documentVars, log>>
        BY <1>1, <1>2, <1>3, <1>4, <2>1 DEF HeldInv
    <2>2. CASE VectorCall(r) /\ UNCHANGED <<objectVars, documentVars, log>>
        <3>1. r \in Loader
            BY HostAssumption
        <3>2. VectorInv'
            BY <1>1, <2>2, <3>1, VectorKeeps
        <3> QED
            BY <1>1, <1>3, <1>4, <2>2, <3>2 DEF HeldInv
    <2>3. CASE DocumentCall /\ UNCHANGED <<objectVars, vectorVars, log>>
        <3>1. DocumentInv'
            BY <1>1, <2>3, DocumentKeeps
        <3> QED
            BY <1>1, <1>2, <1>4, <2>3, <3>1 DEF HeldInv
    <2>4. CASE EventCall /\ UNCHANGED <<objectVars, vectorVars, documentVars>>
        <3>1. EventInv'
            BY <1>1, <2>4, EventKeeps
        <3> QED
            BY <1>1, <1>2, <1>3, <2>4, <3>1 DEF HeldInv
    <2> QED
        BY <1>5, <2>1, <2>2, <2>3, <2>4 DEF Handle
<1>6. CASE Crash
    <2>1. VectorInv'
        BY <1>1, <1>6 DEF Crash, VectorInv
    <2>2. UNCHANGED documentVars /\ UNCHANGED log
        BY <1>6 DEF Crash
    <2> QED
        BY <1>1, <1>3, <1>4, <2>1, <2>2 DEF HeldInv
<1>7. CASE UNCHANGED <<vectorVars, documentVars, log>>
    BY <1>1, <1>2, <1>3, <1>4, <1>7 DEF HeldInv
<1> QED
    BY <1>5, <1>6, <1>7 DEF HostNext, hostVars, storeVars, Outside

\* "Total order over serde_json::Value" (local/document.rs:238), "A namespace named foo will
\* not bleed into foo-bar" (local/vector.rs:95): for any names, ids, documents, values, vectors
\* and events.  Of a table, rows that are scanned in the order of keys or ids, sorted and cut
\* come as the best vectors of their own namespace, the first documents in one order of all
\* kinds of values, the oldest events; of keys the range misses only those whose id begins
\* with the last character and goes on.  Firestore answers one equality with all that equals.
THEOREM RequestsAreAnswered == HostSpec => []StoresAnswer
<1>1. HeldInv => StoresAnswer
    BY VectorsAre, TableIs, FirestoreIs, EventsAre DEF HeldInv, StoresAnswer
<1> QED
    BY <1>1, HostHolds, HostKeepsHolding, PTL DEF HostSpec
=============================================================================

------------------------------ MODULE TokenGate ------------------------------
(***************************************************************************)
(* The authentication of an HTTP request: the key named by the token comes *)
(* from a cached JWKS document, the verification of a token is cached, and *)
(* Redis is asked whether the token or its user's sessions were revoked.   *)
(*                                                                         *)
(* Three memories with different lives meet here, and every request yields *)
(* between looking at one and at the next: it may fetch a JWKS document    *)
(* while others do, and store it after a newer one.  Time is one clock; of *)
(* a retried fetch the model keeps the attempt that counts, which lasts at *)
(* most FetchTime from the server's answer to the client's store.          *)
(***************************************************************************)
EXTENDS Integers, FiniteSets, SequencesExt

CONSTANTS
    Requests,   \* requests in progress
    Tokens,     \* access tokens: [id, kid, iat, exp, genuine]; an iat or an exp
                \* of 0 is one the token does not have
    Kids,       \* key ids of the issuer
    JwksTtl,    \* jwksCacheTtlMs
    FetchTime,  \* the timeout of one fetch
    TokenTtl,   \* MAX_TOKEN_CACHE_TTL_MS
    SessionTtl, \* DEFAULT_TTL_SECONDS
    CacheSize,  \* MAX_TOKEN_CACHE_SIZE
    MaxTime,    \* bound: the end of the clock
    MaxRevokes, \* bound: revocations
    MaxFaults   \* bound: fetches and Redis calls that fail

ASSUME TokenConstantsOK ==
    /\ Tokens \subseteq [id : Nat, kid : Kids, iat : Nat, exp : Nat, genuine : BOOLEAN]
    /\ Tokens # {} /\ Kids # {}
    /\ {JwksTtl, TokenTtl, SessionTtl, CacheSize} \subseteq Nat \ {0}
    /\ FetchTime \in Nat /\ MaxTime \in Nat /\ MaxRevokes \in Nat /\ MaxFaults \in Nat

VARIABLES
    now,
    published, \* key ids in the issuer's JWKS document
    gone,      \* when a key was withdrawn (-1: it was not)
    jwks,      \* the client's cache: key ids and the end of their life
    verified,  \* tokenVerificationCache, in the order of insertion
    blocked,   \* when a token's entry in the blocklist ends (-1: no entry)
    session,   \* the user's sessions: revoked at, entry kept until
    req,       \* what a request is doing
    revokes, faults

issuer == <<published, gone>>
memory == <<jwks, verified>>
redis  == <<blocked, session, revokes>>
vars == <<now, issuer, memory, redis, req, faults>>

AnyToken == CHOOSE t \in Tokens : TRUE
\* start, known, there and lapse are for the properties: when the request
\* came, up to when its token was revoked and whether its key was published
\* at that time, and whether a call it made has failed.
NoRequest == [pc |-> "idle", token |-> AnyToken, doc |-> {}, served |-> -1,
              start |-> 0, known |-> -1, there |-> FALSE, lapse |-> FALSE]

Init ==
    /\ now = 0
    /\ published \in SUBSET Kids \ {{}} /\ gone = [k \in Kids |-> -1]
    /\ jwks = [keys |-> {}, until |-> 0] /\ verified = <<>>
    /\ blocked = [t \in Tokens |-> -1] /\ session = [at |-> 0, until |-> -1]
    /\ req = [r \in Requests |-> NoRequest]
    /\ revokes = 0 /\ faults = 0

-----------------------------------------------------------------------------
(* The clock, the issuer and the revocations.                               *)

Tick ==
    /\ now < MaxTime /\ now' = now + 1
    /\ UNCHANGED <<issuer, memory, redis, req, faults>>

Publish(k) ==
    /\ k \notin published /\ gone[k] = -1
    /\ published' = published \cup {k}
    /\ UNCHANGED <<now, gone, memory, redis, req, faults>>

Withdraw(k) ==
    /\ k \in published /\ published # {k}
    /\ published' = published \ {k}
    /\ gone' = [gone EXCEPT ![k] = now]
    /\ UNCHANGED <<now, memory, redis, req, faults>>

Revoke == revokes < MaxRevokes /\ revokes' = revokes + 1

\* revokeToken: the entry lives as long as the token.  (One that Redis
\* refuses is only logged, and revokes nothing.)
RevokeToken(t) ==
    /\ t.iat <= now /\ Revoke
    /\ blocked' = [blocked EXCEPT ![t] = IF t.exp > now THEN t.exp ELSE now + SessionTtl]
    /\ UNCHANGED <<now, issuer, memory, session, req, faults>>

\* revokeUserSessions: of every token issued before now.
RevokeSessions ==
    /\ Revoke
    /\ session' = [at |-> now, until |-> now + SessionTtl]
    /\ UNCHANGED <<now, issuer, memory, blocked, req, faults>>

\* What Redis knows for certain; in the last second of an entry it may be
\* there or not.
Blocklisted(t) == now < blocked[t]
\* The sessions' revocation concerns a token that says when it was issued.
Predates(t)    == t.iat # 0 /\ t.iat < session.at
OldSession(t)  == Predates(t) /\ now < session.until
RevokedUntil(t) ==
    IF OldSession(t) /\ session.until > blocked[t] THEN session.until ELSE blocked[t]

-----------------------------------------------------------------------------
(* JwksClient.                                                              *)

Arrive(r, t) ==
    /\ req[r].pc = "idle" /\ t.iat <= now
    /\ req' = [req EXCEPT ![r] =
                 [pc |-> "pem", token |-> t, doc |-> {}, served |-> -1, start |-> now,
                  known |-> RevokedUntil(t), there |-> t.kid \in published, lapse |-> FALSE]]
    /\ UNCHANGED <<now, issuer, memory, redis, faults>>

Kid(r)    == req[r].token.kid
To(r, pc) == req' = [req EXCEPT ![r].pc = pc]

\* Mutation: a document is used beyond its life.
PemStale(r) ==
    /\ req[r].pc = "pem"
    /\ To(r, IF Kid(r) \in jwks.keys THEN "token" ELSE IF now < jwks.until THEN "refresh" ELSE "load")
    /\ UNCHANGED <<now, issuer, memory, redis, faults>>

\* getPublicKeyPem: a live document that lacks the key is fetched again.
Pem(r) ==
    /\ req[r].pc = "pem"
    /\ \/ now < jwks.until /\ Kid(r) \in jwks.keys /\ To(r, "token")
       \/ now < jwks.until /\ Kid(r) \notin jwks.keys /\ To(r, "refresh")
       \/ now >= jwks.until /\ To(r, "load")
    /\ UNCHANGED <<now, issuer, memory, redis, faults>>

Fetching(r) == req[r].pc \in {"load", "refresh"}

\* The issuer answers.
Serve(r) ==
    /\ Fetching(r) /\ req[r].served = -1
    /\ req' = [req EXCEPT ![r].doc = published, ![r].served = now]
    /\ UNCHANGED <<now, issuer, memory, redis, faults>>

Fetched(r, pc) == req' = [req EXCEPT ![r].pc = pc, ![r].doc = {}, ![r].served = -1]

\* Mutation: a document another request has stored meanwhile is used instead.
StoreFirst(r) ==
    /\ Fetching(r) /\ req[r].served >= 0 /\ now <= req[r].served + FetchTime
    /\ LET keys == IF now < jwks.until THEN jwks.keys ELSE req[r].doc IN
       /\ jwks' = IF now < jwks.until THEN jwks ELSE [keys |-> keys, until |-> now + JwksTtl]
       /\ Fetched(r, IF Kid(r) \in keys THEN "token" ELSE "refused")
    /\ UNCHANGED <<now, issuer, verified, redis, faults>>

\* fetchAndCache: the document is stored, whatever others have stored since,
\* and the key is looked up in it; a document loaded for want of a live one
\* is fetched a second time before the key is given up.
Store(r) ==
    /\ Fetching(r) /\ req[r].served >= 0 /\ now <= req[r].served + FetchTime
    /\ jwks' = [keys |-> req[r].doc, until |-> now + JwksTtl]
    /\ \/ Kid(r) \in req[r].doc /\ Fetched(r, "token")
       \/ Kid(r) \notin req[r].doc /\ req[r].pc = "load" /\ Fetched(r, "refresh")
       \/ Kid(r) \notin req[r].doc /\ req[r].pc = "refresh" /\ Fetched(r, "refused")
    /\ UNCHANGED <<now, issuer, verified, redis, faults>>

FetchLost(r) ==
    req' = [req EXCEPT ![r].pc = "refused", ![r].lapse = TRUE,
                       ![r].doc = {}, ![r].served = -1]

\* A time-out, of the answer or of its body, is not one of the errors that are
\* tried again.
FetchTimesOut(r) ==
    /\ Fetching(r) /\ req[r].served >= 0 /\ now > req[r].served + FetchTime
    /\ FetchLost(r)
    /\ UNCHANGED <<now, issuer, memory, redis, faults>>

Fault == faults < MaxFaults /\ faults' = faults + 1

\* The third attempt fails too, or the body is not a document with a key.
FetchFails(r) ==
    /\ Fetching(r) /\ Fault
    /\ FetchLost(r)
    /\ UNCHANGED <<now, issuer, memory, redis>>

-----------------------------------------------------------------------------
(* verifyRs256.                                                             *)

Expired(t)    == t.exp # 0 /\ t.exp < now
Entries(t)    == {i \in DOMAIN verified : verified[i].token = t}
\* There is one entry for a token, as the token is its key.
Without(seq, t) ==
    IF \E i \in DOMAIN seq : seq[i].token = t
      THEN RemoveAt(seq, CHOOSE i \in DOMAIN seq : seq[i].token = t)
      ELSE seq

\* Mutation: a cached verification is the end of the matter.
TokenTrusted(r) == LET t == req[r].token IN
    /\ req[r].pc = "token"
    /\ To(r, IF Entries(t) # {} THEN "admitted" ELSE IF Expired(t) THEN "refused" ELSE "sign")
    /\ UNCHANGED <<now, issuer, memory, redis, faults>>

\* getCachedVerifiedPayload, else the claims.
Token(r) == LET t == req[r].token IN
    /\ req[r].pc = "token"
    /\ \/ /\ \E i \in Entries(t) : now <= verified[i].until
          /\ To(r, "blocklist") /\ UNCHANGED verified
       \/ /\ \A i \in Entries(t) : now > verified[i].until
          /\ verified' = Without(verified, t)
          /\ To(r, IF Expired(t) THEN "refused" ELSE "sign")
    /\ UNCHANGED <<now, issuer, jwks, redis, faults>>

\* Mutation: nothing makes room.
KeptAll(seq) == seq

\* setCachedVerifiedPayload: a full cache loses its oldest entry; an entry
\* that is there is renewed in its place.
Kept(seq) == IF Len(seq) >= CacheSize THEN Tail(seq) ELSE seq
Put(seq, e) ==
    IF \E i \in DOMAIN seq : seq[i].token = e.token
      THEN [i \in DOMAIN seq |-> IF seq[i].token = e.token THEN e ELSE seq[i]]
      ELSE Append(seq, e)
Life(t) == IF t.exp - now < TokenTtl THEN t.exp - now ELSE TokenTtl

\* Mutation: the signature is checked after the verification is remembered.
SignLate(r) == LET t == req[r].token  e == [token |-> t, until |-> now + Life(t)] IN
    /\ req[r].pc = "sign"
    /\ verified' = IF Life(t) > 0 THEN Put(Kept(verified), e) ELSE Kept(verified)
    /\ To(r, IF t.genuine THEN "blocklist" ELSE "refused")
    /\ UNCHANGED <<now, issuer, jwks, redis, faults>>

\* The signature has been checked; its result is remembered for a minute at
\* most, and no longer than the token lives: not at all if it has no exp.
Sign(r) == LET t == req[r].token  e == [token |-> t, until |-> now + Life(t)] IN
    /\ req[r].pc = "sign"
    /\ \/ ~t.genuine /\ To(r, "refused") /\ UNCHANGED verified
       \/ /\ t.genuine /\ To(r, "blocklist")
          /\ verified' = IF Life(t) > 0 THEN Put(Kept(verified), e) ELSE Kept(verified)
    /\ UNCHANGED <<now, issuer, jwks, redis, faults>>

-----------------------------------------------------------------------------
(* The middleware's two questions to Redis; an error is taken for "no", and *)
(* the second is not asked for a token without an iat.                      *)

Refuse(r) ==
    /\ To(r, "refused")
    /\ verified' = Without(verified, req[r].token)

Blocklist(r) == LET t == req[r].token IN
    /\ req[r].pc = "blocklist"
    /\ \/ now <= blocked[t] /\ Refuse(r) /\ UNCHANGED faults
       \/ ~Blocklisted(t) /\ To(r, "session") /\ UNCHANGED <<verified, faults>>
       \/ Fault /\ req' = [req EXCEPT ![r].pc = "session", ![r].lapse = TRUE] /\ UNCHANGED verified
    /\ UNCHANGED <<now, issuer, jwks, redis>>

Session(r) == LET t == req[r].token IN
    /\ req[r].pc = "session"
    /\ \/ Predates(t) /\ now <= session.until /\ Refuse(r) /\ UNCHANGED faults
       \/ ~OldSession(t) /\ To(r, "admitted") /\ UNCHANGED <<verified, faults>>
       \/ t.iat # 0 /\ Fault /\ req' = [req EXCEPT ![r].pc = "admitted", ![r].lapse = TRUE] /\ UNCHANGED verified
    /\ UNCHANGED <<now, issuer, jwks, redis>>

Leave(r) ==
    /\ req[r].pc \in {"admitted", "refused"}
    /\ req' = [req EXCEPT ![r] = NoRequest]
    /\ UNCHANGED <<now, issuer, memory, redis, faults>>

-----------------------------------------------------------------------------

Next ==
    \/ Tick \/ RevokeSessions
    \/ \E k \in Kids : Publish(k) \/ Withdraw(k)
    \/ \E t \in Tokens : RevokeToken(t) \/ \E r \in Requests : Arrive(r, t)
    \/ \E r \in Requests :
          \/ Pem(r) \/ Serve(r) \/ Store(r) \/ FetchTimesOut(r) \/ FetchFails(r)
          \/ Token(r) \/ Sign(r) \/ Blocklist(r) \/ Session(r) \/ Leave(r)

Spec == Init /\ [][Next]_vars
-----------------------------------------------------------------------------

Times == 0..MaxTime
Answered == {"blocklist", "session", "admitted"}

\* Every variable has its type; the cache of verifications keeps within its
\* size and has one entry for a token.
TypeOK ==
    /\ now \in Times /\ published \subseteq Kids /\ gone \in [Kids -> Times \cup {-1}]
    /\ jwks \in [keys : SUBSET Kids, until : 0..(MaxTime + JwksTtl)]
    /\ verified \in Seq([token : Tokens, until : 0..(MaxTime + TokenTtl)])
    /\ Len(verified) <= CacheSize
    /\ \A t \in Tokens : Cardinality(Entries(t)) <= 1
    /\ \A t \in Tokens : blocked[t] \in Int
    /\ session.at \in Times /\ session.until \in -1..(MaxTime + SessionTtl)
    /\ req \in [Requests ->
         [pc : {"idle", "pem", "load", "refresh", "token", "sign", "refused"} \cup Answered,
          token : Tokens, doc : SUBSET Kids, served : Times \cup {-1}, start : Times,
          known : Int, there : BOOLEAN, lapse : BOOLEAN]]
    /\ revokes \in 0..MaxRevokes /\ faults \in 0..MaxFaults

\* No request gets past the verification with a token that is not genuine or
\* had expired when it came, whether verified now or remembered from another
\* request (hono-auth-middleware.ts verifyRs256).
AdmittedIsGenuine ==
    \A r \in Requests : LET t == req[r].token IN
        req[r].pc \in Answered => t.genuine /\ (t.exp = 0 \/ req[r].start <= t.exp)

\* A request that came after its token was revoked, or after the sessions of
\* its user were and the token says it is older, does not get through until
\* the second in which the entry ends, even when the verification of the token
\* is remembered; only a Redis error lets it.  A token without an iat is never
\* found older (hono-auth-middleware.ts lines 196-209, token-blocklist.ts).
RevokedIsRefused ==
    \A r \in Requests :
        req[r].pc = "admitted" /\ now < req[r].known => req[r].lapse

\* A request is refused for a reason: a document that another request has
\* stored, older or newer, never makes a key unknown that is published
\* (jwks.ts getPublicKeyPem).
RefusedForCause ==
    \A r \in Requests : LET t == req[r].token IN
        req[r].pc = "refused" =>
            \/ ~t.genuine \/ Expired(t) \/ req[r].lapse
            \/ blocked[t] >= 0 \/ Predates(t)
            \/ ~req[r].there \/ t.kid \notin published

\* A key that is withdrawn is trusted no longer than one document lives, also
\* when documents are stored out of order (jwks.ts fetchAndCache).
WithdrawnKeyLapses ==
    \A r \in Requests : LET k == Kid(r) IN
        req[r].pc \in Answered \cup {"token", "sign"} /\ gone[k] >= 0
            => req[r].start <= gone[k] + FetchTime + JwksTtl
=============================================================================

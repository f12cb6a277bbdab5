---------------------------- MODULE TokenGateProofs ----------------------------
(***************************************************************************)
(* Proofs about TokenGate, for any number of requests, tokens and keys, and *)
(* for all lives of documents, tokens, sessions and entries.               *)
(***************************************************************************)
EXTENDS TokenGate, FiniteSetTheorems, SequenceTheorems, TLAPS

-----------------------------------------------------------------------------
(* The cache of verifications, as a sequence.  Its entries differ in their  *)
(* tokens; and each of them is of a genuine token, for no longer than the   *)
(* token lives.                                                             *)

Entry    == [token : Tokens, until : 0..(MaxTime + TokenTtl)]
Sound(e) == e.token.genuine /\ e.token.exp # 0 /\ e.until <= e.token.exp

Tidy(seq) ==
    /\ seq \in Seq(Entry)
    /\ \A i, j \in 1..Len(seq) : seq[i].token = seq[j].token => i = j
    /\ \A i \in 1..Len(seq) : Sound(seq[i])

LEMMA Removed ==
    ASSUME NEW S, NEW seq \in Seq(S), NEW k \in 1..Len(seq)
    PROVE  /\ RemoveAt(seq, k) \in Seq(S) /\ Len(RemoveAt(seq, k)) = Len(seq) - 1
           /\ \A i \in 1..(Len(seq) - 1) :
                 RemoveAt(seq, k)[i] = IF i < k THEN seq[i] ELSE seq[i + 1]
  <1> DEFINE n == Len(seq)  a == SubSeq(seq, 1, k - 1)  b == SubSeq(seq, k + 1, n)
  <1>1. n \in Nat /\ \A i \in 1..n : seq[i] \in S
    BY ElementOfSeq, LenProperties
  <1>2. a \in Seq(S) /\ Len(a) = k - 1 /\ \A i \in 1..(k - 1) : a[i] = seq[i]
    <2>1. \A i \in 1..(k - 1) : seq[i] \in S
      BY <1>1
    <2> QED
      BY <1>1, <2>1, SubSeqProperties
  <1>3. b \in Seq(S) /\ Len(b) = n - k /\ \A i \in 1..(n - k) : b[i] = seq[k + i]
    <2>1. \A i \in (k + 1)..n : seq[i] \in S
      BY <1>1
    <2> QED
      BY <1>1, <2>1, SubSeqProperties
  <1> HIDE DEF a, b
  <1>4. /\ a \o b \in Seq(S) /\ Len(a \o b) = Len(a) + Len(b)
        /\ \A i \in 1..(Len(a) + Len(b)) : (a \o b)[i] = IF i <= Len(a) THEN a[i] ELSE b[i - Len(a)]
    BY <1>2, <1>3, ConcatProperties
  <1>5. Len(a) + Len(b) = n - 1
    BY <1>1, <1>2, <1>3
  <1>6. \A i \in 1..(n - 1) : (a \o b)[i] = IF i < k THEN seq[i] ELSE seq[i + 1]
    <2> SUFFICES ASSUME NEW i \in 1..(n - 1)
                 PROVE  (a \o b)[i] = IF i < k THEN seq[i] ELSE seq[i + 1]
      OBVIOUS
    <2>1. CASE i < k
      BY <1>1, <1>2, <1>4, <1>5, <2>1
    <2>2. CASE i >= k
      <3>1. i - (k - 1) \in 1..(n - k) /\ k + (i - (k - 1)) = i + 1 /\ ~(i <= k - 1)
        BY <1>1, <2>2
      <3>2. (a \o b)[i] = b[i - (k - 1)]
        BY <1>2, <1>4, <1>5, <3>1
      <3>3. b[i - (k - 1)] = seq[k + (i - (k - 1))]
        BY <1>3, <3>1
      <3>4. ~(i < k)
        BY <1>1, <2>2
      <3> QED
        <4>1. k + (i - (k - 1)) = i + 1
          BY <3>1
        <4>2. (a \o b)[i] = seq[i + 1]
          BY <3>2, <3>3, <4>1, Zenon
        <4> QED
          BY <3>4, <4>2
    <2>3. i < k \/ i >= k
      BY <1>1
    <2> QED
      BY <2>1, <2>2, <2>3, Zenon
  <1> QED
    BY <1>4, <1>5, <1>6 DEF RemoveAt, a, b

LEMMA WithoutTidy ==
    ASSUME NEW seq, Tidy(seq), NEW t
    PROVE  Tidy(Without(seq, t)) /\ Len(Without(seq, t)) <= Len(seq)
  <1>1. seq \in Seq(Entry) /\ Len(seq) \in Nat /\ DOMAIN seq = 1..Len(seq)
    BY LenProperties DEF Tidy
  <1>2. CASE ~(\E i \in DOMAIN seq : seq[i].token = t)
    BY <1>1, <1>2 DEF Without
  <1>3. CASE \E i \in DOMAIN seq : seq[i].token = t
    <2>1. PICK k \in 1..Len(seq) : Without(seq, t) = RemoveAt(seq, k)
      BY <1>1, <1>3, Zenon DEF Without
    <2> DEFINE s == RemoveAt(seq, k)
    <2>2. /\ s \in Seq(Entry) /\ Len(s) = Len(seq) - 1
          /\ \A i \in 1..Len(s) : s[i] = IF i < k THEN seq[i] ELSE seq[i + 1]
      BY <1>1, Removed
    <2> HIDE DEF s
    <2>3. \A i \in 1..Len(s) : \E j \in 1..Len(seq) :
             s[i] = seq[j] /\ (j = IF i < k THEN i ELSE i + 1)
      BY <1>1, <2>2
    <2>4. \A i \in 1..Len(s) : Sound(s[i])
      BY <2>3 DEF Tidy
    <2>5. \A i, j \in 1..Len(s) : s[i].token = s[j].token => i = j
      <3> SUFFICES ASSUME NEW i \in 1..Len(s), NEW j \in 1..Len(s), s[i].token = s[j].token
                   PROVE  i = j
        OBVIOUS
      <3> DEFINE x == IF i < k THEN i ELSE i + 1  y == IF j < k THEN j ELSE j + 1
      <3>1. x \in 1..Len(seq) /\ y \in 1..Len(seq) /\ seq[x] = s[i] /\ seq[y] = s[j]
        BY <1>1, <2>2
      <3>2. x = y
        BY <3>1 DEF Tidy
      <3> QED
        BY <1>1, <2>2, <3>2
    <2> QED
      BY <1>1, <2>1, <2>2, <2>4, <2>5 DEF Tidy, s
  <1> QED
    BY <1>2, <1>3

LEMMA KeptTidy ==
    ASSUME NEW seq, Tidy(seq), Len(seq) <= CacheSize
    PROVE  Tidy(Kept(seq)) /\ Len(Kept(seq)) < CacheSize
  <1>1. seq \in Seq(Entry) /\ Len(seq) \in Nat /\ CacheSize \in Nat \ {0}
    BY LenProperties, TokenConstantsOK DEF Tidy, TokenConstantsOK
  <1>2. CASE Len(seq) < CacheSize
    BY <1>1, <1>2 DEF Kept
  <1>3. CASE Len(seq) >= CacheSize
    <2> DEFINE s == Tail(seq)
    <2>1. s \in Seq(Entry) /\ Len(s) = Len(seq) - 1 /\ \A i \in 1..Len(s) : s[i] = seq[i + 1]
      <3>1. seq # <<>>
        BY <1>1, <1>3
      <3> QED
        BY <1>1, <3>1, HeadTailProperties
    <2>2. Kept(seq) = s
      BY <1>3 DEF Kept
    <2> HIDE DEF s
    <2>3. \A i \in 1..Len(s) : i + 1 \in 1..Len(seq)
      BY <1>1, <2>1
    <2>4. \A i \in 1..Len(s) : Sound(s[i])
      BY <2>1, <2>3 DEF Tidy
    <2>5. \A i, j \in 1..Len(s) : s[i].token = s[j].token => i + 1 = j + 1
      BY <2>1, <2>3 DEF Tidy
    <2>6. \A i, j \in 1..Len(s) : s[i].token = s[j].token => i = j
      BY <1>1, <2>1, <2>5
    <2> QED
      BY <1>1, <1>3, <2>1, <2>2, <2>4, <2>6 DEF Tidy
  <1> QED
    BY <1>1, <1>2, <1>3

LEMMA PutTidy ==
    ASSUME NEW seq, Tidy(seq), Len(seq) < CacheSize, NEW e \in Entry, Sound(e)
    PROVE  Tidy(Put(seq, e)) /\ Len(Put(seq, e)) <= CacheSize
  <1>1. seq \in Seq(Entry) /\ Len(seq) \in Nat /\ CacheSize \in Nat /\ DOMAIN seq = 1..Len(seq)
    BY LenProperties, TokenConstantsOK DEF Tidy, TokenConstantsOK
  <1>2. CASE \E i \in DOMAIN seq : seq[i].token = e.token
    <2> DEFINE s == [i \in DOMAIN seq |-> IF seq[i].token = e.token THEN e ELSE seq[i]]
    <2>1. Put(seq, e) = s
      BY <1>2, Zenon DEF Put
    <2>2. s \in [1..Len(seq) -> Entry] /\ \A i \in 1..Len(seq) : seq[i] \in Entry
      BY <1>1, ElementOfSeq
    <2>3. s \in Seq(Entry) /\ Len(s) = Len(seq)
      BY <1>1, <2>2
    <2>4. \A i \in 1..Len(seq) : Sound(s[i]) /\ s[i].token = seq[i].token
      BY <1>1 DEF Tidy
    <2> QED
      BY <1>1, <2>1, <2>3, <2>4 DEF Tidy
  <1>3. CASE ~(\E i \in DOMAIN seq : seq[i].token = e.token)
    <2> DEFINE s == Append(seq, e)
    <2>1. /\ s \in Seq(Entry) /\ Len(s) = Len(seq) + 1 /\ s[Len(seq) + 1] = e
          /\ \A i \in 1..Len(seq) : s[i] = seq[i]
      BY <1>1, AppendProperties
    <2>2. Put(seq, e) = s
      BY <1>3, Zenon DEF Put
    <2> HIDE DEF s
    <2>3. \A i \in 1..Len(s) : i \in 1..Len(seq) \/ i = Len(seq) + 1
      BY <1>1, <2>1
    <2>4. \A i \in 1..Len(s) : Sound(s[i])
      BY <2>1, <2>3 DEF Tidy
    <2>5. \A i, j \in 1..Len(s) : s[i].token = s[j].token => i = j
      BY <1>1, <1>3, <2>1, <2>3 DEF Tidy
    <2> QED
      BY <1>1, <2>1, <2>2, <2>4, <2>5 DEF Tidy
  <1> QED
    BY <1>2, <1>3

LEMMA TidyEntries ==
    ASSUME Tidy(verified), NEW t
    PROVE  Cardinality(Entries(t)) <= 1
  <1>1. DOMAIN verified = 1..Len(verified)
    BY LenProperties DEF Tidy
  <1>2. CASE Entries(t) = {}
    BY <1>2, FS_EmptySet
  <1>3. CASE Entries(t) # {}
    <2>1. PICK i : i \in Entries(t)
      BY <1>3
    <2>2. Entries(t) = {i}
      BY <1>1, <2>1 DEF Entries, Tidy
    <2> QED
      BY <2>2, FS_Singleton
  <1> QED
    BY <1>2, <1>3

-----------------------------------------------------------------------------
(* Type correctness.                                                        *)

Pcs == {"idle", "pem", "load", "refresh", "token", "sign", "refused"} \cup Answered
Rec == [pc : Pcs, token : Tokens, doc : SUBSET Kids, served : Times \cup {-1}, start : Times,
        known : Int, there : BOOLEAN, lapse : BOOLEAN]

ClockType  == now \in Times /\ revokes \in 0..MaxRevokes /\ faults \in 0..MaxFaults
IssuerType == published \subseteq Kids /\ gone \in [Kids -> Times \cup {-1}]
JwksType   == jwks \in [keys : SUBSET Kids, until : 0..(MaxTime + JwksTtl)]
CacheType  == Tidy(verified) /\ Len(verified) <= CacheSize
RedisType  == blocked \in [Tokens -> Int] /\ session \in [at : Times, until : -1..(MaxTime + SessionTtl)]
ReqType    == req \in [Requests -> Rec]

Typed == ClockType /\ IssuerType /\ JwksType /\ CacheType /\ RedisType /\ ReqType

LEMMA Sizes ==
    /\ JwksTtl \in Nat \ {0} /\ TokenTtl \in Nat \ {0} /\ SessionTtl \in Nat \ {0}
    /\ CacheSize \in Nat \ {0} /\ FetchTime \in Nat /\ MaxTime \in Nat
    /\ MaxRevokes \in Nat /\ MaxFaults \in Nat
  BY TokenConstantsOK DEF TokenConstantsOK

LEMMA TokenFields ==
    \A t \in Tokens : t.kid \in Kids /\ t.iat \in Nat /\ t.exp \in Nat /\ t.genuine \in BOOLEAN
  BY TokenConstantsOK DEF TokenConstantsOK

LEMMA NoRequestFields ==
    /\ NoRequest \in Rec
    /\ NoRequest.pc = "idle" /\ NoRequest.served = -1 /\ NoRequest.start = 0 /\ NoRequest.known = -1
    /\ NoRequest.there = FALSE /\ NoRequest.lapse = FALSE /\ NoRequest.doc = {}
  <1>1. AnyToken \in Tokens
    BY TokenConstantsOK DEF TokenConstantsOK, AnyToken
  <1>2. 0 \in Times /\ -1 \in Times \cup {-1} /\ -1 \in Int
    BY Sizes DEF Times
  <1>3. NoRequest \in Rec
    BY <1>1, <1>2, Zenon DEF NoRequest, Rec, Pcs
  <1> QED
    BY <1>3 DEF NoRequest

LEMMA MovesTo ==
    ASSUME ReqType, NEW r \in Requests, NEW pc \in Pcs, To(r, pc)
    PROVE  /\ ReqType'
           /\ req'[r].pc = pc /\ req'[r].token = req[r].token
           /\ req'[r].start = req[r].start /\ req'[r].known = req[r].known
           /\ req'[r].there = req[r].there /\ req'[r].lapse = req[r].lapse
           /\ req'[r].doc = req[r].doc /\ req'[r].served = req[r].served
           /\ \A s \in Requests : s # r => req'[s] = req[s]
  BY DEF ReqType, To, Rec

LEMMA FetchedTo ==
    ASSUME ReqType, NEW r \in Requests, NEW pc \in Pcs, Fetched(r, pc)
    PROVE  /\ ReqType'
           /\ req'[r].pc = pc /\ req'[r].token = req[r].token
           /\ req'[r].start = req[r].start /\ req'[r].known = req[r].known
           /\ req'[r].there = req[r].there /\ req'[r].lapse = req[r].lapse
           /\ req'[r].doc = {} /\ req'[r].served = -1
           /\ \A s \in Requests : s # r => req'[s] = req[s]
  BY DEF ReqType, Fetched, Rec

LEMMA LapsesTo ==
    ASSUME ReqType, NEW r \in Requests, NEW pc \in Pcs,
           req' = [req EXCEPT ![r].pc = pc, ![r].lapse = TRUE]
    PROVE  /\ ReqType'
           /\ req'[r].pc = pc /\ req'[r].token = req[r].token
           /\ req'[r].start = req[r].start /\ req'[r].known = req[r].known
           /\ req'[r].there = req[r].there /\ req'[r].lapse = TRUE
           /\ req'[r].doc = req[r].doc /\ req'[r].served = req[r].served
           /\ \A s \in Requests : s # r => req'[s] = req[s]
  BY DEF ReqType, Rec

LEMMA FailsTo ==
    ASSUME ReqType, NEW r \in Requests, FetchLost(r)
    PROVE  /\ ReqType'
           /\ req'[r].pc = "refused" /\ req'[r].token = req[r].token
           /\ req'[r].start = req[r].start /\ req'[r].known = req[r].known
           /\ req'[r].there = req[r].there /\ req'[r].lapse = TRUE
           /\ req'[r].doc = {} /\ req'[r].served = -1
           /\ \A s \in Requests : s # r => req'[s] = req[s]
  BY DEF ReqType, Rec, FetchLost, Pcs

LEMMA Served ==
    ASSUME ReqType, ClockType, IssuerType, NEW r \in Requests, Serve(r)
    PROVE  /\ ReqType'
           /\ req'[r].pc = req[r].pc /\ req'[r].token = req[r].token
           /\ req'[r].start = req[r].start /\ req'[r].known = req[r].known
           /\ req'[r].there = req[r].there /\ req'[r].lapse = req[r].lapse
           /\ req'[r].doc = published /\ req'[r].served = now
           /\ \A s \in Requests : s # r => req'[s] = req[s]
  BY DEF ReqType, ClockType, IssuerType, Rec, Serve

LEMMA RevokedUntilTyped ==
    ASSUME RedisType, NEW t \in Tokens
    PROVE  RevokedUntil(t) \in Int
  BY Sizes DEF RedisType, RevokedUntil

LEMMA Arrived ==
    ASSUME Typed, NEW r \in Requests, NEW t \in Tokens, Arrive(r, t)
    PROVE  /\ ReqType'
           /\ req'[r].pc = "pem" /\ req'[r].token = t
           /\ req'[r].start = now /\ req'[r].known = RevokedUntil(t)
           /\ req'[r].there = (t.kid \in published) /\ req'[r].lapse = FALSE
           /\ req'[r].doc = {} /\ req'[r].served = -1
           /\ \A s \in Requests : s # r => req'[s] = req[s]
  <1> DEFINE q == [pc |-> "pem", token |-> t, doc |-> {}, served |-> -1, start |-> now,
                   known |-> RevokedUntil(t), there |-> (t.kid \in published), lapse |-> FALSE]
  <1>1. req' = [req EXCEPT ![r] = q]
    BY Zenon DEF Arrive
  <1>2. /\ now \in Times /\ RevokedUntil(t) \in Int /\ (t.kid \in published) \in BOOLEAN
        /\ -1 \in Times \cup {-1} /\ {} \in SUBSET Kids
    BY RevokedUntilTyped DEF Typed, ClockType
  <1>3. q \in Rec
    BY <1>2, Zenon DEF Rec, Pcs
  <1>4. req'[r] = q /\ \A s \in Requests : s # r => req'[s] = req[s]
    BY <1>1 DEF Typed, ReqType
  <1>5. ReqType'
    BY <1>1, <1>3, Zenon DEF Typed, ReqType
  <1> QED
    BY <1>4, <1>5

LEMMA Gone ==
    ASSUME ReqType, NEW r \in Requests, Leave(r)
    PROVE  ReqType' /\ req'[r] = NoRequest /\ \A s \in Requests : s # r => req'[s] = req[s]
  BY NoRequestFields DEF ReqType, Leave

LEMMA LifeBound ==
    ASSUME ClockType, NEW t \in Tokens, Life(t) > 0
    PROVE  now + Life(t) \in 0..(MaxTime + TokenTtl) /\ t.exp # 0 /\ now + Life(t) <= t.exp
  <1>1. now \in 0..MaxTime /\ t.exp \in Nat
    BY TokenFields DEF ClockType, Times
  <1> QED
    BY <1>1, Sizes DEF Life

LEMMA Signed ==
    ASSUME Typed, NEW r \in Requests, Sign(r)
    PROVE  CacheType'
  <1> DEFINE t == req[r].token  e == [token |-> t, until |-> now + Life(t)]
  <1>1. t \in Tokens /\ Tidy(verified) /\ Len(verified) <= CacheSize
    BY DEF Typed, ReqType, Rec, CacheType
  <1>2. CASE UNCHANGED verified
    BY <1>1, <1>2 DEF CacheType
  <1>3. CASE /\ t.genuine /\ verified' = IF Life(t) > 0 THEN Put(Kept(verified), e) ELSE Kept(verified)
    <2>1. Tidy(Kept(verified)) /\ Len(Kept(verified)) < CacheSize
      BY <1>1, KeptTidy
    <2>2. Len(Kept(verified)) \in Nat
      BY <2>1, LenProperties DEF Tidy
    <2>3. CASE Life(t) > 0
      <3>1. e \in Entry /\ Sound(e)
        BY <1>1, <1>3, <2>3, LifeBound DEF Entry, Sound, Typed
      <3>2. Tidy(Put(Kept(verified), e)) /\ Len(Put(Kept(verified), e)) <= CacheSize
        BY <2>1, <3>1, PutTidy
      <3> QED
        BY <1>3, <2>3, <3>2 DEF CacheType
    <2>4. CASE ~(Life(t) > 0)
      BY <1>3, <2>1, <2>2, <2>4, Sizes DEF CacheType
    <2> QED
      BY <2>3, <2>4
  <1> QED
    BY <1>2, <1>3 DEF Sign

LEMMA RemembersTidily ==
    ASSUME Typed, NEW r \in Requests,
           verified' = verified \/ verified' = Without(verified, req[r].token)
    PROVE  CacheType'
  <1>1. Len(verified) \in Nat /\ Len(Without(verified, req[r].token)) \in Nat
        /\ Tidy(Without(verified, req[r].token))
        /\ Len(Without(verified, req[r].token)) <= Len(verified)
    BY WithoutTidy, LenProperties DEF Typed, CacheType, Tidy
  <1> QED
    BY <1>1, Sizes DEF Typed, CacheType

\* The steps of a request, by what they leave alone.
RequestStep(r) ==
    \/ (\E t \in Tokens : Arrive(r, t)) \/ Pem(r) \/ Serve(r) \/ Store(r) \/ FetchTimesOut(r)
    \/ FetchFails(r) \/ Token(r) \/ Sign(r) \/ Blocklist(r) \/ Session(r) \/ Leave(r)

LEMMA RequestsTyped ==
    ASSUME Typed, NEW r \in Requests, RequestStep(r)
    PROVE  ReqType'
  <1>0. ReqType
    BY DEF Typed
  <1>1. CASE \E t \in Tokens : Arrive(r, t)
    BY <1>1, Arrived
  <1>2. CASE Pem(r) \/ Token(r) \/ Sign(r)
    BY <1>0, <1>2, MovesTo DEF Pem, Token, Sign, Pcs, Answered
  <1>3. CASE Serve(r)
    BY <1>3, Served DEF Typed
  <1>4. CASE Store(r)
    BY <1>0, <1>4, FetchedTo DEF Store, Fetching, Pcs
  <1>5. CASE FetchFails(r) \/ FetchTimesOut(r)
    BY <1>0, <1>5, FailsTo DEF FetchFails, FetchTimesOut
  <1>6. CASE Blocklist(r) \/ Session(r)
    BY <1>0, <1>6, MovesTo, LapsesTo DEF Blocklist, Session, Refuse, Pcs, Answered
  <1>7. CASE Leave(r)
    BY <1>0, <1>7, Gone
  <1> QED
    BY <1>1, <1>2, <1>3, <1>4, <1>5, <1>6, <1>7 DEF RequestStep

LEMMA RequestsLeave ==
    ASSUME NEW r \in Requests, RequestStep(r)
    PROVE  UNCHANGED <<now, issuer, redis>>
  BY DEF RequestStep, Arrive, Pem, Serve, Store, FetchTimesOut, FetchFails, Token, Sign, Blocklist,
         Session, Leave, issuer, redis, memory

LEMMA TokenTypedInit == Init => Typed
  <1> SUFFICES ASSUME Init
               PROVE  Typed
    OBVIOUS
  <1>1. ClockType /\ IssuerType /\ JwksType
    BY Sizes DEF Init, ClockType, IssuerType, JwksType, Times
  <1>2. RedisType /\ ReqType
    BY Sizes, NoRequestFields DEF Init, RedisType, ReqType, Times
  <1>3. CacheType
    <2>1. verified = <<>> /\ <<>> \in Seq(Entry) /\ Len(<<>>) = 0
      BY EmptySeq DEF Init
    <2> QED
      BY <2>1, Sizes DEF CacheType, Tidy
  <1> QED
    BY <1>1, <1>2, <1>3 DEF Typed

LEMMA TokenTypedNext == Typed /\ [Next]_vars => Typed'
  <1> SUFFICES ASSUME Typed, [Next]_vars
               PROVE  Typed'
    OBVIOUS
  <1>1. ASSUME NEW r \in Requests, RequestStep(r)
        PROVE  Typed'
    <2>1. UNCHANGED <<now, issuer, redis>>
      BY <1>1, RequestsLeave
    <2>2. IssuerType' /\ RedisType'
      BY <2>1 DEF Typed, IssuerType, RedisType, issuer, redis
    <2>3. ClockType'
      <3>1. faults' = faults \/ Fault
        BY <1>1 DEF RequestStep, Arrive, Pem, Serve, Store, FetchTimesOut, FetchFails, Token, Sign,
                    Blocklist, Session, Leave
      <3> QED
        BY <2>1, <3>1, Sizes DEF Typed, ClockType, Fault, redis
    <2>4. JwksType'
      <3>1. CASE Store(r)
        <4>1. req[r].doc \in SUBSET Kids /\ now + JwksTtl \in 0..(MaxTime + JwksTtl)
          BY Sizes DEF Typed, ClockType, ReqType, Rec, Times
        <4> QED
          BY <3>1, <4>1 DEF Store, JwksType
      <3>2. CASE UNCHANGED jwks
        BY <3>2 DEF Typed, JwksType
      <3> QED
        BY <1>1, <3>1, <3>2
           DEF RequestStep, Arrive, Pem, Serve, FetchTimesOut, FetchFails, Token, Sign, Blocklist,
               Session, Leave, memory
    <2>5. CacheType'
      <3>1. CASE Sign(r)
        BY <3>1, Signed
      <3>2. CASE Token(r) \/ Blocklist(r) \/ Session(r)
        BY <3>2, RemembersTidily DEF Token, Blocklist, Session, Refuse
      <3>3. CASE UNCHANGED verified
        BY <3>3, RemembersTidily
      <3> QED
        BY <1>1, <3>1, <3>2, <3>3
           DEF RequestStep, Arrive, Pem, Serve, Store, FetchTimesOut, FetchFails, Leave, memory
    <2> QED
      BY <1>1, <2>2, <2>3, <2>4, <2>5, RequestsTyped DEF Typed
  <1>2. CASE Tick
    <2>1. ClockType'
      BY <1>2, Sizes DEF Tick, Typed, ClockType, Times, redis
    <2> QED
      BY <1>2, <2>1 DEF Tick, Typed, IssuerType, JwksType, CacheType, RedisType, ReqType, issuer, memory, redis
  <1>3. ASSUME NEW k \in Kids, Publish(k) \/ Withdraw(k)
        PROVE  Typed'
    <2>1. IssuerType'
      BY <1>3 DEF Publish, Withdraw, Typed, ClockType, IssuerType
    <2> QED
      BY <1>3, <2>1 DEF Publish, Withdraw, Typed, ClockType, JwksType, CacheType, RedisType, ReqType, memory, redis
  <1>4. CASE RevokeSessions \/ \E t \in Tokens : RevokeToken(t)
    <2>1. RedisType' /\ ClockType'
      <3>1. CASE RevokeSessions
        BY <3>1, Sizes DEF RevokeSessions, Revoke, Typed, RedisType, ClockType, Times
      <3>2. ASSUME NEW t \in Tokens, RevokeToken(t)
            PROVE  RedisType' /\ ClockType'
        BY <3>2, Sizes, TokenFields DEF RevokeToken, Revoke, Typed, RedisType, ClockType, Times
      <3> QED
        BY <1>4, <3>1, <3>2
    <2> QED
      BY <1>4, <2>1 DEF RevokeSessions, RevokeToken, Typed, IssuerType, JwksType, CacheType, ReqType, issuer, memory
  <1>5. CASE UNCHANGED vars
    BY <1>5 DEF vars, issuer, memory, redis, Typed, ClockType, IssuerType, JwksType, CacheType, RedisType, ReqType
  <1> QED
    BY <1>1, <1>2, <1>3, <1>4, <1>5 DEF Next, RequestStep

LEMMA TypesInGroups == Typed => TypeOK
  <1> SUFFICES ASSUME Typed
               PROVE  TypeOK
    OBVIOUS
  <1>1. \A t \in Tokens : Cardinality(Entries(t)) <= 1
    BY TidyEntries DEF Typed, CacheType
  <1>2. verified \in Seq([token : Tokens, until : 0..(MaxTime + TokenTtl)]) /\ Len(verified) <= CacheSize
    BY DEF Typed, CacheType, Tidy, Entry
  <1>3. req \in [Requests ->
         [pc : {"idle", "pem", "load", "refresh", "token", "sign", "refused"} \cup Answered,
          token : Tokens, doc : SUBSET Kids, served : Times \cup {-1}, start : Times,
          known : Int, there : BOOLEAN, lapse : BOOLEAN]]
    BY Zenon DEF Typed, ReqType, Rec, Pcs
  <1> QED
    BY <1>1, <1>2, <1>3 DEF Typed, TypeOK, ClockType, IssuerType, JwksType, RedisType

LEMMA AlwaysTyped == Spec => []Typed
  BY TokenTypedInit, TokenTypedNext, PTL DEF Spec

\* Every variable has its type; the cache of verifications keeps within its
\* size and has one entry for a token (hono-auth-middleware.ts).
THEOREM TokenTypeCorrect == Spec => []TypeOK
  BY AlwaysTyped, TypesInGroups, PTL

-----------------------------------------------------------------------------
(* Requests one by one.  Each of the invariants below is a predicate of one *)
(* request and of the memories; a step of a request leaves the others, the  *)
(* issuer, Redis and the clock alone.                                       *)

LEMMA RequestFields ==
    ASSUME ReqType, NEW r \in Requests
    PROVE  /\ req[r].pc \in Pcs /\ req[r].token \in Tokens /\ req[r].token.kid \in Kids
           /\ req[r].doc \subseteq Kids /\ req[r].served \in Times \cup {-1} /\ req[r].start \in Times
           /\ req[r].known \in Int /\ req[r].token.exp \in Nat /\ req[r].token.iat \in Nat
  <1>1. req[r] \in Rec
    BY DEF ReqType
  <1>2. /\ req[r].pc \in Pcs /\ req[r].token \in Tokens
        /\ req[r].doc \subseteq Kids /\ req[r].served \in Times \cup {-1} /\ req[r].start \in Times
        /\ req[r].known \in Int
    BY <1>1 DEF Rec
  <1> QED
    BY <1>2, TokenFields

LEMMA OthersStay ==
    ASSUME Typed, NEW r \in Requests, RequestStep(r)
    PROVE  \A s \in Requests : s # r => req'[s] = req[s]
  <1>0. ReqType
    BY DEF Typed
  <1>1. CASE \E t \in Tokens : Arrive(r, t)
    BY <1>1, Arrived
  <1>2. CASE Pem(r) \/ Token(r) \/ Sign(r)
    BY <1>0, <1>2, MovesTo DEF Pem, Token, Sign, Pcs, Answered
  <1>3. CASE Serve(r)
    BY <1>3, Served DEF Typed
  <1>4. CASE Store(r)
    BY <1>0, <1>4, FetchedTo DEF Store, Fetching, Pcs
  <1>5. CASE FetchFails(r) \/ FetchTimesOut(r)
    BY <1>0, <1>5, FailsTo DEF FetchFails, FetchTimesOut
  <1>6. CASE Blocklist(r) \/ Session(r)
    BY <1>0, <1>6, MovesTo, LapsesTo DEF Blocklist, Session, Refuse, Pcs, Answered
  <1>7. CASE Leave(r)
    BY <1>0, <1>7, Gone
  <1> QED
    BY <1>1, <1>2, <1>3, <1>4, <1>5, <1>6, <1>7 DEF RequestStep

\* What the environment does.
OutsideStep ==
    \/ Tick \/ RevokeSessions
    \/ \E k \in Kids : Publish(k) \/ Withdraw(k)
    \/ \E t \in Tokens : RevokeToken(t)
    \/ UNCHANGED vars

LEMMA StepsSplit == [Next]_vars => OutsideStep \/ \E r \in Requests : RequestStep(r)
  BY DEF Next, OutsideStep, RequestStep

LEMMA OutsideLeaves ==
    ASSUME Typed, OutsideStep
    PROVE  /\ UNCHANGED req /\ UNCHANGED memory
           /\ now' \in Nat /\ now \in Nat /\ now <= now'
  BY DEF OutsideStep, Tick, RevokeSessions, Publish, Withdraw, RevokeToken, vars, Typed, ClockType, Times

-----------------------------------------------------------------------------
(* Only genuine tokens get through.                                         *)

GenuineOne(q) ==
    /\ q.start <= now
    /\ q.pc \in {"sign"} \cup Answered => q.token.exp = 0 \/ q.start <= q.token.exp
    /\ q.pc \in Answered => q.token.genuine

GenuineInv == \A r \in Requests : GenuineOne(req[r])

LEMMA GenuineNext == Typed /\ GenuineInv /\ [Next]_vars => GenuineInv'
  <1> SUFFICES ASSUME Typed, GenuineInv, [Next]_vars
               PROVE  GenuineInv'
    OBVIOUS
  <1>1. CASE OutsideStep
    <2> SUFFICES ASSUME NEW r \in Requests
                 PROVE  GenuineOne(req[r])'
      BY DEF GenuineInv
    <2>1. req'[r] = req[r] /\ GenuineOne(req[r]) /\ req[r].start \in Times
      BY <1>1, OutsideLeaves, RequestFields DEF GenuineInv, Typed
    <2> QED
      BY <1>1, <2>1, OutsideLeaves DEF GenuineOne, Times
  <1>2. ASSUME NEW r \in Requests, RequestStep(r)
        PROVE  GenuineInv'
    <2> DEFINE q == req[r]  t == req[r].token
    <2>0. /\ ReqType /\ now' = now /\ now \in Nat /\ t \in Tokens /\ q.pc \in Pcs
          /\ q.start \in Times /\ t.exp \in Nat
      BY <1>2, RequestsLeave, RequestFields DEF Typed, ClockType, Times
    <2>1. GenuineOne(q)
      BY DEF GenuineInv
    <2>9. \A s \in Requests : s # r => GenuineOne(req[s])'
      BY <1>2, <2>0, OthersStay DEF GenuineInv, GenuineOne
    <2> SUFFICES GenuineOne(req[r])'
      BY <2>9 DEF GenuineInv
    <2>2. CASE \E u \in Tokens : Arrive(r, u)
      <3>1. req'[r].pc = "pem" /\ req'[r].start = now
        BY <2>2, Arrived
      <3> QED
        BY <2>0, <3>1 DEF GenuineOne, Answered
    <2>3. CASE Pem(r) \/ Serve(r) \/ Store(r) \/ FetchTimesOut(r) \/ FetchFails(r)
      <3>1. req'[r].pc \notin {"sign"} \cup Answered /\ req'[r].start = q.start
        <4>1. CASE Pem(r)
          BY <2>0, <4>1, MovesTo DEF Pem, Pcs, Answered
        <4>2. CASE Serve(r)
          BY <2>0, <4>2, Served DEF Serve, Fetching, Typed, Answered
        <4>3. CASE Store(r)
          BY <2>0, <4>3, FetchedTo DEF Store, Fetching, Pcs, Answered
        <4>4. CASE FetchFails(r) \/ FetchTimesOut(r)
          BY <2>0, <4>4, FailsTo DEF FetchFails, FetchTimesOut, Answered
        <4> QED
          BY <2>3, <4>1, <4>2, <4>3, <4>4
      <3> QED
        BY <2>0, <2>1, <3>1 DEF GenuineOne
    <2>4. CASE Token(r)
      <3>1. CASE (\E i \in Entries(t) : now <= verified[i].until) /\ To(r, "blocklist")
        <4>1. PICK i \in 1..Len(verified) : verified[i].token = t /\ now <= verified[i].until
          BY <3>1, LenProperties DEF Entries, Typed, CacheType, Tidy
        <4>2. Sound(verified[i]) /\ verified[i] \in Entry
          BY ElementOfSeq DEF Typed, CacheType, Tidy
        <4>3. t.genuine
          BY <4>1, <4>2 DEF Sound
        <4>4. t.exp = 0 \/ q.start <= t.exp
          BY <2>0, <2>1, <4>1, <4>2 DEF Sound, GenuineOne, Entry, Times
        <4>5. req'[r].pc = "blocklist" /\ req'[r].start = q.start /\ req'[r].token = t
          BY <2>0, <3>1, MovesTo DEF Pcs, Answered
        <4> QED
          BY <2>0, <2>1, <4>3, <4>4, <4>5 DEF GenuineOne
      <3>2. CASE To(r, IF Expired(t) THEN "refused" ELSE "sign")
        <4>1. /\ req'[r].pc = IF Expired(t) THEN "refused" ELSE "sign"
              /\ req'[r].start = q.start /\ req'[r].token = t
          BY <2>0, <3>2, MovesTo DEF Pcs
        <4>2. req'[r].pc = "sign" => t.exp = 0 \/ q.start <= t.exp
          BY <2>0, <2>1, <4>1 DEF GenuineOne, Expired, Times
        <4>3. req'[r].pc \notin Answered
          BY <4>1 DEF Answered
        <4> QED
          BY <2>0, <2>1, <4>1, <4>2, <4>3 DEF GenuineOne
      <3> QED
        BY <2>4, <3>1, <3>2 DEF Token
    <2>5. CASE Sign(r)
      <3>1. t.exp = 0 \/ q.start <= t.exp
        BY <2>1, <2>5 DEF Sign, GenuineOne
      <3>2. /\ req'[r].start = q.start /\ req'[r].token = t
            /\ req'[r].pc = "refused" \/ (req'[r].pc = "blocklist" /\ t.genuine)
        BY <2>0, <2>5, MovesTo DEF Sign, Pcs, Answered
      <3> QED
        BY <2>0, <2>1, <3>1, <3>2 DEF GenuineOne, Answered
    <2>6. CASE Blocklist(r) \/ Session(r)
      <3>1. req'[r].start = q.start /\ req'[r].token = t /\ q.pc \in Answered
        BY <2>0, <2>6, MovesTo, LapsesTo DEF Blocklist, Session, Refuse, Pcs, Answered
      <3> QED
        BY <2>0, <2>1, <3>1 DEF GenuineOne
    <2>7. CASE Leave(r)
      BY <2>0, <2>7, Gone, NoRequestFields DEF GenuineOne, Answered
    <2> QED
      BY <1>2, <2>2, <2>3, <2>4, <2>5, <2>6, <2>7 DEF RequestStep
  <1> QED
    BY <1>1, <1>2, StepsSplit

\* No request gets past the verification with a token that is not genuine or
\* had expired when it came, whether verified now or remembered from another
\* request (hono-auth-middleware.ts verifyRs256).
THEOREM OnlyGenuineTokensAreAnswered == Spec => []AdmittedIsGenuine
  <1>1. Init => GenuineInv
    BY NoRequestFields DEF Init, GenuineInv, GenuineOne, Answered
  <1>2. Spec => []GenuineInv
    BY <1>1, GenuineNext, AlwaysTyped, PTL DEF Spec
  <1>3. GenuineInv => AdmittedIsGenuine
    BY DEF GenuineInv, GenuineOne, AdmittedIsGenuine
  <1> QED
    BY <1>2, <1>3, PTL

-----------------------------------------------------------------------------
(* Revoked tokens are refused.  What was revoked when a request came is     *)
(* still revoked, as long as it was, whenever Redis is asked about it: an   *)
(* entry is only ever replaced by one that ends later.                      *)

BlockedInv ==
    \A t \in Tokens : \/ blocked[t] = -1 \/ blocked[t] = t.exp
                      \/ (t.exp <= blocked[t] - SessionTtl /\ blocked[t] - SessionTtl <= now)

SessionInv == session.at <= now /\ (session.until = -1 \/ session.until = session.at + SessionTtl)

\* Redis knows what the request's token was revoked by when it came.
StillKnown(q) ==
    q.known <= blocked[q.token] \/ (Predates(q.token) /\ q.known <= session.until)

KnownOne(q) ==
    /\ StillKnown(q)
    /\ q.pc = "session" =>
          q.lapse \/ q.known <= now \/ (Predates(q.token) /\ q.known <= session.until)
    /\ q.pc = "admitted" => q.lapse \/ q.known <= now

KnownInv == BlockedInv /\ SessionInv /\ \A r \in Requests : KnownOne(req[r])

\* Time and the revocations make no entry end earlier.
LEMMA RevocationsLast ==
    ASSUME Typed, KnownInv, OutsideStep
    PROVE  /\ BlockedInv' /\ SessionInv'
           /\ \A t \in Tokens : blocked[t] <= blocked'[t]
           /\ session.at <= session'.at /\ session.until <= session'.until
  <1>0. /\ \A t \in Tokens : blocked[t] \in Int /\ t.exp \in Nat
        /\ session.at \in Nat /\ session.until \in Int /\ session.until >= -1 /\ now \in Nat
        /\ now' \in Nat /\ now <= now' /\ SessionTtl \in Nat
    <2>1. session.at \in Nat /\ session.until \in -1..(MaxTime + SessionTtl)
      BY DEF Typed, RedisType, Times
    <2> QED
      BY <2>1, Sizes, TokenFields, OutsideLeaves DEF Typed, RedisType
  <1>1. CASE UNCHANGED redis
    BY <1>0, <1>1 DEF redis, KnownInv, BlockedInv, SessionInv
  <1>2. CASE RevokeSessions
    <2>1. /\ now' = now /\ blocked' = blocked
          /\ session'.at = now /\ session'.until = now + SessionTtl
      BY <1>2 DEF RevokeSessions
    <2> QED
      BY <1>0, <2>1 DEF KnownInv, BlockedInv, SessionInv
  <1>3. ASSUME NEW u \in Tokens, RevokeToken(u)
        PROVE  /\ BlockedInv' /\ SessionInv'
               /\ \A t \in Tokens : blocked[t] <= blocked'[t]
               /\ session.at <= session'.at /\ session.until <= session'.until
    <2> DEFINE b == IF u.exp > now THEN u.exp ELSE now + SessionTtl
    <2>1. /\ now' = now /\ session' = session /\ blocked'[u] = b
          /\ \A t \in Tokens : t # u => blocked'[t] = blocked[t]
      BY <1>3 DEF RevokeToken, Typed, RedisType
    <2>2. b = u.exp \/ (u.exp <= b - SessionTtl /\ b - SessionTtl <= now)
      BY <1>0
    <2>3. blocked[u] <= b
      BY <1>0, Sizes DEF KnownInv, BlockedInv
    <2> HIDE DEF b
    <2>4. \A t \in Tokens : blocked[t] <= blocked'[t]
      BY <1>0, <2>1, <2>3
    <2>5. BlockedInv' /\ SessionInv'
      BY <2>1, <2>2 DEF KnownInv, BlockedInv, SessionInv
    <2> QED
      BY <1>0, <2>1, <2>4, <2>5
  <1> QED
    BY <1>1, <1>2, <1>3 DEF OutsideStep, Tick, Publish, Withdraw, vars

LEMMA KnownNext == Typed /\ KnownInv /\ [Next]_vars => KnownInv'
  <1> SUFFICES ASSUME Typed, KnownInv, [Next]_vars
               PROVE  KnownInv'
    OBVIOUS
  <1>1. CASE OutsideStep
    <2>1. BlockedInv' /\ SessionInv'
      BY <1>1, RevocationsLast
    <2> SUFFICES ASSUME NEW r \in Requests
                 PROVE  KnownOne(req[r])'
      BY <2>1 DEF KnownInv
    <2> DEFINE q == req[r]
    <2>2. /\ req'[r] = q /\ q.known \in Int /\ q.token \in Tokens /\ q.token.iat \in Nat
          /\ now \in Nat /\ now' \in Nat /\ now <= now' /\ KnownOne(q)
      BY <1>1, OutsideLeaves, RequestFields DEF KnownInv, Typed
    <2>3. /\ blocked[q.token] \in Int /\ blocked'[q.token] \in Int /\ blocked[q.token] <= blocked'[q.token]
          /\ session.at \in Int /\ session'.at \in Int /\ session.at <= session'.at
          /\ session.until \in Int /\ session'.until \in Int /\ session.until <= session'.until
      <3>1. Typed'
        BY TokenTypedNext
      <3> QED
        BY <1>1, <2>2, <3>1, RevocationsLast DEF Typed, RedisType, Times
    <2>4. StillKnown(q)'
      BY <2>2, <2>3 DEF KnownOne, StillKnown, Predates
    <2> QED
      BY <2>2, <2>3, <2>4 DEF KnownOne, Predates
  <1>2. ASSUME NEW r \in Requests, RequestStep(r)
        PROVE  KnownInv'
    <2> DEFINE q == req[r]  t == req[r].token
    <2>0. /\ ReqType /\ now' = now /\ now \in Nat /\ t \in Tokens /\ q.pc \in Pcs
          /\ q.known \in Int /\ t.iat \in Nat /\ blocked' = blocked /\ session' = session
      BY <1>2, RequestsLeave, RequestFields DEF Typed, ClockType, Times, redis
    <2>1. KnownOne(q) /\ BlockedInv' /\ SessionInv'
      BY <2>0 DEF KnownInv, BlockedInv, SessionInv
    <2>2. blocked[t] \in Int /\ session.at \in Int /\ session.until \in Int
      BY <2>0 DEF Typed, RedisType, Times
    <2>3. \A s \in Requests : s # r => KnownOne(req[s])'
      BY <1>2, <2>0, OthersStay DEF KnownInv, KnownOne, StillKnown, Predates
    <2> SUFFICES KnownOne(req[r])'
      BY <2>1, <2>3 DEF KnownInv
    <2>4. CASE \E u \in Tokens : Arrive(r, u)
      <3>1. PICK u \in Tokens : Arrive(r, u)
        BY <2>4
      <3>2. req'[r].pc = "pem" /\ req'[r].token = u /\ req'[r].known = RevokedUntil(u)
        BY <3>1, Arrived
      <3>3. blocked[u] \in Int /\ session.until \in Int
        BY DEF Typed, RedisType
      <3>4. RevokedUntil(u) <= blocked[u] \/ (Predates(u) /\ RevokedUntil(u) <= session.until)
        BY <3>3 DEF RevokedUntil, OldSession
      <3> QED
        BY <2>0, <3>2, <3>4 DEF KnownOne, StillKnown, Predates
    <2>5. ASSUME req'[r].known = q.known, req'[r].token = t, req'[r].pc \notin {"session", "admitted"}
          PROVE  KnownOne(req[r])'
      BY <2>0, <2>1, <2>5 DEF KnownOne, StillKnown, Predates
    <2>6. CASE Pem(r) \/ Token(r) \/ Sign(r)
      BY <2>0, <2>5, <2>6, MovesTo DEF Pem, Token, Sign, Pcs, Answered
    <2>7. CASE Serve(r)
      BY <2>5, <2>7, Served DEF Serve, Fetching, Typed
    <2>8. CASE Store(r)
      BY <2>0, <2>5, <2>8, FetchedTo DEF Store, Fetching, Pcs
    <2>9. CASE FetchFails(r) \/ FetchTimesOut(r)
      BY <2>0, <2>5, <2>9, FailsTo DEF FetchFails, FetchTimesOut
    <2>10. CASE Blocklist(r)
      <3>1. CASE To(r, "refused")
        BY <2>0, <2>5, <3>1, MovesTo DEF Pcs
      <3>2. CASE ~Blocklisted(t) /\ To(r, "session")
        <4>1. req'[r].known = q.known /\ req'[r].token = t /\ req'[r].pc = "session"
          BY <2>0, <3>2, MovesTo DEF Pcs, Answered
        <4>2. q.known <= now \/ (Predates(t) /\ q.known <= session.until)
          BY <2>0, <2>1, <2>2, <3>2 DEF Blocklisted, KnownOne, StillKnown, Predates
        <4> QED
          BY <2>0, <2>1, <4>1, <4>2 DEF KnownOne, StillKnown, Predates
      <3>3. CASE req' = [req EXCEPT ![r].pc = "session", ![r].lapse = TRUE]
        <4>1. req'[r].known = q.known /\ req'[r].token = t /\ req'[r].pc = "session" /\ req'[r].lapse
          BY <2>0, <3>3, LapsesTo DEF Pcs, Answered
        <4> QED
          BY <2>0, <2>1, <4>1 DEF KnownOne, StillKnown, Predates
      <3> QED
        BY <2>10, <3>1, <3>2, <3>3 DEF Blocklist, Refuse
    <2>11. CASE Session(r)
      <3>1. CASE To(r, "refused")
        BY <2>0, <2>5, <3>1, MovesTo DEF Pcs
      <3>2. CASE q.pc = "session" /\ ~OldSession(t) /\ To(r, "admitted")
        <4>1. /\ req'[r].known = q.known /\ req'[r].token = t /\ req'[r].pc = "admitted"
              /\ req'[r].lapse = q.lapse
          BY <2>0, <3>2, MovesTo DEF Pcs, Answered
        <4>2. q.lapse \/ q.known <= now
          BY <2>0, <2>1, <2>2, <3>2 DEF OldSession, KnownOne
        <4> QED
          BY <2>0, <2>1, <4>1, <4>2 DEF KnownOne, StillKnown, Predates
      <3>3. CASE req' = [req EXCEPT ![r].pc = "admitted", ![r].lapse = TRUE]
        <4>1. req'[r].known = q.known /\ req'[r].token = t /\ req'[r].pc = "admitted" /\ req'[r].lapse
          BY <2>0, <3>3, LapsesTo DEF Pcs, Answered
        <4> QED
          BY <2>0, <2>1, <4>1 DEF KnownOne, StillKnown, Predates
      <3> QED
        BY <2>11, <3>1, <3>2, <3>3 DEF Session, Refuse
    <2>12. CASE Leave(r)
      <3>1. /\ req'[r] = NoRequest /\ NoRequest.pc = "idle" /\ NoRequest.known = -1
            /\ NoRequest.token \in Tokens
        BY <2>0, <2>12, Gone, NoRequestFields DEF Rec
      <3>2. -1 <= blocked[NoRequest.token]
        BY <2>0, <3>1, Sizes, TokenFields DEF KnownInv, BlockedInv, Typed, RedisType
      <3> QED
        BY <2>0, <3>1, <3>2 DEF KnownOne, StillKnown, Predates
    <2> QED
      BY <1>2, <2>4, <2>6, <2>7, <2>8, <2>9, <2>10, <2>11, <2>12 DEF RequestStep
  <1> QED
    BY <1>1, <1>2, StepsSplit

LEMMA KnownAlways == Spec => [](Typed /\ KnownInv)
  <1>1. Init => KnownInv
    <2> SUFFICES ASSUME Init
                 PROVE  KnownInv
      OBVIOUS
    <2>1. BlockedInv /\ SessionInv
      BY DEF Init, BlockedInv, SessionInv
    <2>2. \A r \in Requests : /\ req[r] = NoRequest /\ NoRequest.pc = "idle" /\ NoRequest.known = -1
                               /\ blocked[NoRequest.token] = -1
      BY NoRequestFields DEF Init, Rec
    <2>3. \A r \in Requests : KnownOne(req[r])
      BY <2>2 DEF KnownOne, StillKnown, Predates
    <2> QED
      BY <2>1, <2>3 DEF KnownInv
  <1> QED
    BY <1>1, KnownNext, TokenTypedInit, TokenTypedNext, PTL DEF Spec

\* A request that came after its token was revoked, or after the sessions of
\* its user were and the token says it is older, does not get through until
\* the second in which the entry ends, even when the verification of the token
\* is remembered; only a Redis error lets it (hono-auth-middleware.ts).
THEOREM RevokedTokensAreRefused == Spec => []RevokedIsRefused
  <1>1. Typed /\ KnownInv => RevokedIsRefused
    <2> SUFFICES ASSUME Typed, KnownInv, NEW r \in Requests, req[r].pc = "admitted", now < req[r].known
                 PROVE  req[r].lapse
      BY DEF RevokedIsRefused
    <2>1. KnownOne(req[r]) /\ now \in Nat /\ req[r].known \in Int
      BY RequestFields DEF KnownInv, Typed, ClockType, Times
    <2> QED
      BY <2>1 DEF KnownOne
  <1> QED
    BY <1>1, KnownAlways, PTL

-----------------------------------------------------------------------------
(* Requests are refused for cause, and keys that are withdrawn lapse.  Both  *)
(* rest on what a document says of the keys at the time it was served: one  *)
(* that is in it had not been withdrawn before, one that is not has.        *)

GoneInv ==
    \A k \in Kids : (gone[k] >= 0 => k \notin published) /\ gone[k] <= now

Cause(q) ==
    \/ ~q.token.genuine \/ Expired(q.token) \/ q.lapse
    \/ blocked[q.token] >= 0 \/ Predates(q.token)
    \/ ~q.there \/ q.token.kid \notin published

CauseOne(q) == LET k == q.token.kid IN
    /\ q.there => k \in published \/ gone[k] >= 0
    /\ q.served >= 0 /\ q.there => k \in q.doc \/ gone[k] >= 0
    /\ q.pc = "refused" => Cause(q)

CauseInv == GoneInv /\ \A r \in Requests : CauseOne(req[r])

LEMMA GoneNext == Typed /\ GoneInv /\ [Next]_vars => GoneInv' /\ \A k \in Kids : gone[k] >= 0 => gone'[k] = gone[k]
  <1> SUFFICES ASSUME Typed, GoneInv, [Next]_vars
               PROVE  GoneInv' /\ \A k \in Kids : gone[k] >= 0 => gone'[k] = gone[k]
    OBVIOUS
  <1>0. now \in Nat /\ \A k \in Kids : gone[k] \in Int
    BY DEF Typed, ClockType, IssuerType, Times
  <1>1. CASE UNCHANGED <<now, issuer>>
    BY <1>1 DEF issuer, GoneInv
  <1>2. CASE Tick
    BY <1>0, <1>2 DEF Tick, issuer, GoneInv
  <1>3. ASSUME NEW k \in Kids, Publish(k) \/ Withdraw(k)
        PROVE  GoneInv' /\ \A l \in Kids : gone[l] >= 0 => gone'[l] = gone[l]
    BY <1>0, <1>3 DEF Publish, Withdraw, GoneInv, Typed, IssuerType
  <1>4. CASE RevokeSessions \/ (\E t \in Tokens : RevokeToken(t)) \/ UNCHANGED vars
    BY <1>1, <1>4 DEF RevokeSessions, RevokeToken, vars
  <1>5. CASE \E r \in Requests : RequestStep(r)
    BY <1>1, <1>5, RequestsLeave
  <1> QED
    BY <1>2, <1>3, <1>4, <1>5, StepsSplit DEF OutsideStep

\* A cause stays one, and a key that was there is there or was withdrawn.
LEMMA CausesLast ==
    ASSUME Typed, KnownInv, GoneInv, OutsideStep, NEW r \in Requests, CauseOne(req[r])
    PROVE  CauseOne(req[r])'
  <1> DEFINE q == req[r]  t == q.token  k == q.token.kid
  <1>1. /\ req'[r] = q /\ t \in Tokens /\ k \in Kids /\ t.exp \in Nat /\ t.iat \in Nat
        /\ now \in Nat /\ now' \in Nat /\ now <= now'
    BY OutsideLeaves, RequestFields DEF Typed
  <1>2. /\ blocked[t] \in Int /\ blocked'[t] \in Int /\ blocked[t] <= blocked'[t]
        /\ session.at \in Int /\ session'.at \in Int /\ session.at <= session'.at
    <2>1. Typed'
      BY TokenTypedNext DEF OutsideStep, Next
    <2> QED
      BY <1>1, <2>1, RevocationsLast DEF Typed, RedisType, Times
  <1>3. gone[k] >= 0 => gone'[k] >= 0 /\ k \notin published'
    BY <1>1, GoneNext DEF OutsideStep, Next, GoneInv
  <1>4. k \in published => k \in published' \/ gone'[k] >= 0
    BY <1>1 DEF OutsideStep, Tick, RevokeSessions, Publish, Withdraw, RevokeToken, vars, issuer,
                Typed, IssuerType
  <1>5. /\ q.there => k \in published' \/ gone'[k] >= 0
        /\ q.served >= 0 /\ q.there => k \in q.doc \/ gone'[k] >= 0
    BY <1>3, <1>4 DEF CauseOne
  <1>6. q.pc = "refused" => Cause(q)'
    <2> SUFFICES ASSUME q.pc = "refused"
                 PROVE  Cause(q)'
      OBVIOUS
    <2>1. Cause(q)
      BY DEF CauseOne
    <2>2. CASE ~t.genuine \/ q.lapse \/ ~q.there
      BY <1>1, <2>2, Zenon DEF Cause
    <2>3. CASE Expired(t) \/ blocked[t] >= 0 \/ Predates(t)
      <3>1. Expired(t)' \/ blocked'[t] >= 0 \/ Predates(t)'
        BY <1>1, <1>2, <2>3 DEF Expired, Predates
      <3> QED
        BY <1>1, <3>1 DEF Cause
    <2>4. CASE k \notin published /\ q.there
      <3>1. gone[k] >= 0
        BY <2>4 DEF CauseOne
      <3>2. k \notin published'
        BY <1>3, <3>1
      <3> QED
        BY <1>1, <3>2 DEF Cause
    <2> QED
      BY <2>1, <2>2, <2>3, <2>4 DEF Cause
  <1> QED
    BY <1>1, <1>5, <1>6 DEF CauseOne

LEMMA CauseNext == Typed /\ KnownInv /\ CauseInv /\ [Next]_vars => CauseInv'
  <1> SUFFICES ASSUME Typed, KnownInv, CauseInv, [Next]_vars
               PROVE  CauseInv'
    OBVIOUS
  <1>0. GoneInv'
    BY GoneNext DEF CauseInv
  <1>1. CASE OutsideStep
    BY <1>0, <1>1, CausesLast DEF CauseInv
  <1>2. ASSUME NEW r \in Requests, RequestStep(r)
        PROVE  CauseInv'
    <2> DEFINE q == req[r]  t == req[r].token  k == req[r].token.kid
    <2>0. /\ ReqType /\ now' = now /\ now \in Nat /\ t \in Tokens /\ k \in Kids /\ q.pc \in Pcs
          /\ blocked' = blocked /\ session' = session /\ published' = published /\ gone' = gone
      BY <1>2, RequestsLeave, RequestFields DEF Typed, ClockType, Times, redis, issuer
    <2>1. CauseOne(q)
      BY DEF CauseInv
    <2>2. \A s \in Requests : s # r => CauseOne(req[s])'
      BY <1>2, <2>0, OthersStay DEF CauseInv, CauseOne, Cause, Expired, Predates
    <2> SUFFICES CauseOne(req[r])'
      BY <1>0, <2>2 DEF CauseInv
    <2>3. CASE \E u \in Tokens : Arrive(r, u)
      <3>1. PICK u \in Tokens : Arrive(r, u)
        BY <2>3
      <3>2. /\ req'[r].pc = "pem" /\ req'[r].token = u /\ req'[r].served = -1
            /\ req'[r].there = (u.kid \in published)
        BY <3>1, Arrived
      <3>3. ~(req'[r].served >= 0) /\ req'[r].pc # "refused"
        BY <3>2
      <3>4. req'[r].there => req'[r].token.kid \in published'
        BY <2>0, <3>2, Zenon
      <3> QED
        BY <3>3, <3>4, Zenon DEF CauseOne
    \* A step that keeps the document and does not refuse, or drops it.
    <2>4. ASSUME req'[r].token = t, req'[r].there = q.there, req'[r].pc # "refused",
                 (req'[r].served = q.served /\ req'[r].doc = q.doc) \/ req'[r].served = -1
          PROVE  CauseOne(req[r])'
      BY <2>0, <2>1, <2>4 DEF CauseOne
    \* One that refuses.
    <2>5. ASSUME req'[r].token = t, req'[r].there = q.there,
                 (req'[r].served = q.served /\ req'[r].doc = q.doc) \/ req'[r].served = -1,
                 req'[r].lapse \/ ~t.genuine \/ Expired(t) \/ blocked[t] >= 0
                   \/ Predates(t) \/ ~q.there \/ k \notin published
          PROVE  CauseOne(req[r])'
      <3>1. Cause(req[r])'
        BY <2>0, <2>5 DEF Cause, Expired, Predates
      <3> QED
        BY <2>0, <2>1, <2>5, <3>1 DEF CauseOne
    <2>6. CASE Pem(r)
      BY <2>0, <2>4, <2>6, MovesTo DEF Pem, Pcs, Answered
    <2>7. CASE Serve(r)
      <3>1. /\ req'[r].pc = q.pc /\ req'[r].token = t /\ req'[r].there = q.there
            /\ req'[r].doc = published /\ q.pc # "refused"
        BY <2>7, Served DEF Serve, Fetching, Typed
      <3> QED
        BY <2>0, <2>1, <3>1 DEF CauseOne
    <2>8. CASE Store(r)
      <3>1. CASE Fetched(r, "token") \/ Fetched(r, "refresh")
        BY <2>0, <2>4, <3>1, FetchedTo DEF Pcs
      <3>2. CASE k \notin q.doc /\ Fetched(r, "refused")
        <4>1. ~q.there \/ k \notin published
          BY <2>0, <2>1, <2>8, <3>2 DEF Store, CauseOne, CauseInv, GoneInv
        <4> QED
          BY <2>0, <2>5, <3>2, <4>1, FetchedTo DEF Pcs
      <3> QED
        BY <2>8, <3>1, <3>2 DEF Store, Kid
    <2>10. CASE FetchFails(r) \/ FetchTimesOut(r)
      BY <2>0, <2>5, <2>10, FailsTo DEF FetchFails, FetchTimesOut
    <2>11. CASE Token(r)
      <3>1. CASE To(r, "blocklist") \/ To(r, "sign")
        BY <2>0, <2>4, <3>1, MovesTo DEF Pcs, Answered
      <3>2. CASE Expired(t) /\ To(r, "refused")
        BY <2>0, <2>5, <3>2, MovesTo DEF Pcs
      <3> QED
        BY <2>11, <3>1, <3>2 DEF Token
    <2>12. CASE Sign(r)
      <3>1. CASE To(r, "blocklist")
        BY <2>0, <2>4, <3>1, MovesTo DEF Pcs, Answered
      <3>2. CASE ~t.genuine /\ To(r, "refused")
        BY <2>0, <2>5, <3>2, MovesTo DEF Pcs
      <3> QED
        BY <2>12, <3>1, <3>2 DEF Sign
    <2>13. CASE Blocklist(r)
      <3>1. CASE now <= blocked[t] /\ To(r, "refused")
        <4>1. blocked[t] >= 0
          BY <2>0, <3>1 DEF Typed, RedisType
        <4> QED
          BY <2>0, <2>5, <3>1, <4>1, MovesTo DEF Pcs
      <3>2. CASE To(r, "session")
        BY <2>0, <2>4, <3>2, MovesTo DEF Pcs, Answered
      <3>3. CASE req' = [req EXCEPT ![r].pc = "session", ![r].lapse = TRUE]
        <4>1. "session" \in Pcs /\ "session" # "refused"
          BY DEF Pcs, Answered
        <4>2. /\ req'[r].pc = "session" /\ req'[r].token = t /\ req'[r].there = q.there
              /\ req'[r].served = q.served /\ req'[r].doc = q.doc
          BY <2>0, <3>3, <4>1, LapsesTo, Zenon
        <4> QED
          BY <2>4, <4>1, <4>2, Zenon
      <3> QED
        BY <2>13, <3>1, <3>2, <3>3 DEF Blocklist, Refuse
    <2>14. CASE Session(r)
      <3>1. CASE Predates(t) /\ To(r, "refused")
        BY <2>0, <2>5, <3>1, MovesTo DEF Pcs
      <3>2. CASE To(r, "admitted")
        BY <2>0, <2>4, <3>2, MovesTo DEF Pcs, Answered
      <3>3. CASE req' = [req EXCEPT ![r].pc = "admitted", ![r].lapse = TRUE]
        <4>1. "admitted" \in Pcs /\ "admitted" # "refused"
          BY DEF Pcs, Answered
        <4>2. /\ req'[r].pc = "admitted" /\ req'[r].token = t /\ req'[r].there = q.there
              /\ req'[r].served = q.served /\ req'[r].doc = q.doc
          BY <2>0, <3>3, <4>1, LapsesTo, Zenon
        <4> QED
          BY <2>4, <4>1, <4>2, Zenon
      <3> QED
        BY <2>14, <3>1, <3>2, <3>3 DEF Session, Refuse
    <2>15. CASE Leave(r)
      <3>1. req'[r].there = FALSE /\ req'[r].pc = "idle"
        BY <2>0, <2>15, Gone, NoRequestFields
      <3>2. ~req'[r].there /\ req'[r].pc # "refused"
        BY <3>1
      <3> QED
        BY <3>2, Zenon DEF CauseOne
    <2> QED
      BY <1>2, <2>3, <2>6, <2>7, <2>8, <2>10, <2>11, <2>12, <2>13, <2>14, <2>15 DEF RequestStep
  <1> QED
    BY <1>1, <1>2, StepsSplit

\* A request is refused for a reason: a document that another request has
\* stored, older or newer, never makes a key unknown that is published
\* (jwks.ts getPublicKeyPem).
THEOREM RefusalsHaveCauses == Spec => []RefusedForCause
  <1>1. Init => CauseInv
    <2>1. Init => GoneInv
      BY DEF Init, GoneInv
    <2>2. Init => \A r \in Requests : CauseOne(req[r])
      BY NoRequestFields DEF Init, CauseOne
    <2> QED
      BY <2>1, <2>2 DEF CauseInv
  <1>2. Spec => []CauseInv
    BY <1>1, CauseNext, KnownNext, KnownAlways, PTL DEF Spec
  <1>3. CauseInv => RefusedForCause
    BY Zenon DEF CauseInv, CauseOne, Cause, RefusedForCause
  <1> QED
    BY <1>2, <1>3, PTL

Trusting == Answered \cup {"token", "sign"}

\* Until when a key withdrawn at that time may be trusted.
Lapse(t) == t + FetchTime + JwksTtl

LapseOne(q) == LET k == q.token.kid IN
    /\ q.start <= now /\ q.served <= now
    /\ q.served >= 0 => \A l \in q.doc : gone[l] >= 0 => q.served <= gone[l]
    /\ q.pc \in Trusting /\ gone[k] >= 0 => q.start <= Lapse(gone[k])

JwksInv ==
    /\ jwks.until <= now + JwksTtl
    /\ \A k \in jwks.keys : gone[k] >= 0 => jwks.until <= Lapse(gone[k])

LapseInv == GoneInv /\ JwksInv /\ \A r \in Requests : LapseOne(req[r])

\* Once withdrawn, a key keeps the time of its withdrawal; and whoever has seen
\* it before has seen it no later than that.
LEMMA GoneMoves ==
    ASSUME Typed, GoneInv, OutsideStep, NEW k \in Kids
    PROVE  /\ gone[k] \in Int /\ gone'[k] \in Int
           /\ gone'[k] >= 0 => gone'[k] = gone[k] \/ gone'[k] = now
  <1>1. gone'[k] = gone[k] \/ gone'[k] = now
    BY DEF OutsideStep, Tick, RevokeSessions, Publish, Withdraw, RevokeToken, vars, issuer,
           Typed, IssuerType
  <1>2. gone[k] \in Int /\ now \in Int
    BY DEF Typed, ClockType, IssuerType, Times
  <1> QED
    BY <1>1, <1>2

LEMMA LapseNext == Typed /\ LapseInv /\ [Next]_vars => LapseInv'
  <1> SUFFICES ASSUME Typed, LapseInv, [Next]_vars
               PROVE  LapseInv'
    OBVIOUS
  <1>0. GoneInv'
    BY GoneNext DEF LapseInv
  <1>1. CASE OutsideStep
    <2>0. /\ UNCHANGED <<req, jwks>> /\ now \in Nat /\ now' \in Nat /\ now <= now'
          /\ FetchTime \in Nat /\ JwksTtl \in Nat
      BY <1>1, OutsideLeaves, Sizes DEF memory
    <2>1. JwksInv'
      <3>1. jwks.until \in Nat /\ jwks.keys \subseteq Kids /\ jwks.until <= now + JwksTtl
        BY DEF Typed, JwksType, LapseInv, JwksInv
      <3>2. jwks.until <= now' + JwksTtl
        BY <2>0, <3>1
      <3> SUFFICES ASSUME NEW k \in jwks.keys, gone'[k] >= 0
                   PROVE  jwks.until <= Lapse(gone'[k])
        BY <2>0, <3>2 DEF JwksInv, Lapse
      <3>3. gone'[k] = gone[k] \/ gone'[k] = now
        BY <1>1, <3>1, GoneMoves DEF LapseInv
      <3>4. CASE gone'[k] = gone[k]
        BY <3>4 DEF LapseInv, JwksInv
      <3>5. CASE gone'[k] = now
        BY <2>0, <3>1, <3>5 DEF Lapse
      <3> QED
        BY <3>3, <3>4, <3>5
    <2> SUFFICES ASSUME NEW r \in Requests
                 PROVE  LapseOne(req[r])'
      BY <1>0, <2>1 DEF LapseInv
    <2> DEFINE q == req[r]  k == q.token.kid
    <2>2. /\ req'[r] = q /\ k \in Kids /\ q.start \in Nat /\ q.served \in Int /\ q.doc \subseteq Kids
      BY <2>0, RequestFields DEF Typed, Times
    <2>3. LapseOne(q)
      BY DEF LapseInv
    <2>4. q.start <= now' /\ q.served <= now'
      BY <2>0, <2>2, <2>3 DEF LapseOne
    <2>5. ASSUME q.served >= 0, NEW l \in q.doc, gone'[l] >= 0
          PROVE  q.served <= gone'[l]
      <3>1. gone'[l] = gone[l] \/ gone'[l] = now
        BY <1>1, <2>2, <2>5, GoneMoves DEF LapseInv
      <3> QED
        BY <2>3, <2>5, <3>1 DEF LapseOne
    <2>6. ASSUME q.pc \in Trusting, gone'[k] >= 0
          PROVE  q.start <= Lapse(gone'[k])
      <3>1. gone'[k] = gone[k] \/ gone'[k] = now
        BY <1>1, <2>2, <2>6, GoneMoves DEF LapseInv
      <3>2. CASE gone'[k] = gone[k]
        BY <2>3, <2>6, <3>2 DEF LapseOne
      <3>3. CASE gone'[k] = now
        BY <2>0, <2>2, <2>3, <3>3 DEF LapseOne, Lapse
      <3> QED
        BY <3>1, <3>2, <3>3
    <2> QED
      BY <2>2, <2>4, <2>5, <2>6 DEF LapseOne, Lapse
  <1>2. ASSUME NEW r \in Requests, RequestStep(r)
        PROVE  LapseInv'
    <2> DEFINE q == req[r]  t == req[r].token  k == req[r].token.kid
    <2>0. /\ ReqType /\ now' = now /\ now \in Nat /\ t \in Tokens /\ k \in Kids /\ q.pc \in Pcs
          /\ q.start \in Nat /\ q.served \in Int /\ q.doc \subseteq Kids
          /\ published' = published /\ gone' = gone /\ FetchTime \in Nat /\ JwksTtl \in Nat
          /\ \A l \in Kids : gone[l] \in Int
      BY <1>2, RequestsLeave, RequestFields, Sizes DEF Typed, ClockType, IssuerType, Times, issuer
    <2>1. LapseOne(q)
      BY DEF LapseInv
    <2>2. \A s \in Requests : s # r => LapseOne(req[s])'
      BY <1>2, <2>0, OthersStay DEF LapseInv, LapseOne, Lapse
    <2>3. JwksInv'
      <3>1. CASE UNCHANGED jwks
        BY <2>0, <3>1 DEF LapseInv, JwksInv, Lapse
      <3>2. CASE Store(r)
        <4>1. /\ q.served >= 0 /\ now <= q.served + FetchTime
              /\ jwks'.keys = q.doc /\ jwks'.until = now + JwksTtl
          BY <3>2 DEF Store
        <4>2. \A l \in q.doc : gone[l] >= 0 => now + JwksTtl <= Lapse(gone[l])
          BY <2>0, <2>1, <4>1 DEF LapseOne, Lapse
        <4> QED
          BY <2>0, <4>1, <4>2 DEF JwksInv, Lapse
      <3> QED
        BY <1>2, <3>1, <3>2
           DEF RequestStep, Arrive, Pem, Serve, FetchTimesOut, FetchFails, Token, Sign, Blocklist,
               Session, Leave, memory
    <2> SUFFICES LapseOne(req[r])'
      BY <1>0, <2>2, <2>3 DEF LapseInv
    \* A step that keeps the document, or drops it, and is trusted with the key.
    <2>4. ASSUME req'[r].token = t, req'[r].start = q.start,
                 (req'[r].served = q.served /\ req'[r].doc = q.doc) \/ req'[r].served = -1,
                 req'[r].pc \in Trusting /\ gone[k] >= 0 => q.start <= Lapse(gone[k])
          PROVE  LapseOne(req[r])'
      BY <2>0, <2>1, <2>4 DEF LapseOne, Lapse
    <2>5. CASE \E u \in Tokens : Arrive(r, u)
      <3>1. req'[r].pc = "pem" /\ req'[r].start = now /\ req'[r].served = -1
        BY <2>5, Arrived
      <3> QED
        BY <2>0, <3>1 DEF LapseOne, Trusting, Answered
    <2>6. CASE Pem(r)
      <3>1. CASE now < jwks.until /\ k \in jwks.keys /\ To(r, "token")
        <4>1. gone[k] >= 0 => q.start <= Lapse(gone[k])
          BY <2>0, <2>1, <3>1 DEF LapseInv, JwksInv, LapseOne, Lapse, Typed, JwksType
        <4> QED
          BY <2>0, <2>4, <3>1, <4>1, MovesTo DEF Pcs
      <3>2. CASE To(r, "refresh") \/ To(r, "load")
        BY <2>0, <2>4, <3>2, MovesTo DEF Pcs, Trusting, Answered
      <3> QED
        BY <2>6, <3>1, <3>2 DEF Pem, Kid
    <2>7. CASE Serve(r)
      <3>1. /\ req'[r].pc = q.pc /\ req'[r].token = t /\ req'[r].start = q.start
            /\ req'[r].doc = published /\ req'[r].served = now
        BY <2>7, Served DEF Typed
      <3>2. \A l \in published : ~(gone[l] >= 0)
        BY DEF LapseInv, GoneInv, Typed, IssuerType
      <3> QED
        BY <2>0, <2>1, <3>1, <3>2 DEF LapseOne, Lapse
    <2>8. CASE Store(r)
      <3>1. CASE k \in q.doc /\ Fetched(r, "token")
        <4>1. gone[k] >= 0 => q.start <= Lapse(gone[k])
          BY <2>0, <2>1, <2>8, <3>1 DEF Store, LapseOne, Lapse
        <4> QED
          BY <2>0, <2>4, <3>1, <4>1, FetchedTo DEF Pcs
      <3>2. CASE Fetched(r, "refresh") \/ Fetched(r, "refused")
        BY <2>0, <2>4, <3>2, FetchedTo DEF Pcs, Trusting, Answered
      <3> QED
        BY <2>8, <3>1, <3>2 DEF Store, Kid
    <2>10. CASE FetchFails(r) \/ FetchTimesOut(r)
      BY <2>0, <2>4, <2>10, FailsTo DEF FetchFails, FetchTimesOut, Trusting, Answered
    <2>11. CASE Token(r) \/ Sign(r)
      <3>1. q.pc \in Trusting
        BY <2>11 DEF Token, Sign, Trusting
      <3>2. \E pc \in Pcs : To(r, pc)
        BY <2>11 DEF Token, Sign, Pcs, Answered
      <3> QED
        BY <2>0, <2>1, <2>4, <3>1, <3>2, MovesTo DEF LapseOne
    <2>12. CASE Blocklist(r) \/ Session(r)
      <3>1. q.pc \in Trusting
        BY <2>12 DEF Blocklist, Session, Trusting, Answered
      <3>2. \E pc \in Pcs : To(r, pc) \/ req' = [req EXCEPT ![r].pc = pc, ![r].lapse = TRUE]
        BY <2>12 DEF Blocklist, Session, Refuse, Pcs, Answered
      <3>3. /\ req'[r].token = t /\ req'[r].start = q.start
            /\ req'[r].served = q.served /\ req'[r].doc = q.doc
        BY <2>0, <3>2, MovesTo, LapsesTo
      <3> QED
        BY <2>0, <2>1, <2>4, <3>1, <3>3 DEF LapseOne
    <2>13. CASE Leave(r)
      <3>1. req'[r].pc = "idle" /\ req'[r].start = 0 /\ req'[r].served = -1
        BY <2>0, <2>13, Gone, NoRequestFields
      <3> QED
        BY <2>0, <3>1 DEF LapseOne, Trusting, Answered
    <2> QED
      BY <1>2, <2>5, <2>6, <2>7, <2>8, <2>10, <2>11, <2>12, <2>13 DEF RequestStep
  <1> QED
    BY <1>1, <1>2, StepsSplit

\* A key that is withdrawn is trusted no longer than one document lives, also
\* when documents are stored out of order (jwks.ts fetchAndCache).
THEOREM WithdrawnKeysLapse == Spec => []WithdrawnKeyLapses
  <1>1. Init => LapseInv
    <2> SUFFICES ASSUME Init
                 PROVE  LapseInv
      OBVIOUS
    <2>1. GoneInv /\ JwksInv
      BY Sizes DEF Init, GoneInv, JwksInv
    <2>2. \A r \in Requests : LapseOne(req[r])
      BY NoRequestFields DEF Init, LapseOne, Trusting, Answered
    <2> QED
      BY <2>1, <2>2 DEF LapseInv
  <1>2. Spec => []LapseInv
    BY <1>1, LapseNext, AlwaysTyped, PTL DEF Spec
  <1>3. LapseInv => WithdrawnKeyLapses
    BY DEF LapseInv, LapseOne, Lapse, Trusting, WithdrawnKeyLapses, Kid
  <1> QED
    BY <1>2, <1>3, PTL
=============================================================================
